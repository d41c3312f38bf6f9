--------------------------- MODULE MCCommandPath ---------------------------
(* CommandPath on small instances: see the .cfg files.                     *)
EXTENDS CommandPath
============================================================================
