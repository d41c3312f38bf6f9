----------------------------- MODULE MCZyreLink -----------------------------
(* ZyreLink on small instances: see the .cfg files.                        *)
EXTENDS ZyreLink, TLC
=============================================================================
