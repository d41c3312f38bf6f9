----------------------------- MODULE MCTibDhcp ------------------------------
(* TibDhcp on small instances: see the .cfg files.                         *)
EXTENDS TibDhcp, TLC

Forever == -1

\* Servers with pools of their own.
Disjoint == CHOOSE p \in [Server -> SUBSET Addr] :
                /\ \A s \in Server : p[s] # {}
                /\ \A s, t \in Server : s # t => p[s] \intersect p[t] = {}
=============================================================================
