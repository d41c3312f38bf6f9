---------------------------- MODULE MCDhcpClient ----------------------------
(* DhcpClient on small instances: see the .cfg files.                      *)
EXTENDS DhcpClient, TLC

Forever  == -1

\* Servers with the same pool, and with pools of their own.
Shared   == [s \in Server |-> Addr]
Disjoint == CHOOSE p \in [Server -> SUBSET Addr] :
                /\ \A s \in Server : p[s] # {}
                /\ \A s, t \in Server : s # t => p[s] \intersect p[t] = {}
=============================================================================
