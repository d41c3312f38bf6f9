--------------------------- MODULE CommandService ---------------------------
(***************************************************************************)
(* What the firmware promises of a command, with the sockets, the tasks    *)
(* and their queues hidden: a queue of bounded capacity, served in order,  *)
(* and for each command at most one reply of each kind on the wire, each   *)
(* only once the command has come far enough.  A reply may be lost.        *)
(***************************************************************************)
EXTENDS Naturals, Sequences

CONSTANTS
    Item,      \* commands, as the queue holds them
    Reply,     \* replies
    Capacity   \* commands accepted and not yet executed, at most

VARIABLES
    queued,   \* accepted commands, the one being executed included
    done,     \* executed commands, in order
    wire      \* replies transmitted

vars == <<queued, done, wire>>

In(c, q) == \E i \in DOMAIN q : q[i].cmd = c

Accepted(c) == In(c, queued) \/ In(c, done)
Refused(c)  == \E r \in wire : r.cmd = c /\ r.from = "coms" /\ r.type = "ERROR"
Begun(c)    == \E r \in wire : r.cmd = c /\ r.from = "executor"
Finished(c) == \E r \in wire : r.cmd = c /\ r.from = "executor" /\ r.type # "ACK"

Init == queued = << >> /\ done = << >> /\ wire = {}

\* A command is accepted once, and never after it was refused.
Accept(item) ==
    /\ Len(queued) < Capacity
    /\ ~Accepted(item.cmd) /\ ~Refused(item.cmd)
    /\ queued' = Append(queued, item)
    /\ UNCHANGED <<done, wire>>

\* The oldest accepted command is executed.
Execute ==
    /\ queued # << >>
    /\ done' = Append(done, Head(queued))
    /\ queued' = Tail(queued)
    /\ UNCHANGED wire

\* What a reply may say, given how far its command has come.
Justified(r) ==
    CASE r.from = "coms" /\ r.type = "ACK"     -> Accepted(r.cmd) /\ ~Begun(r.cmd)
      [] r.from = "coms" /\ r.type = "ERROR"   -> ~Accepted(r.cmd)
      [] r.from = "executor" /\ r.type = "ACK" -> Accepted(r.cmd) /\ ~Finished(r.cmd)
      [] OTHER -> In(r.cmd, done) /\ ~Finished(r.cmd)

Answer(r) ==
    /\ r \notin wire
    /\ Justified(r)
    /\ wire' = wire \union {r}
    /\ UNCHANGED <<queued, done>>

Next ==
    \/ \E item \in Item : Accept(item)
    \/ Execute
    \/ \E r \in Reply : Answer(r)

Spec == Init /\ [][Next]_vars
============================================================================
