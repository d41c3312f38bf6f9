------------------------------ MODULE BytePipe ------------------------------
(***************************************************************************)
(* What the calls of socket.c take one direction of a socket's memory to   *)
(* be: bytes put in at one end come out at the other, in order and once,   *)
(* and there is room for Size of them.  Bytes are numbered as they are put *)
(* in, modulo Period.                                                      *)
(***************************************************************************)
EXTENDS Naturals, Sequences

CONSTANTS Size, Period

VARIABLES
    held,    \* the bytes in it
    count,   \* the number of the next byte
    out      \* the bytes taken out last

Init == held = << >> /\ count = 0 /\ out = << >>

Put(n) ==
    /\ n <= Size - Len(held)
    /\ held' = held \o [i \in 1 .. n |-> (count + i - 1) % Period]
    /\ count' = (count + n) % Period
    /\ UNCHANGED out

Take(n) ==
    /\ n <= Len(held)
    /\ out' = SubSeq(held, 1, n)
    /\ held' = SubSeq(held, n + 1, Len(held))
    /\ UNCHANGED count

Next == \E n \in 1 .. Size : Put(n) \/ Take(n)

Spec == Init /\ [][Next]_<<held, count, out>>
=============================================================================
