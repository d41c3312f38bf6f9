----------------------------- MODULE QueueCopies ----------------------------
(***************************************************************************)
(* What command_in holds: xQueueSend() copies a Command byte by byte.  The *)
(* copy's std::string and json members point where those of coms_task's    *)
(* msg point, and each call of decode() writes there again.                *)
(*                                                                         *)
(* A key is a sequence of characters.  Characters of a short key are       *)
(* inside the std::string object, those of a long one in a block of the    *)
(* heap; Junk is what stands where no key does.                            *)
(***************************************************************************)
EXTENDS Integers, Sequences

CONSTANTS
    KeysSent,      \* the keys of the commands that peers may send
    LocalCap,      \* characters that fit into a std::string itself (15)
    CommandLen,    \* length of command_in (10)
    MaxParsed,     \* bound: messages decoded
    Junk

Characters == UNION {{k[i] : i \in DOMAIN k} : k \in KeysSent}

ASSUME QueueCopiesAssumption ==
    /\ LocalCap \in Nat \ {0} /\ CommandLen \in Nat \ {0} /\ MaxParsed \in Nat
    /\ KeysSent \subseteq Seq(Characters) /\ << >> \notin KeysSent
    /\ Junk \notin Characters

VARIABLES
    coms_at,     \* coms_task: "receive", or "offer" with a command in msg
    msg_key,     \* msg.key: the block of its characters, their number, its room
    msg_args,    \* msg.args: the number of its object, 0 for a value without one
    parsed,      \* history: messages decoded, which numbers the objects
    heap,        \* characters of each block; block 0 is inside msg.key
    copies,      \* command_in
    exec_at,     \* executor_task: "take", "look", "handle"
    copy,        \* its cmd
    acts         \* what it found in cmd last

comsVars == <<coms_at, msg_key, msg_args, parsed, heap>>
execVars == <<exec_at, copy, acts>>
qcVars   == <<comsVars, copies, execVars>>

Blank(n)  == [i \in 1 .. n |-> Junk]
NoKey    == [at |-> 0, len |-> 0, cap |-> LocalCap]
NoCopy   == [key |-> NoKey, args |-> 0, own |-> << >>]
Nothing  == [key |-> << >>, args |-> TRUE]

QcInit ==
    /\ coms_at = "receive" /\ msg_key = NoKey /\ msg_args = 0 /\ parsed = 0
    /\ heap = <<Blank(LocalCap)>>
    /\ copies = << >>
    /\ exec_at = "take" /\ copy = NoCopy /\ acts = Nothing

----------------------------------------------------------------------------
(* std::string and json.                                                   *)

Block(b) == heap[b + 1]

Written(chars, k) == [i \in DOMAIN chars |-> IF i \in DOMAIN k THEN k[i] ELSE chars[i]]

Larger(m, n) == IF m < n THEN n ELSE m

\* out.key = parts[2]: in place if there is room.  Otherwise into a new block:
\* the old one is freed, and the new room is noted inside the object, where the
\* characters of a short key were.
AssignKey(k) ==
    IF Len(k) <= msg_key.cap
      THEN /\ msg_key' = [msg_key EXCEPT !.len = Len(k)]
           /\ heap' = [heap EXCEPT ![msg_key.at + 1] = Written(@, k)]
      ELSE LET cap == Larger(2 * msg_key.cap, Len(k))
           IN  /\ msg_key' = [at |-> Len(heap), len |-> Len(k), cap |-> cap]
               /\ heap' = Append([b \in DOMAIN heap |->
                                     IF b = 1 THEN [heap[1] EXCEPT ![1] = Junk]
                                     ELSE Blank(Len(heap[b]))],
                                 Written(Blank(cap), k))

\* What cmd.key reads as, by now.
Chars(key) == SubSeq(Block(key.at), 1, key.len)

\* cmd.args has its object as long as msg.args has it.
Alive(args) == args \in {0, msg_args}

----------------------------------------------------------------------------
(* The two tasks.                                                          *)

\* decode() writes key and args of msg.  receive() then returns it, or not: JSON
\* that does not parse leaves a value without an object, a command on the
\* overflow socket is answered there.
Decode(k, object, returned) ==
    /\ coms_at = "receive" /\ parsed < MaxParsed
    /\ AssignKey(k)
    /\ parsed' = parsed + 1
    /\ msg_args' = IF object THEN parsed' ELSE 0
    /\ coms_at' = IF returned THEN "offer" ELSE "receive"
    /\ UNCHANGED <<copies, execVars>>

\* xQueueSend(): a copy of msg, bytes and pointers, if there is a place.
OfferCopy ==
    /\ coms_at = "offer"
    /\ coms_at' = "receive"
    /\ copies' = IF Len(copies) < CommandLen
                   THEN Append(copies, [key |-> msg_key, args |-> msg_args, own |-> Chars(msg_key)])
                   ELSE copies
    /\ UNCHANGED <<msg_key, msg_args, parsed, heap, execVars>>

\* xQueueReceive().
TakeCopy ==
    /\ exec_at = "take" /\ copies # << >>
    /\ copy' = Head(copies) /\ copies' = Tail(copies)
    /\ exec_at' = "look" /\ acts' = Nothing
    /\ UNCHANGED comsVars

\* dispatch_table.find(cmd.key).
LookUp ==
    /\ exec_at = "look"
    /\ acts' = [acts EXCEPT !.key = Chars(copy.key)]
    /\ exec_at' = "handle"
    /\ UNCHANGED <<comsVars, copies, copy>>

\* The handler of the key found looks for its device by cmd.key again, and for
\* its arguments in cmd.args.
Handle ==
    /\ exec_at = "handle"
    /\ acts' = [key |-> Chars(copy.key), args |-> Alive(copy.args)]
    /\ exec_at' = "take"
    /\ UNCHANGED <<comsVars, copies, copy>>

QcNext ==
    \/ \E k \in KeysSent, object, returned \in BOOLEAN : Decode(k, object, returned)
    \/ OfferCopy
    \/ TakeCopy \/ LookUp \/ Handle

QcSpec == QcInit /\ [][QcNext]_qcVars

----------------------------------------------------------------------------

QcTypeOK ==
    LET KeyRefs  == [at : 0 .. Len(heap) - 1, len : Nat, cap : Nat]
        InRoom(key) == key.len <= Len(Block(key.at))
        Copies  == [key : KeyRefs, args : 0 .. parsed, own : KeysSent \union {<< >>}]
    IN  /\ coms_at \in {"receive", "offer"} /\ exec_at \in {"take", "look", "handle"}
        /\ msg_key \in KeyRefs /\ InRoom(msg_key) /\ msg_args \in 0 .. parsed
        /\ copies \in Seq(Copies) /\ Len(copies) <= CommandLen
        /\ copy \in Copies /\ InRoom(copy.key)
        /\ \A i \in DOMAIN copies : InRoom(copies[i].key)
        /\ acts.args \in BOOLEAN /\ Len(acts.key) <= Len(Block(copy.key.at))

\* The executor acts on the command that was accepted: the key it looks up, the
\* key its handler finds the device by, and the arguments are those that
\* coms_task offered, whatever coms_task has received since.  (What the queue
\* between the tasks is for; the code breaks it.)
ActsOnWhatWasAccepted ==
    acts # Nothing => acts = [key |-> copy.own, args |-> TRUE]
=============================================================================
