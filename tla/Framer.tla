------------------------------- MODULE Framer -------------------------------
(***************************************************************************)
(* ZyreFramer: the multipart frames of a connection, byte by byte.  A peer *)
(* writes messages one after the other; TCP delivers their bytes in pieces *)
(* of any length; try_receive_on_socket() appends each piece to its buffer *)
(* and decodes at most one message from it.                                *)
(***************************************************************************)
EXTENDS Integers, Sequences, SequencesExt

CONSTANTS
    ByteMax,     \* largest value of a byte (255)
    BufMax,      \* ZYRE_MAX_RECV_BYTES (1024)
    ReqIdLen,    \* 16
    Json,        \* the contents json::parse() accepts
    Messages,    \* what the peer may send: sequences of parts
    MaxSent      \* bound: messages on one connection

Byte == 0 .. ByteMax

ASSUME FramerAssumption ==
    /\ ByteMax \in Nat \ {0} /\ BufMax \in Nat \ {0} /\ ReqIdLen \in Nat
    /\ Messages \subseteq Seq(Seq(Byte)) /\ MaxSent \in Nat

VARIABLES
    fr_sent,     \* history: messages the peer has written
    fr_wire,     \* bytes not yet received
    fr_rx,       \* rx_bufs[sn], up to rx_len[sn]
    fr_got       \* history: the commands receive() has returned

frVars == <<fr_sent, fr_wire, fr_rx, fr_got>>

----------------------------------------------------------------------------
(* encode() and decode().                                                  *)

SizeByte(n) == n % (ByteMax + 1)

\* Mutant: an empty part is left out.
Encoded_SkipsEmpty(parts) ==
    LET some == SelectSeq(parts, LAMBDA p : p # << >>)
    IN  FlattenSeq([i \in DOMAIN some |->
            <<IF i < Len(some) THEN 1 ELSE 0, SizeByte(Len(some[i]))>> \o some[i]])

\* Each part with its two bytes in front; nothing if they do not fit.
Encoded(parts) ==
    FlattenSeq([i \in DOMAIN parts |->
        <<IF i < Len(parts) THEN 1 ELSE 0, SizeByte(Len(parts[i]))>> \o parts[i]])

encode(parts, room) == IF Len(Encoded(parts)) > room THEN << >> ELSE Encoded(parts)

NoParse == [ok |-> FALSE, parts |-> << >>, next |-> 0]

\* The parts of `data` from position i on: the loop ends after a part without
\* "more", or when fewer than two bytes are left; a part that is cut short ends
\* decode() altogether.
Parts(data) ==
    LET from[i \in 1 .. Len(data) + 1] ==
          IF i + 1 > Len(data) THEN [ok |-> TRUE, parts |-> << >>, next |-> i]
          ELSE LET size == data[i + 1]
                   rest == IF i + 2 + size > Len(data) + 1 THEN NoParse
                           ELSE IF data[i] % 2 = 0
                             THEN [ok |-> TRUE, parts |-> << >>, next |-> i + 2 + size]
                             ELSE from[i + 2 + size]
               IN  IF ~rest.ok THEN NoParse
                   ELSE [rest EXCEPT !.parts = <<SubSeq(data, i + 2, i + 1 + size)>> \o @]
    IN  from[1]

Usable(p) ==
    /\ p.ok /\ Len(p.parts) >= 4
    /\ Len(p.parts[2]) = ReqIdLen
    /\ p.parts[4] \in Json

----------------------------------------------------------------------------
(* The connection.                                                         *)

FrInit == fr_sent = << >> /\ fr_wire = << >> /\ fr_rx = << >> /\ fr_got = << >>

\* External: the peer frames its messages as encode() does.
PeerSends(msg) ==
    /\ Len(fr_sent) < MaxSent
    /\ fr_sent' = Append(fr_sent, msg)
    /\ fr_wire' = fr_wire \o Encoded(msg)
    /\ UNCHANGED <<fr_rx, fr_got>>

\* Mutant: the bytes that follow a message are dropped with it.
Rest_None(data, p) == << >>

\* memmove() of what follows the message.
Rest(data, p) == SubSeq(data, p.next, Len(data))

\* One call of try_receive_on_socket(): no more than fits is received.  A buffer
\* that is full and yields no message is emptied.
TryReceive(n) ==
    /\ n <= Len(fr_wire) /\ n <= BufMax - Len(fr_rx)
    /\ fr_wire' = SubSeq(fr_wire, n + 1, Len(fr_wire))
    /\ LET data == fr_rx \o SubSeq(fr_wire, 1, n)
           p    == Parts(data)
       IN  IF Usable(p)
             THEN fr_got' = Append(fr_got, p.parts) /\ fr_rx' = Rest(data, p)
             ELSE fr_rx' = (IF Len(data) = BufMax THEN << >> ELSE data) /\ UNCHANGED fr_got
    /\ UNCHANGED fr_sent

FrNext ==
    \/ \E msg \in Messages : PeerSends(msg)
    \/ \E n \in 1 .. Len(fr_wire) : TryReceive(n)

FrSpec == FrInit /\ [][FrNext]_frVars

----------------------------------------------------------------------------
(* Properties.                                                             *)

FrTypeOK ==
    /\ fr_sent \in Seq(Messages) /\ Len(fr_sent) <= MaxSent
    /\ fr_wire \in Seq(Byte)
    /\ fr_rx \in Seq(Byte) /\ Len(fr_rx) < BufMax
    /\ fr_got \in Seq(Seq(Seq(Byte)))

\* Messages decode() is made for: four parts, each short enough for its size
\* byte, a request id of the right length, JSON that parses, and no more bytes
\* than the buffer has.
WellFormed(msg) ==
    /\ Len(msg) = 4 /\ Len(Encoded(msg)) <= BufMax
    /\ \A i \in 1 .. 4 : Len(msg[i]) <= ByteMax
    /\ Len(msg[2]) = ReqIdLen /\ msg[4] \in Json

\* Wherever TCP cuts the stream, well-formed messages are decoded whole and in
\* the order they were sent, and no byte behind one is lost, until one that is not
\* comes along: that one stays in the buffer and hides those behind it.
DecodedAsSent ==
    LET stream(msgs) == FlattenSeq([i \in DOMAIN msgs |-> Encoded(msgs[i])])
    IN  (\A i \in DOMAIN fr_sent : WellFormed(fr_sent[i])) =>
            /\ IsPrefix(fr_got, fr_sent)
            /\ stream(fr_got) \o fr_rx \o fr_wire = stream(fr_sent)

\* encode() loses nothing that decode() could read: of the messages that pass,
\* those that fit a reply buffer are read back, if each part is shorter than a
\* byte can say, and only then.
ReadBack ==
    \A i \in DOMAIN fr_sent :
        LET msg   == fr_sent[i]
            frame == encode(msg, BufMax)
            p     == Parts(frame)
        IN  frame # << >> =>
                ((p.ok /\ p.parts = msg) <=> \A j \in DOMAIN msg : Len(msg[j]) <= ByteMax)
=============================================================================
