----------------------------- MODULE WizSocket -----------------------------
(***************************************************************************)
(* The calls of socket.c on the sockets of one chip, the registers they    *)
(* poll and the peers at the other end.  One thread makes one call at a    *)
(* time; between two reads of a register the chip and the peers go on.     *)
(*                                                                         *)
(* A caller sets call; the steps of that function end with call = None and *)
(* its result in ret: a length, SOCK_OK, SOCK_BUSY or an error.            *)
(*                                                                         *)
(* TCP bytes and UDP datagrams are records [who, n]: the n-th byte of a    *)
(* connection, or a datagram of n units from a client.                     *)
(***************************************************************************)
EXTENDS Integers, Sequences

CONSTANTS
    Socks,       \* the sockets in use, 0 .. _WIZCHIP_SOCK_NUM_ - 1
    RxMAX, TxMAX,    \* units of memory of a socket, each way
    MTU,         \* the largest datagram
    MaxSay, MaxTalk,     \* bounds: bytes a peer says, and the peers of two sockets in use
    Clients,     \* addresses of UDP peers
    PortMax,     \* 2^16 - 1, made small
    SOCK_ANY_PORT_NUM, SOCK_ANY_PORT_END     \* 0xC000 and 0xFFF0

ASSUME SocketAssumption ==
    /\ Socks \subseteq Nat /\ 0 \in Socks /\ Clients \subseteq Nat \ {0}
    /\ RxMAX \in Nat \ {0} /\ TxMAX \in Nat \ {0} /\ MTU \in 1 .. RxMAX - 1
    /\ MaxSay \in Nat /\ MaxTalk \in Nat /\ PortMax \in Nat
    /\ SOCK_ANY_PORT_END \in 1 .. PortMax /\ SOCK_ANY_PORT_NUM \in 1 .. SOCK_ANY_PORT_END - 1

SOCK_OK   == 1
SOCK_BUSY == 0
SOCKERR   == -1     \* any of the SOCKERR_ codes: callers only look at the sign

\* A call: the function, how far it is, the socket, and a length or a port.
None    == [fn |-> "none", st |-> "", sn |-> 0, arg |-> 0]
Call(fn, sn, arg) == [fn |-> fn, st |-> "begin", sn |-> sn, arg |-> arg]
Garbage0 == 0       \* an address that no packet carried

VARIABLES
    w6x00,       \* the library is compiled for a W6100 or W6300, with IPv6
    Sn_SR, Sn_IR, Sn_PORT, Sn_DIPR,     \* registers of each socket
    rx, tx,      \* its memory: received and not read, written and not acknowledged
    sending,     \* units of tx that a SEND command is transmitting, 0 for none
    sock_any_port, sock_io_mode, sock_is_sending, sock_remained_size,
    call, ret,
    buf,         \* the caller's buffer
    destip,      \* where recvfrom() stores the sender, and sendto() sends
    conn, said, heard,   \* each peer: its connection, bytes it said, bytes it heard
    echoed       \* the datagram a client received last: who, and whose data

chip    == <<Sn_SR, Sn_IR, Sn_PORT, Sn_DIPR, rx, tx, sending>>
lib     == <<sock_any_port, sock_io_mode, sock_is_sending, sock_remained_size>>
caller  == <<buf, destip>>
peers   == <<conn, said, heard, echoed>>
sockVars == <<w6x00, chip, lib, call, ret, caller, peers>>

Free(sn) == TxMAX - Len(tx[sn])
Live     == {"ESTABLISHED", "CLOSE_WAIT"}

\* Sn_RX_RSR: a datagram is preceded by its header.
Units(s) ==
    LET sum[i \in 0 .. Len(s)] == IF i = 0 THEN 0 ELSE sum[i - 1] + s[i].n + 1
    IN  sum[Len(s)]
getSn_RX_RSR(sn) == IF Sn_SR[sn] = "UDP" THEN Units(rx[sn]) ELSE Len(rx[sn])

SockInit ==
    /\ w6x00 \in BOOLEAN
    /\ Sn_SR = [s \in Socks |-> "CLOSED"] /\ Sn_IR = [s \in Socks |-> {}]
    /\ Sn_PORT = [s \in Socks |-> 0] /\ Sn_DIPR = [s \in Socks |-> Garbage0]
    /\ rx = [s \in Socks |-> << >>] /\ tx = [s \in Socks |-> << >>]
    /\ sending = [s \in Socks |-> 0]
    /\ sock_any_port = SOCK_ANY_PORT_NUM
    /\ sock_io_mode = {} /\ sock_is_sending = {}
    /\ sock_remained_size = [s \in Socks |-> 0]
    /\ call = None /\ ret = SOCK_OK
    /\ buf = << >> /\ destip = Garbage0
    /\ conn = [s \in Socks |-> 0] /\ said = [s \in Socks |-> 0]
    /\ heard = [s \in Socks |-> << >>] /\ echoed = {}

----------------------------------------------------------------------------
(* What the calls share.                                                   *)

At(fn, st) == call.fn = fn /\ call.st = st
Goto(st)   == call' = [call EXCEPT !.st = st] /\ UNCHANGED ret
Return(r)  == call' = None /\ ret' = r

\* close(), and in socket() the OPEN command after it: status sr, nothing
\* pending, no interrupt, and none of the library's notes on the socket.
close(sn, sr) ==
    /\ Sn_SR' = [Sn_SR EXCEPT ![sn] = sr] /\ Sn_IR' = [Sn_IR EXCEPT ![sn] = {}]
    /\ rx' = [rx EXCEPT ![sn] = << >>] /\ tx' = [tx EXCEPT ![sn] = << >>]
    /\ sending' = [sending EXCEPT ![sn] = 0]
    /\ sock_is_sending' = sock_is_sending \ {sn}
    /\ sock_remained_size' = [sock_remained_size EXCEPT ![sn] = 0]

\* A call that fails and closes the socket, or only fails.
Fails(sn, closes) ==
    /\ Return(SOCKERR)
    /\ IF closes
         THEN close(sn, "CLOSED") /\ sock_io_mode' = sock_io_mode \ {sn}
         ELSE UNCHANGED <<Sn_SR, Sn_IR, rx, tx, sending, sock_io_mode, sock_is_sending,
                          sock_remained_size>>
    /\ UNCHANGED <<Sn_PORT, Sn_DIPR, sock_any_port>>

----------------------------------------------------------------------------
(* The calls.                                                              *)

CloseCall(sn) ==
    /\ At("close", "begin") /\ sn = call.sn
    /\ close(sn, "CLOSED") /\ sock_io_mode' = sock_io_mode \ {sn}
    /\ Return(SOCK_OK)
    /\ UNCHANGED <<w6x00, Sn_PORT, Sn_DIPR, sock_any_port, caller, peers>>

NextAnyPort ==
    IF sock_any_port + 1 = SOCK_ANY_PORT_END THEN SOCK_ANY_PORT_NUM ELSE sock_any_port + 1

\* The protocol is "TCP" or "UDP".  Port 0 asks for any port.  Its callers ask
\* for non-blocking mode when the library is compiled for a W6x00.
socket(sn, protocol) ==
    /\ At("socket", protocol) /\ sn = call.sn
    /\ close(sn, IF protocol = "TCP" THEN "INIT" ELSE "UDP")
    /\ sock_io_mode' = IF w6x00 THEN sock_io_mode \union {sn} ELSE sock_io_mode \ {sn}
    /\ IF call.arg = 0
         THEN Sn_PORT' = [Sn_PORT EXCEPT ![sn] = sock_any_port] /\ sock_any_port' = NextAnyPort
         ELSE Sn_PORT' = [Sn_PORT EXCEPT ![sn] = call.arg] /\ UNCHANGED sock_any_port
    /\ said' = [said EXCEPT ![sn] = 0] /\ heard' = [heard EXCEPT ![sn] = << >>]
    /\ Return(SOCK_OK)
    /\ UNCHANGED <<w6x00, Sn_DIPR, caller, conn, echoed>>

\* Between the LISTEN command and the read of the status a peer may connect:
\* then the connection is closed.
listen(sn) ==
    /\ call.fn = "listen" /\ sn = call.sn
    /\ \/ /\ call.st = "begin" /\ Sn_SR[sn] = "INIT"
          /\ Sn_SR' = [Sn_SR EXCEPT ![sn] = "LISTEN"] /\ Goto("check")
          /\ UNCHANGED <<Sn_IR, Sn_PORT, Sn_DIPR, rx, tx, sending, lib>>
       \/ /\ call.st = "check" /\ Sn_SR[sn] = "LISTEN"
          /\ Return(SOCK_OK) /\ UNCHANGED <<chip, lib>>
       \/ /\ call.st = "check" /\ Sn_SR[sn] # "LISTEN" /\ Fails(sn, TRUE)
    /\ UNCHANGED <<w6x00, caller, peers>>

\* It waits for ESTABLISHED, a timeout or CLOSED: a server that accepts and
\* closes at once, seen only as CLOSE_WAIT, keeps it here for ever.
connect(sn) ==
    /\ call.fn = "connect" /\ sn = call.sn
    /\ \/ /\ call.st = "begin" /\ Sn_SR[sn] = "INIT"
          /\ Sn_SR' = [Sn_SR EXCEPT ![sn] = "SYNSENT"]
          /\ IF sn \in sock_io_mode THEN Return(SOCK_BUSY) ELSE Goto("wait")
          /\ UNCHANGED <<Sn_IR, Sn_PORT, Sn_DIPR, rx, tx, sending, lib>>
       \/ /\ call.st = "wait" /\ Sn_SR[sn] = "ESTABLISHED"
          /\ Return(SOCK_OK) /\ UNCHANGED <<chip, lib>>
       \/ /\ call.st = "wait" /\ Sn_SR[sn] # "ESTABLISHED" /\ "TIMEOUT" \in Sn_IR[sn]
          /\ Sn_IR' = [Sn_IR EXCEPT ![sn] = @ \ {"TIMEOUT"}]
          /\ Return(SOCKERR)
          /\ UNCHANGED <<Sn_SR, Sn_PORT, Sn_DIPR, rx, tx, sending, lib>>
       \/ /\ call.st = "wait" /\ Sn_SR[sn] = "CLOSED" /\ "TIMEOUT" \notin Sn_IR[sn]
          /\ Fails(sn, FALSE)
    /\ UNCHANGED <<w6x00, caller, peers>>

\* The chip may give up between the reads of the status and the interrupt.
disconnect(sn) ==
    /\ call.fn = "disconnect" /\ sn = call.sn
    /\ \/ /\ call.st = "begin" /\ Sn_SR[sn] # "CLOSED"
          /\ Sn_SR' = [Sn_SR EXCEPT ![sn] = "LAST_ACK"]
          /\ sock_is_sending' = sock_is_sending \ {sn}
          /\ IF sn \in sock_io_mode THEN Return(SOCK_BUSY) ELSE Goto("wait")
          /\ UNCHANGED <<Sn_IR, Sn_PORT, Sn_DIPR, rx, tx, sending, sock_any_port,
                         sock_io_mode, sock_remained_size>>
       \/ /\ call.st \in {"begin", "wait"} /\ Sn_SR[sn] = "CLOSED"
          /\ Return(SOCK_OK) /\ UNCHANGED <<chip, lib>>
       \/ /\ call.st = "wait" /\ Sn_SR[sn] # "CLOSED"
          /\ Goto("irq") /\ UNCHANGED <<chip, lib>>
       \/ /\ call.st = "irq"
          /\ IF "TIMEOUT" \in Sn_IR[sn]
               THEN Fails(sn, TRUE) ELSE Goto("wait") /\ UNCHANGED <<chip, lib>>
    /\ UNCHANGED <<w6x00, caller, peers>>

----------------------------------------------------------------------------
(* send() and recv().                                                      *)

Data == SubSeq(buf, 1, IF Len(buf) < TxMAX THEN Len(buf) ELSE TxMAX)

\* The bytes are in the socket's memory and the SEND command is given.
Sends(sn, data) ==
    /\ tx' = [tx EXCEPT ![sn] = @ \o data]
    /\ sending' = [sending EXCEPT ![sn] = Len(tx'[sn])]
    /\ sock_is_sending' = sock_is_sending \union {sn}

\* Compiled for the W5500 only: the last SEND must have completed.
SendCheck(sn) ==
    /\ At("send", "begin") /\ sn = call.sn /\ ~w6x00
    /\ IF Sn_SR[sn] \notin Live THEN Fails(sn, FALSE)
       ELSE /\ Goto(IF sn \in sock_is_sending THEN "irq" ELSE "room")
            /\ UNCHANGED <<chip, lib>>
    /\ UNCHANGED <<w6x00, caller, peers>>

SendIrq(sn) ==
    /\ At("send", "irq") /\ sn = call.sn
    /\ \/ /\ "SENDOK" \in Sn_IR[sn]
          /\ Sn_IR' = [Sn_IR EXCEPT ![sn] = @ \ {"SENDOK"}]
          /\ sock_is_sending' = sock_is_sending \ {sn}
          /\ Goto("room")
          /\ UNCHANGED <<Sn_SR, Sn_PORT, Sn_DIPR, rx, tx, sending, sock_any_port,
                         sock_io_mode, sock_remained_size>>
       \/ /\ "SENDOK" \notin Sn_IR[sn]
          /\ IF "TIMEOUT" \in Sn_IR[sn]
               THEN Fails(sn, TRUE) ELSE Return(SOCK_BUSY) /\ UNCHANGED <<chip, lib>>
    /\ UNCHANGED <<w6x00, caller, peers>>

\* Mutant: the wait for room does not look at the status.
SendRoom_NoStatus(sn) ==
    /\ call.fn = "send" /\ sn = call.sn
    /\ call.st = IF w6x00 THEN "begin" ELSE "room"
    /\ Len(Data) <= Free(sn) /\ sn \notin sock_is_sending
    /\ Sends(sn, Data) /\ Return(Len(Data))
    /\ UNCHANGED <<Sn_SR, Sn_IR, Sn_PORT, Sn_DIPR, rx, sock_any_port, sock_io_mode,
                   sock_remained_size>>
    /\ UNCHANGED <<w6x00, caller, peers>>

\* Waits for room, writes the data and, unless a SEND is still under way
\* (possible on a W6x00 only), gives the SEND command.
SendRoom(sn) ==
    /\ call.fn = "send" /\ sn = call.sn
    /\ call.st = IF w6x00 THEN "begin" ELSE "room"
    /\ \/ Sn_SR[sn] \notin Live /\ Fails(sn, Sn_SR[sn] = "CLOSED")
       \/ /\ Sn_SR[sn] \in Live /\ sn \in sock_io_mode /\ Len(Data) > Free(sn)
          /\ Return(SOCK_BUSY) /\ UNCHANGED <<chip, lib>>
       \/ /\ Sn_SR[sn] \in Live /\ Len(Data) <= Free(sn)
          /\ IF sn \in sock_is_sending
               THEN /\ tx' = [tx EXCEPT ![sn] = @ \o Data] /\ Goto("sendok")
                    /\ UNCHANGED <<sending, sock_is_sending>>
               ELSE Sends(sn, Data) /\ Return(Len(Data))
          /\ UNCHANGED <<Sn_SR, Sn_IR, Sn_PORT, Sn_DIPR, rx, sock_any_port, sock_io_mode,
                         sock_remained_size>>
    /\ UNCHANGED <<w6x00, caller, peers>>

\* The previous SEND: in non-blocking mode its end is not awaited, though the
\* data has been written already.
SendOkWait(sn) ==
    /\ At("send", "sendok") /\ sn = call.sn
    /\ \/ /\ "SENDOK" \in Sn_IR[sn]
          /\ Sn_IR' = [Sn_IR EXCEPT ![sn] = @ \ {"SENDOK"}]
          /\ Sends(sn, << >>) /\ Return(Len(Data))
          /\ UNCHANGED <<Sn_SR, Sn_PORT, Sn_DIPR, rx, sock_any_port, sock_io_mode,
                         sock_remained_size>>
       \/ /\ "SENDOK" \notin Sn_IR[sn] /\ Sn_SR[sn] \notin Live
          /\ Fails(sn, Sn_SR[sn] = "CLOSED" \/ "TIMEOUT" \in Sn_IR[sn])
       \/ /\ "SENDOK" \notin Sn_IR[sn] /\ Sn_SR[sn] \in Live /\ sn \in sock_io_mode
          /\ Return(SOCK_BUSY) /\ UNCHANGED <<chip, lib>>
    /\ UNCHANGED <<w6x00, caller, peers>>

\* ESTABLISHED in non-blocking mode: SOCK_BUSY, data or not.
recv(sn) ==
    /\ At("recv", "begin") /\ sn = call.sn
    /\ LET want == call.arg
           n == IF want < Len(rx[sn]) THEN want ELSE Len(rx[sn]) IN
       \/ /\ \/ Sn_SR[sn] \notin Live
             \/ Sn_SR[sn] = "CLOSE_WAIT" /\ rx[sn] = << >> /\ tx[sn] = << >>
          /\ Fails(sn, TRUE) /\ UNCHANGED buf
       \/ /\ Sn_SR[sn] = "ESTABLISHED" \/ (Sn_SR[sn] = "CLOSE_WAIT" /\ rx[sn] = << >>)
          /\ sn \in sock_io_mode
          /\ Return(SOCK_BUSY) /\ UNCHANGED <<chip, lib, buf>>
       \/ /\ \/ Sn_SR[sn] = "CLOSE_WAIT"
             \/ Sn_SR[sn] = "ESTABLISHED" /\ sn \notin sock_io_mode
          /\ rx[sn] # << >>
          /\ buf' = SubSeq(rx[sn], 1, n)
          /\ rx' = [rx EXCEPT ![sn] = SubSeq(@, n + 1, Len(@))]
          /\ Return(n)
          /\ UNCHANGED <<Sn_SR, Sn_IR, Sn_PORT, Sn_DIPR, tx, sending, lib>>
    /\ UNCHANGED <<w6x00, destip, peers>>

----------------------------------------------------------------------------
(* sendto() and recvfrom().                                                *)

\* The address is set before it is looked at.  There is room, since the SEND is
\* waited for in either mode.
sendto(sn) ==
    /\ call.fn = "sendto" /\ sn = call.sn
    /\ \/ /\ call.st = "begin"
          /\ Sn_DIPR' = [Sn_DIPR EXCEPT ![sn] = destip]
          /\ IF destip = Garbage0 \/ buf = << >> \/ Sn_SR[sn] # "UDP"
               THEN Return(SOCKERR) /\ UNCHANGED <<tx, sending>>
               ELSE /\ tx' = [tx EXCEPT ![sn] = @ \o Data]
                    /\ sending' = [sending EXCEPT ![sn] = Len(tx'[sn])]
                    /\ Goto("wait")
          /\ UNCHANGED <<Sn_SR, Sn_IR, Sn_PORT, rx, lib>>
       \/ /\ call.st = "wait" /\ Sn_IR[sn] \intersect {"SENDOK", "TIMEOUT"} # {}
          /\ LET irq == IF "SENDOK" \in Sn_IR[sn] THEN "SENDOK" ELSE "TIMEOUT" IN
                /\ Sn_IR' = [Sn_IR EXCEPT ![sn] = @ \ {irq}]
                /\ Return(IF irq = "SENDOK" THEN Head(buf).n ELSE SOCKERR)
          /\ UNCHANGED <<Sn_SR, Sn_PORT, Sn_DIPR, rx, tx, sending, lib>>
    /\ UNCHANGED <<w6x00, caller, peers>>

\* What of the datagram has not been read: its header gives the length.
Remaining(sn) == IF sock_remained_size[sn] # 0 THEN sock_remained_size[sn] ELSE Head(rx[sn]).n

\* n units are read; the rest stays for the next call.
TakeRemaining(sn, n) ==
    /\ sock_remained_size' = [sock_remained_size EXCEPT ![sn] = Remaining(sn) - n]
    /\ rx' = [rx EXCEPT ![sn] = IF n < Remaining(sn) THEN @ ELSE Tail(@)]

\* The sender is stored with the first part of a datagram only.
recvfrom(sn) ==
    /\ At("recvfrom", "begin") /\ sn = call.sn /\ rx[sn] # << >>
    /\ LET n == IF call.arg < Remaining(sn) THEN call.arg ELSE Remaining(sn) IN
           /\ destip' = IF sock_remained_size[sn] # 0 THEN destip ELSE Head(rx[sn]).who
           /\ buf' = <<[who |-> Head(rx[sn]).who, n |-> n]>>
           /\ TakeRemaining(sn, n)
           /\ Return(n)
    /\ UNCHANGED <<w6x00, Sn_SR, Sn_IR, Sn_PORT, Sn_DIPR, tx, sending, sock_any_port,
                   sock_io_mode, sock_is_sending, peers>>

Calls ==
    \E sn \in Socks :
        \/ CloseCall(sn) \/ (\E p \in {"TCP", "UDP"} : socket(sn, p))
        \/ listen(sn) \/ connect(sn) \/ disconnect(sn)
        \/ SendCheck(sn) \/ SendIrq(sn) \/ SendRoom(sn) \/ SendOkWait(sn) \/ recv(sn)
        \/ sendto(sn) \/ recvfrom(sn)

----------------------------------------------------------------------------
(* The chip's TCP and its peers.                                           *)

Raise(sn, irq) == Sn_IR' = [Sn_IR EXCEPT ![sn] = @ \union {irq}]
Becomes(sn, sr) == Sn_SR' = [Sn_SR EXCEPT ![sn] = sr]

\* A client connects to a listening socket, or a server accepts our SYN.
Connected(sn) ==
    /\ Sn_SR[sn] \in {"LISTEN", "SYNSENT"}
    /\ Becomes(sn, "ESTABLISHED") /\ Raise(sn, "CON")
    /\ conn' = [conn EXCEPT ![sn] = 1 - @]
    /\ said' = [said EXCEPT ![sn] = 0] /\ heard' = [heard EXCEPT ![sn] = << >>]
    /\ UNCHANGED <<w6x00, Sn_PORT, Sn_DIPR, rx, tx, sending, lib, call, ret, caller, echoed>>

PeerSays(sn) ==
    /\ Sn_SR[sn] = "ESTABLISHED" /\ Len(rx[sn]) < RxMAX
    /\ said[sn] < MaxSay
    /\ \A s \in Socks \ {sn} : Sn_PORT[s] # 0 => said[sn] + said[s] < MaxTalk
    /\ said' = [said EXCEPT ![sn] = @ + 1]
    /\ rx' = [rx EXCEPT ![sn] = Append(@, [who |-> conn[sn], n |-> said'[sn]])]
    /\ UNCHANGED <<w6x00, Sn_SR, Sn_IR, Sn_PORT, Sn_DIPR, tx, sending, lib, call, ret,
                   caller, conn, heard, echoed>>

\* The peer closes its side; or the connection is reset.
PeerCloses(sn) ==
    /\ \/ Sn_SR[sn] = "ESTABLISHED" /\ Becomes(sn, "CLOSE_WAIT")
       \/ Sn_SR[sn] \in Live /\ Becomes(sn, "CLOSED")
    /\ Raise(sn, "DISCON")
    /\ sending' = [sending EXCEPT ![sn] = IF Sn_SR'[sn] = "CLOSED" THEN 0 ELSE @]
    /\ UNCHANGED <<w6x00, Sn_PORT, Sn_DIPR, rx, tx, lib, call, ret, caller, peers>>

\* Our SYN is refused or never answered; our FIN is acknowledged or is not.
HandshakeEnds(sn) ==
    /\ Sn_SR[sn] \in {"SYNSENT", "LAST_ACK"}
    /\ Becomes(sn, "CLOSED")
    /\ \E irq \in {"DISCON", "TIMEOUT"} : Raise(sn, irq)
    /\ sending' = [sending EXCEPT ![sn] = 0]
    /\ UNCHANGED <<w6x00, Sn_PORT, Sn_DIPR, rx, tx, lib, call, ret, caller, peers>>

\* What a SEND gave is acknowledged, or given up: the peer may have it or not.
\* A SEND command on a closed socket transmits nothing.
Acknowledged(sn) ==
    /\ sending[sn] > 0 /\ Sn_SR[sn] \in Live \union {"LAST_ACK"}
    /\ sending' = [sending EXCEPT ![sn] = 0]
    /\ \/ /\ heard' = [heard EXCEPT ![sn] = @ \o SubSeq(tx[sn], 1, sending[sn])]
          /\ tx' = [tx EXCEPT ![sn] = SubSeq(@, sending[sn] + 1, Len(@))]
          /\ Raise(sn, "SENDOK") /\ UNCHANGED Sn_SR
       \/ /\ \E k \in 0 .. sending[sn] :
                 heard' = [heard EXCEPT ![sn] = @ \o SubSeq(tx[sn], 1, k)]
          /\ UNCHANGED tx
          /\ Raise(sn, "TIMEOUT") /\ Becomes(sn, "CLOSED")
    /\ UNCHANGED <<w6x00, Sn_PORT, Sn_DIPR, rx, lib, call, ret, caller, conn, said, echoed>>

----------------------------------------------------------------------------
(* UDP.                                                                    *)

Datagram(sn, c, n) ==
    /\ Sn_SR[sn] = "UDP" /\ getSn_RX_RSR(sn) + n + 1 <= RxMAX
    /\ rx' = [rx EXCEPT ![sn] = Append(@, [who |-> c, n |-> n])]
    /\ UNCHANGED <<w6x00, Sn_SR, Sn_IR, Sn_PORT, Sn_DIPR, tx, sending, lib, call, ret,
                   caller, peers>>

\* The datagram is sent, or its receiver does not answer ARP.
Transmitted(sn) ==
    /\ sending[sn] > 0 /\ Sn_SR[sn] = "UDP"
    /\ sending' = [sending EXCEPT ![sn] = 0] /\ tx' = [tx EXCEPT ![sn] = << >>]
    /\ \/ Raise(sn, "SENDOK")
          /\ echoed' = {<<Sn_DIPR[sn], tx[sn][i].who>> : i \in DOMAIN tx[sn]}
       \/ Raise(sn, "TIMEOUT") /\ UNCHANGED echoed
    /\ UNCHANGED <<w6x00, Sn_SR, Sn_PORT, Sn_DIPR, rx, lib, call, ret, caller,
                   conn, said, heard>>

Network ==
    \E sn \in Socks :
        \/ Connected(sn) \/ PeerSays(sn) \/ PeerCloses(sn) \/ HandshakeEnds(sn)
        \/ Acknowledged(sn) \/ Transmitted(sn)
        \/ \E c \in Clients, n \in 1 .. MTU : Datagram(sn, c, n)

\* The chip retransmits and gives up by itself: no SEND and no FIN stays
\* unanswered for ever.
ChipFair == \A sn \in Socks :
    /\ WF_sockVars(Acknowledged(sn)) /\ WF_sockVars(Transmitted(sn))
    /\ WF_sockVars(HandshakeEnds(sn))
============================================================================
