---------------------------- MODULE CommandPath ----------------------------
(***************************************************************************)
(* The path of a WHISPER command through the tib-pico2 firmware: from the  *)
(* W5500 socket it arrives on, through coms_task, the command queue,       *)
(* executor_task and the response queue, back to a socket.                 *)
(*                                                                         *)
(* Processes: the peers and the chip (environment), coms_task and          *)
(* executor_task.  The two tasks run on two cores, so any two of their     *)
(* steps interleave; a step never holds more than one queue operation or   *)
(* one exchange with the chip that another process can observe.            *)
(*                                                                         *)
(* The link is up and an address is leased throughout: tick() has then no  *)
(* effect on this state.                                                   *)
(***************************************************************************)
EXTENDS Integers, Sequences

CONSTANTS
    NWhisper,   \* number of WHISPER sockets (4 in the code)
    Conn,       \* TCP connections; each is made at most once
    NoConn,     \* no connection
    MaxCmds,    \* bound: commands sent on one connection
    QLen,       \* length of command_in and response_out (10 in the code)
    RxMax,      \* ZYRE_MAX_RECV_BYTES, counted in message parts
    TxMax       \* transmit memory of a socket, counted in replies

ASSUME CommandPathAssumption ==
    /\ NWhisper \in Nat \ {0}
    /\ MaxCmds \in Nat
    /\ QLen \in Nat \ {0}
    /\ RxMax \in Nat \ {0, 1}
    /\ TxMax \in Nat \ {0}
    /\ NoConn \notin Conn

Whisper  == 1 .. NWhisper
Overflow == NWhisper + 1
Sock     == 1 .. NWhisper + 1

(***************************************************************************)
(* A command is named by its connection and its rank on it.  TCP may cut   *)
(* its bytes anywhere: a command is a head and a tail, and a receive may   *)
(* end between the two.                                                    *)
(***************************************************************************)
Cmd   == [conn : Conn, n : 1 .. MaxCmds]
Part  == [cmd : Cmd, half : {"head", "tail"}]
Item  == [cmd : Cmd, sn : Sock]            \* Command: sn is its identity
Reply == [cmd : Cmd, sn : Sock, type : {"ACK", "RESPONSE", "ERROR"},
          from : {"coms", "executor"}]     \* Response

PartOf(k, i) ==
    [cmd  |-> [conn |-> k, n |-> (i + 1) \div 2],
     half |-> IF i % 2 = 1 THEN "head" ELSE "tail"]

ReplyTo(item, type, from) ==
    [cmd |-> item.cmd, sn |-> item.sn, type |-> type, from |-> from]

VARIABLES
    SR,                  \* Sn_SR of each socket
    net,                 \* receive memory of each socket
    is_sending,          \* sock_is_sending, SENDOK not yet raised
    unacked,             \* replies in the transmit memory of each socket
    peer,                \* the connection a socket holds
    unmade,              \* connections not made yet
    issued,              \* parts sent on each connection
    socket_initialized,
    rx,                  \* rx_bufs and rx_len of receive()
    cpc, sn,             \* coms_task: where it is, and the socket polled
    closing,             \* the socket send_reply() waits for in disconnect(), or 0
    msg,                 \* coms_task's command, if it holds one
    command_in, response_out,
    epc, cmd,            \* executor_task: where it is, and its command
    accepted, executed,  \* history: commands queued, commands dispatched
    out                  \* history: replies transmitted on each connection

chip  == <<SR, net, is_sending, unacked, peer>>
coms  == <<socket_initialized, rx, cpc, sn, closing, msg>>
queue == <<command_in, response_out>>
exec  == <<epc, cmd>>
past  == <<accepted, executed>>
vars  == <<chip, unmade, issued, coms, queue, exec, past, out>>

----------------------------------------------------------------------------
Init ==
    /\ SR = [s \in Sock |-> "CLOSED"]
    /\ net = [s \in Sock |-> << >>]
    /\ is_sending = [s \in Sock |-> FALSE]
    /\ unacked = [s \in Sock |-> 0]
    /\ peer = [s \in Sock |-> NoConn]
    /\ unmade = Conn
    /\ issued = [k \in Conn |-> 0]
    /\ socket_initialized = [s \in Sock |-> FALSE]
    /\ rx = [s \in Sock |-> << >>]
    /\ cpc = "poll" /\ sn = 1 /\ closing = 0 /\ msg = << >>
    /\ command_in = << >> /\ response_out = << >>
    /\ epc = "receive" /\ cmd = << >>
    /\ accepted = << >> /\ executed = << >>
    /\ out = [k \in Conn |-> << >>]

----------------------------------------------------------------------------
(* Peers and chip.                                                         *)

\* A peer connects to a listening socket.
Connect(k, s) ==
    /\ k \in unmade /\ SR[s] = "LISTEN"
    /\ SR' = [SR EXCEPT ![s] = "ESTABLISHED"]
    /\ peer' = [peer EXCEPT ![s] = k]
    /\ unmade' = unmade \ {k}
    /\ UNCHANGED <<net, is_sending, unacked, issued, coms, queue, exec, past, out>>

\* The peer on socket s sends the next part of its stream of commands.
PeerSend(s) ==
    /\ SR[s] = "ESTABLISHED"
    /\ issued[peer[s]] < 2 * MaxCmds
    /\ LET k == peer[s] IN
         /\ issued' = [issued EXCEPT ![k] = @ + 1]
         /\ net' = [net EXCEPT ![s] = Append(@, PartOf(k, issued[k] + 1))]
    /\ UNCHANGED <<SR, is_sending, unacked, peer, unmade, coms, queue, exec, past, out>>

\* The peer ends its side of the connection.
PeerFin(s) ==
    /\ SR[s] = "ESTABLISHED"
    /\ SR' = [SR EXCEPT ![s] = "CLOSE_WAIT"]
    /\ UNCHANGED <<net, is_sending, unacked, peer, unmade, issued, coms, queue, exec, past, out>>

\* The connection ends: it is reset, the chip gives up retransmitting on it, or,
\* once disconnect() has sent its FIN, the peer has answered with its own.
ConnectionEnds(s) ==
    /\ SR[s] \in {"ESTABLISHED", "CLOSE_WAIT", "FIN_WAIT", "LAST_ACK"}
    /\ SR' = [SR EXCEPT ![s] = "CLOSED"]
    /\ peer' = [peer EXCEPT ![s] = NoConn]
    /\ net' = [net EXCEPT ![s] = << >>]
    /\ UNCHANGED <<is_sending, unacked, unmade, issued, coms, queue, exec, past, out>>

\* The chip raises SENDOK for the last SEND command.
ChipSendOk(s) ==
    /\ is_sending[s]
    /\ is_sending' = [is_sending EXCEPT ![s] = FALSE]
    /\ UNCHANGED <<SR, net, unacked, peer, unmade, issued, coms, queue, exec, past, out>>

\* The peer acknowledges what the socket has transmitted.
PeerAck(s) ==
    /\ SR[s] \in {"ESTABLISHED", "CLOSE_WAIT"} /\ unacked[s] > 0
    /\ unacked' = [unacked EXCEPT ![s] = 0]
    /\ UNCHANGED <<SR, net, is_sending, peer, unmade, issued, coms, queue, exec, past, out>>

\* close(): the socket forgets its connection and both memories.
CloseTo(s, status) ==
    /\ SR' = [SR EXCEPT ![s] = status]
    /\ net' = [net EXCEPT ![s] = << >>]
    /\ is_sending' = [is_sending EXCEPT ![s] = FALSE]
    /\ unacked' = [unacked EXCEPT ![s] = 0]
    /\ peer' = [peer EXCEPT ![s] = NoConn]

----------------------------------------------------------------------------
(* ZyreBeacon.                                                             *)

\* disconnect(): the chip is told to send its FIN.  The call returns once the
\* socket is CLOSED; FIN_WAIT stands for an end the peer has its part in (it must
\* send its own FIN), LAST_ACK for one the chip reaches alone.
disconnect(s) ==
    /\ SR' = [SR EXCEPT ![s] = IF @ = "ESTABLISHED" THEN "FIN_WAIT" ELSE "LAST_ACK"]
    /\ is_sending' = [is_sending EXCEPT ![s] = FALSE]
    /\ UNCHANGED <<net, unacked, peer>>

\* send_reply(): on a socket that is not established, or has no room, the
\* reply is dropped and the socket reset to LISTEN, whatever it was doing, by
\* way of disconnect() if it is not CLOSED; on one that still waits for SENDOK,
\* send() answers SOCK_BUSY and the reply is dropped silently.
send_reply(r) ==
    LET s == r.sn IN
      IF SR[s] = "ESTABLISHED" /\ unacked[s] < TxMax
        THEN /\ IF is_sending[s]
                  THEN UNCHANGED <<chip, out>>
                  ELSE /\ is_sending' = [is_sending EXCEPT ![s] = TRUE]
                       /\ unacked' = [unacked EXCEPT ![s] = @ + 1]
                       /\ out' = [out EXCEPT ![peer[s]] = Append(@, r)]
                       /\ UNCHANGED <<SR, net, peer>>
             /\ UNCHANGED closing
        ELSE /\ IF SR[s] = "CLOSED"
                  THEN CloseTo(s, "LISTEN") /\ UNCHANGED closing
                  ELSE disconnect(s) /\ closing' = s
             /\ UNCHANGED out

\* send_reply(): disconnect() returns; close(), socket() and listen().
Reopen ==
    /\ closing # 0 /\ SR[closing] = "CLOSED"
    /\ CloseTo(closing, "LISTEN")
    /\ closing' = 0
    /\ UNCHANGED <<unmade, issued, socket_initialized, rx, cpc, sn, msg, queue, exec, past, out>>

\* receive() goes on to the next socket, or returns false after the last.
NextSocket ==
    IF sn = Overflow THEN cpc' = "drain" /\ sn' = 1
                     ELSE cpc' = "poll" /\ sn' = sn + 1

\* receive(): socket() and listen() on a socket that is not initialized.
OpenSocket ==
    /\ cpc = "poll" /\ ~socket_initialized[sn]
    /\ CloseTo(sn, "LISTEN")
    /\ socket_initialized' = [socket_initialized EXCEPT ![sn] = TRUE]
    /\ UNCHANGED <<unmade, issued, rx, cpc, sn, closing, msg, queue, exec, past, out>>

\* receive(): an initialized socket that is not established is left alone.
SkipSocket ==
    /\ cpc = "poll" /\ socket_initialized[sn] /\ SR[sn] # "ESTABLISHED"
    /\ NextSocket
    /\ UNCHANGED <<chip, unmade, issued, socket_initialized, rx, closing, msg, queue, exec, past, out>>

\* receive(): recv() is called on an established socket, in blocking mode.
EnterRecv ==
    /\ cpc = "poll" /\ socket_initialized[sn] /\ SR[sn] = "ESTABLISHED"
    /\ cpc' = "recv"
    /\ UNCHANGED <<chip, unmade, issued, socket_initialized, rx, sn, closing, msg, queue, exec, past, out>>

\* ZyreFramer::decode(): a command at the front of the buffer.
Decodable(buf) ==
    /\ Len(buf) >= 2
    /\ buf[1].half = "head" /\ buf[2].half = "tail"
    /\ buf[1].cmd = buf[2].cmd

Room(s)     == RxMax - Len(rx[s])
Taken(s)    == IF Len(net[s]) < Room(s) THEN Len(net[s]) ELSE Room(s)
Received(s) == rx[s] \o SubSeq(net[s], 1, Taken(s))

RecvReturnsData ==
    /\ cpc = "recv" /\ SR[sn] \in {"ESTABLISHED", "CLOSE_WAIT"}
    /\ net[sn] # << >>
    /\ net' = [net EXCEPT ![sn] = SubSeq(@, Taken(sn) + 1, Len(@))]

\* Mutant: the command is left in the buffer and is decoded again.
RecvCommandKeepsIt ==
    /\ RecvReturnsData
    /\ LET buf == Received(sn) IN
         /\ Decodable(buf)
         /\ rx' = [rx EXCEPT ![sn] = IF Len(buf) = RxMax THEN << >> ELSE buf]
         /\ msg' = << [cmd |-> buf[1].cmd, sn |-> sn] >>
    /\ cpc' = IF sn = Overflow THEN "toobusy" ELSE "offer"
    /\ UNCHANGED <<SR, is_sending, unacked, peer, unmade, issued, socket_initialized,
                   sn, closing, queue, exec, past, out>>

\* Mutant: the command's identity is not the socket it came from.
RecvCommandNoIdentity ==
    /\ RecvReturnsData
    /\ LET buf == Received(sn) IN
         /\ Decodable(buf)
         /\ rx' = [rx EXCEPT ![sn] = SubSeq(buf, 3, Len(buf))]
         /\ msg' = << [cmd |-> buf[1].cmd, sn |-> 1] >>
    /\ cpc' = IF sn = Overflow THEN "toobusy" ELSE "offer"
    /\ UNCHANGED <<SR, is_sending, unacked, peer, unmade, issued, socket_initialized,
                   sn, closing, queue, exec, past, out>>

\* try_receive_on_socket(): the bytes complete a command.
RecvCommand ==
    /\ RecvReturnsData
    /\ LET buf == Received(sn) IN
         /\ Decodable(buf)
         /\ rx' = [rx EXCEPT ![sn] = SubSeq(buf, 3, Len(buf))]
         /\ msg' = << [cmd |-> buf[1].cmd, sn |-> sn] >>
    /\ cpc' = IF sn = Overflow THEN "toobusy" ELSE "offer"
    /\ UNCHANGED <<SR, is_sending, unacked, peer, unmade, issued, socket_initialized,
                   sn, closing, queue, exec, past, out>>

\* The overflow socket is closed after its first receive, whatever it gave.
AfterNoCommand ==
    IF sn = Overflow THEN cpc' = "flush" /\ UNCHANGED sn ELSE NextSocket

\* try_receive_on_socket(): incomplete or malformed; dropped once full.
RecvFragment ==
    /\ RecvReturnsData
    /\ LET buf == Received(sn) IN
         /\ ~Decodable(buf)
         /\ rx' = [rx EXCEPT ![sn] = IF Len(buf) = RxMax THEN << >> ELSE buf]
    /\ AfterNoCommand
    /\ UNCHANGED <<SR, is_sending, unacked, peer, unmade, issued, socket_initialized,
                   closing, msg, queue, exec, past, out>>

\* Mutant: recv() does not look for a connection reset under it.
RecvClosedByFinOnly ==
    /\ cpc = "recv"
    /\ SR[sn] = "CLOSE_WAIT" /\ net[sn] = << >> /\ unacked[sn] = 0
    /\ CloseTo(sn, "CLOSED")
    /\ socket_initialized' = [socket_initialized EXCEPT ![sn] = FALSE]
    /\ rx' = [rx EXCEPT ![sn] = << >>]
    /\ AfterNoCommand
    /\ UNCHANGED <<unmade, issued, closing, msg, queue, exec, past, out>>

\* recv() closed the socket; try_receive_on_socket() lets it be reopened.
RecvClosed ==
    /\ cpc = "recv"
    /\ \/ SR[sn] = "CLOSED"
       \/ SR[sn] = "CLOSE_WAIT" /\ net[sn] = << >> /\ unacked[sn] = 0
    /\ CloseTo(sn, "CLOSED")
    /\ socket_initialized' = [socket_initialized EXCEPT ![sn] = FALSE]
    /\ rx' = [rx EXCEPT ![sn] = << >>]
    /\ AfterNoCommand
    /\ UNCHANGED <<unmade, issued, closing, msg, queue, exec, past, out>>

\* receive(): a command on the overflow socket is told "too busy" ...
OverflowReply ==
    /\ cpc = "toobusy"
    /\ send_reply(ReplyTo(msg[1], "ERROR", "coms"))
    /\ cpc' = "flush" /\ msg' = << >>
    /\ UNCHANGED <<unmade, issued, socket_initialized, rx, sn, queue, exec, past>>

\* ... then disconnect() is called on it ...
OverflowDisconnect ==
    /\ cpc = "flush" /\ SR[sn] \notin {"CLOSED", "FIN_WAIT", "LAST_ACK"}
    /\ disconnect(sn)
    /\ UNCHANGED <<unmade, issued, coms, queue, exec, past, out>>

\* ... and, when that returns, close(): it is opened again by the next receive().
OverflowClose ==
    /\ cpc = "flush" /\ SR[sn] = "CLOSED"
    /\ CloseTo(sn, "CLOSED")
    /\ socket_initialized' = [socket_initialized EXCEPT ![sn] = FALSE]
    /\ NextSocket
    /\ UNCHANGED <<unmade, issued, rx, closing, msg, queue, exec, past, out>>

----------------------------------------------------------------------------
(* coms_task: the rest of the loop.                                        *)

\* xQueueSend(command_in) without waiting.
Offer ==
    /\ cpc = "offer"
    /\ IF Len(command_in) < QLen
         THEN /\ command_in' = Append(command_in, msg[1])
              /\ accepted' = Append(accepted, msg[1])
              /\ cpc' = "ack"
         ELSE /\ cpc' = "busy"
              /\ UNCHANGED <<command_in, accepted>>
    /\ UNCHANGED <<chip, unmade, issued, socket_initialized, rx, sn, closing, msg,
                   response_out, exec, executed, out>>

\* The reply coms_task itself makes: ACK if queued, "too busy" if not.
Acknowledge ==
    /\ cpc \in {"ack", "busy"}
    /\ send_reply(ReplyTo(msg[1], IF cpc = "ack" THEN "ACK" ELSE "ERROR", "coms"))
    /\ cpc' = "drain" /\ sn' = 1 /\ msg' = << >>
    /\ UNCHANGED <<unmade, issued, socket_initialized, rx, queue, exec, past>>

\* Mutant: the newest response is sent first.
DrainNewest ==
    /\ cpc = "drain"
    /\ IF response_out = << >>
         THEN UNCHANGED <<chip, closing, response_out, out>>
         ELSE LET last == Len(response_out) IN
                /\ response_out' = SubSeq(response_out, 1, last - 1)
                /\ send_reply(response_out[last])
    /\ cpc' = "poll"
    /\ UNCHANGED <<unmade, issued, socket_initialized, rx, sn, msg, command_in, exec, past>>

\* At most one response of the executor is sent in each turn of the loop.
Drain ==
    /\ cpc = "drain"
    /\ IF response_out = << >>
         THEN UNCHANGED <<chip, closing, response_out, out>>
         ELSE /\ response_out' = Tail(response_out)
              /\ send_reply(Head(response_out))
    /\ cpc' = "poll"
    /\ UNCHANGED <<unmade, issued, socket_initialized, rx, sn, msg, command_in, exec, past>>

\* Inside disconnect() coms_task does nothing else.
ComsTask ==
    \/ Reopen
    \/ /\ closing = 0
       /\ \/ OpenSocket \/ SkipSocket \/ EnterRecv
          \/ RecvCommand \/ RecvFragment \/ RecvClosed
          \/ OverflowReply \/ OverflowDisconnect \/ OverflowClose
          \/ Offer \/ Acknowledge \/ Drain

----------------------------------------------------------------------------
(* executor_task.                                                          *)

\* Mutant: the executor waits for room in response_out.
RespondWaits(r) ==
    /\ Len(response_out) < QLen
    /\ response_out' = Append(response_out, r)

\* Mutant: no bound on response_out.
RespondUnbounded(r) == response_out' = Append(response_out, r)

\* xQueueSend(response_out) without waiting: dropped when the queue is full.
Respond(r) ==
    response_out' = IF Len(response_out) < QLen THEN Append(response_out, r)
                                                ELSE response_out

\* Mutant: the command is read with xQueuePeek.
ExecPeek ==
    /\ epc = "receive" /\ command_in # << >>
    /\ cmd' = << Head(command_in) >>
    /\ epc' = "ack"
    /\ UNCHANGED <<chip, unmade, issued, coms, queue, past, out>>

ExecReceive ==
    /\ epc = "receive" /\ command_in # << >>
    /\ cmd' = << Head(command_in) >>
    /\ command_in' = Tail(command_in)
    /\ epc' = "ack"
    /\ UNCHANGED <<chip, unmade, issued, coms, response_out, past, out>>

\* Mutant: the executor writes its ACK to the socket itself.
ExecAckDirect ==
    /\ epc = "ack"
    /\ send_reply(ReplyTo(cmd[1], "ACK", "executor"))
    /\ epc' = "run"
    /\ UNCHANGED <<unmade, issued, socket_initialized, rx, cpc, sn, msg, queue, cmd, past>>

ExecAck ==
    /\ epc = "ack"
    /\ Respond(ReplyTo(cmd[1], "ACK", "executor"))
    /\ epc' = "run"
    /\ UNCHANGED <<chip, unmade, issued, coms, command_in, cmd, past, out>>

\* The handler runs: an unknown key or a missing handler is an ERROR, any
\* other outcome, an error of the device included, a RESPONSE.
ExecRun ==
    /\ epc = "run"
    /\ \E type \in {"RESPONSE", "ERROR"} : Respond(ReplyTo(cmd[1], type, "executor"))
    /\ executed' = Append(executed, cmd[1])
    /\ cmd' = << >>
    /\ epc' = "receive"
    /\ UNCHANGED <<chip, unmade, issued, coms, command_in, accepted, out>>

ExecutorTask == ExecReceive \/ ExecAck \/ ExecRun

----------------------------------------------------------------------------
Environment ==
    \E s \in Sock :
        \/ \E k \in Conn : Connect(k, s)
        \/ PeerSend(s) \/ PeerFin(s) \/ ConnectionEnds(s)
        \/ ChipSendOk(s) \/ PeerAck(s)

Next == Environment \/ ComsTask \/ ExecutorTask

\* The scheduler runs both tasks; nothing is assumed of the peers.
Spec == Init /\ [][Next]_vars
             /\ WF_vars(ComsTask) /\ WF_vars(ExecutorTask)

\* As Spec, and what a socket transmits is acknowledged while it is open, and a
\* peer that has sent its FIN acknowledges ours, or the chip gives up.  That a
\* peer answers our FIN with its own is not assumed.
FairChip ==
    \A s \in Sock :
        /\ WF_vars(ChipSendOk(s)) /\ WF_vars(PeerAck(s))
        /\ WF_vars(SR[s] = "LAST_ACK" /\ ConnectionEnds(s))
FairSpec == Spec /\ FairChip

----------------------------------------------------------------------------
(* Safety.                                                                 *)

ChipType ==
    /\ SR \in [Sock -> {"CLOSED", "LISTEN", "ESTABLISHED", "CLOSE_WAIT", "FIN_WAIT", "LAST_ACK"}]
    /\ net \in [Sock -> Seq(Part)]
    /\ is_sending \in [Sock -> BOOLEAN]
    /\ unacked \in [Sock -> 0 .. TxMax]
    /\ peer \in [Sock -> Conn \union {NoConn}]
    /\ \A s \in Sock : SR[s] \in {"ESTABLISHED", "CLOSE_WAIT"} => peer[s] \in Conn

PeerType ==
    /\ unmade \subseteq Conn
    /\ issued \in [Conn -> 0 .. 2 * MaxCmds]

ComsType ==
    /\ socket_initialized \in [Sock -> BOOLEAN]
    /\ rx \in [Sock -> Seq(Part)]
    /\ \A s \in Sock : Len(rx[s]) < RxMax
    /\ cpc \in {"poll", "recv", "toobusy", "flush", "offer", "ack", "busy", "drain"}
    /\ sn \in Sock /\ closing \in Sock \union {0}
    /\ msg \in Seq(Item)
    /\ Len(msg) = IF cpc \in {"toobusy", "offer", "ack", "busy"} THEN 1 ELSE 0

QueueType ==
    /\ command_in \in Seq(Item) /\ Len(command_in) <= QLen
    /\ response_out \in Seq(Reply) /\ Len(response_out) <= QLen

ExecType ==
    /\ epc \in {"receive", "ack", "run"}
    /\ cmd \in Seq(Item)
    /\ Len(cmd) = IF epc = "receive" THEN 0 ELSE 1

PastType ==
    /\ accepted \in Seq(Item) /\ executed \in Seq(Item)
    /\ out \in [Conn -> Seq(Reply)]

\* The type of every variable, with the capacity of every queue and buffer,
\* and each task holding a command exactly where its code does.
TypeOK == ChipType /\ PeerType /\ ComsType /\ QueueType /\ ExecType /\ PastType

\* Between the two tasks no accepted command is lost, repeated or overtaken:
\* those executed, the one in executor_task's hands and those still queued
\* are, in this order, the accepted ones.
Fifo == accepted = executed \o cmd \o command_in

\* On the wire, the ACK of coms_task never follows a reply of the executor to
\* the same command, although the executor may have answered before
\* coms_task acknowledges.
AckFirst ==
    \A k \in Conn : \A i, j \in DOMAIN out[k] :
        /\ i < j /\ out[k][i].cmd = out[k][j].cmd
        /\ out[k][i].from = "executor"
        => out[k][j].from = "executor"

\* The executor's replies reach a connection in the order of execution, the
\* ACK of a command before its result, whatever was dropped in between.
RepliesInOrder ==
    \A k \in Conn : \A i, j \in DOMAIN out[k] :
        LET r == out[k][i]
            q == out[k][j]
        IN i < j /\ r.from = "executor" /\ q.from = "executor"
           => IF r.cmd = q.cmd
                THEN r.type = "ACK" /\ q.type # "ACK"
                ELSE \E a, b \in DOMAIN accepted :
                        a < b /\ accepted[a].cmd = r.cmd /\ accepted[b].cmd = q.cmd

Connected(k) == \E s \in Sock : peer[s] = k

\* A reply reaches another connection than the one that sent the command only
\* after the sender's own connection has ended.
StrangersOnlyAfterGone ==
    \A k \in Conn : \A i \in DOMAIN out[k] :
        LET owner == out[k][i].cmd.conn
        IN owner # k => owner \notin unmade /\ ~Connected(owner)

\* The firmware implements CommandService: each command is executed at most
\* once, in order; one refused as "too busy" is never executed afterwards;
\* no kind of reply is sent twice or too early.
Service == INSTANCE CommandService WITH
    Capacity <- QLen + 1,
    queued   <- cmd \o command_in,
    done     <- executed,
    wire     <- UNION {{out[k][i] : i \in DOMAIN out[k]} : k \in Conn}
ServiceSpec == Service!Spec

----------------------------------------------------------------------------
(* Liveness.                                                               *)

\* An accepted command is executed, however full the response queue is and
\* whether or not coms_task ever runs again.
AcceptedIsExecuted ==
    \A k \in Conn, n \in 1 .. MaxCmds :
        LET c == [conn |-> k, n |-> n]
        IN (\E i \in DOMAIN accepted : accepted[i].cmd = c)
           ~> (\E i \in DOMAIN executed : executed[i].cmd = c)

\* coms_task keeps going round its loop unless a peer holds it up without end, by
\* being silent while it is in recv(), or by not answering the FIN of disconnect():
\* no other wait is endless, and neither is one for a peer that has left.
OnlyPeersStall ==
    \/ []<>(cpc = "drain")
    \/ <>[](cpc = "recv" /\ SR[sn] = "ESTABLISHED" /\ net[sn] = << >>)
    \/ \E s \in Sock : <>[](SR[s] = "FIN_WAIT")

----------------------------------------------------------------------------
(* What a comment says, and the code does not.                             *)

\* pico_zyre.h: receive() is to "Receive WHISPER from active peer": a command
\* it returns comes from the connection the socket then holds.
CommandFromActivePeer ==
    [][RecvCommand => peer[sn] = msg'[1].cmd.conn]_vars
============================================================================
