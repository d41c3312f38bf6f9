------------------------ MODULE CommandPath_proofs ------------------------
(***************************************************************************)
(* Proofs about CommandPath, for any number of sockets, connections and    *)
(* commands and any capacity of the queues and buffers: types, the queue   *)
(* between the tasks, then what the peers observe and the refinement of    *)
(* CommandService.                                                         *)
(***************************************************************************)
EXTENDS CommandPath, Recursions

USE CommandPathAssumption

----------------------------------------------------------------------------
(* The operations the actions are built from.                              *)

LEMMA CloseToType ==
    ASSUME ChipType, NEW s \in Sock, NEW status \in {"CLOSED", "LISTEN"},
           CloseTo(s, status)
    PROVE  ChipType'
BY DEF ChipType, CloseTo

LEMMA DisconnectType ==
    ASSUME ChipType, NEW s \in Sock, disconnect(s)
    PROVE  ChipType'
BY DEF ChipType, disconnect

LEMMA SendReplyType ==
    ASSUME ChipType, PastType, NEW r \in Reply, send_reply(r),
           closing \in Sock \union {0}, UNCHANGED past
    PROVE  ChipType' /\ PastType' /\ closing' \in Sock \union {0}
<1>1. r.sn \in Sock
  BY DEF Reply
<1>2. CASE SR[r.sn] = "ESTABLISHED" /\ unacked[r.sn] < TxMax /\ ~is_sending[r.sn]
  <2>1. peer[r.sn] \in Conn
    BY <1>1, <1>2 DEF ChipType
  <2>2. out' = [out EXCEPT ![peer[r.sn]] = Append(out[peer[r.sn]], r)]
    BY <1>2 DEF send_reply
  <2>3. ChipType'
    <3>1. /\ UNCHANGED <<SR, net, peer>>
          /\ is_sending' = [is_sending EXCEPT ![r.sn] = TRUE]
          /\ unacked' = [unacked EXCEPT ![r.sn] = @ + 1]
      BY <1>2 DEF send_reply
    <3>2. unacked[r.sn] + 1 \in 0 .. TxMax
      BY <1>1, <1>2 DEF ChipType, CommandPathAssumption
    <3>. QED  BY <1>1, <3>1, <3>2 DEF ChipType
  <2>4. out' \in [Conn -> Seq(Reply)]
    <3>1. Append(out[peer[r.sn]], r) \in Seq(Reply)
      BY <2>1, AppendProperties DEF PastType
    <3>. QED  BY <2>1, <2>2, <3>1 DEF PastType
  <2>5. closing' = closing
    BY <1>2 DEF send_reply
  <2>. QED  BY <2>3, <2>4, <2>5 DEF PastType, past
<1>3. CASE SR[r.sn] = "ESTABLISHED" /\ unacked[r.sn] < TxMax /\ is_sending[r.sn]
  BY <1>3 DEF send_reply, ChipType, PastType, chip, past
<1>4. CASE ~(SR[r.sn] = "ESTABLISHED" /\ unacked[r.sn] < TxMax)
  <2>1. out' = out
    BY <1>4 DEF send_reply
  <2>2. \/ CloseTo(r.sn, "LISTEN") /\ closing' = closing
        \/ disconnect(r.sn) /\ closing' = r.sn
    BY <1>4 DEF send_reply
  <2>3. ChipType' /\ closing' \in Sock \union {0}
    BY <1>1, <2>2, CloseToType, DisconnectType
  <2>. QED  BY <2>1, <2>3 DEF PastType, past
<1>. QED  BY <1>2, <1>3, <1>4

LEMMA NextSocketType ==
    ASSUME sn \in Sock, NextSocket
    PROVE  sn' \in Sock /\ cpc' \in {"poll", "drain"}
BY DEF NextSocket, Sock, Overflow

LEMMA ReceivedType ==
    ASSUME ChipType, ComsType
    PROVE  /\ Received(sn) \in Seq(Part)
           /\ Len(Received(sn)) <= RxMax
           /\ SubSeq(net[sn], Taken(sn) + 1, Len(net[sn])) \in Seq(Part)
<1>1. /\ rx[sn] \in Seq(Part) /\ net[sn] \in Seq(Part)
      /\ Len(rx[sn]) \in Nat /\ Len(rx[sn]) < RxMax
      /\ Len(net[sn]) \in Nat
  BY DEF ChipType, ComsType
<1>2. /\ Taken(sn) \in Nat /\ Taken(sn) <= Len(net[sn])
      /\ Len(rx[sn]) + Taken(sn) <= RxMax
  <2>. DEFINE m == Len(net[sn])
              b == Len(rx[sn])
  <2>1. m \in Nat /\ b \in Nat /\ b < RxMax /\ RxMax \in Nat
    BY <1>1 DEF CommandPathAssumption
  <2>2. Taken(sn) = IF m < RxMax - b THEN m ELSE RxMax - b
    BY DEF Taken, Room
  <2>. HIDE DEF m, b
  <2>3. /\ Taken(sn) \in Nat /\ Taken(sn) <= m
        /\ b + Taken(sn) <= RxMax
    BY <2>1, <2>2
  <2>. QED  BY <2>3 DEF m, b
<1>3. /\ SubSeq(net[sn], 1, Taken(sn)) \in Seq(Part)
      /\ Len(SubSeq(net[sn], 1, Taken(sn))) = Taken(sn)
  <2>1. \A i \in 1 .. Taken(sn) : net[sn][i] \in Part
    BY <1>1, <1>2, ElementOfSeq
  <2>. QED  BY <1>2, <2>1, SubSeqProperties
<1>4. SubSeq(net[sn], Taken(sn) + 1, Len(net[sn])) \in Seq(Part)
  <2>1. \A i \in Taken(sn) + 1 .. Len(net[sn]) : net[sn][i] \in Part
    BY <1>1, <1>2, ElementOfSeq
  <2>. QED  BY <1>1, <1>2, <2>1, SubSeqProperties
<1>5. /\ Received(sn) \in Seq(Part)
      /\ Len(Received(sn)) = Len(rx[sn]) + Taken(sn)
  BY <1>1, <1>3, ConcatProperties DEF Received
<1>. QED  BY <1>1, <1>2, <1>4, <1>5 DEF CommandPathAssumption

----------------------------------------------------------------------------
(* Type correctness.                                                       *)

LEMMA InitType == Init => TypeOK
BY DEF Init, TypeOK, ChipType, PeerType, ComsType, QueueType, ExecType, PastType,
       Sock, Overflow, CommandPathAssumption

LEMMA EnvironmentType ==
    ASSUME TypeOK, Environment
    PROVE  TypeOK'
<1>. /\ ChipType /\ PeerType /\ ComsType /\ QueueType /\ ExecType /\ PastType
  BY DEF TypeOK
<1>1. PICK s \in Sock :
        \/ \E k \in Conn : Connect(k, s)
        \/ PeerSend(s) \/ PeerFin(s) \/ ConnectionEnds(s)
        \/ ChipSendOk(s) \/ PeerAck(s)
  BY DEF Environment
<1>2. UNCHANGED <<coms, queue, exec, past, out>>
  BY <1>1 DEF Connect, PeerSend, PeerFin, ConnectionEnds, ChipSendOk, PeerAck
<1>3. ComsType' /\ QueueType' /\ ExecType' /\ PastType'
  BY <1>2 DEF ComsType, QueueType, ExecType, PastType, coms, queue, exec, past
<1>4. ChipType' /\ PeerType'
  <2>1. CASE \E k \in Conn : Connect(k, s)
    BY <2>1 DEF Connect, ChipType, PeerType
  <2>2. CASE PeerSend(s)
    <3>1. peer[s] \in Conn
      BY <2>2 DEF PeerSend, ChipType
    <3>2. /\ issued[peer[s]] + 1 \in 0 .. 2 * MaxCmds
          /\ (issued[peer[s]] + 1 + 1) \div 2 \in 1 .. MaxCmds
      BY <2>2, <3>1 DEF PeerSend, PeerType, CommandPathAssumption
    <3>3. PartOf(peer[s], issued[peer[s]] + 1) \in Part
      BY <3>1, <3>2 DEF PartOf, Part, Cmd
    <3>4. /\ net' = [net EXCEPT ![s] = Append(net[s], PartOf(peer[s], issued[peer[s]] + 1))]
          /\ issued' = [issued EXCEPT ![peer[s]] = issued[peer[s]] + 1]
          /\ UNCHANGED <<SR, is_sending, unacked, peer, unmade>>
      BY <2>2 DEF PeerSend
    <3>5. Append(net[s], PartOf(peer[s], issued[peer[s]] + 1)) \in Seq(Part)
      BY <3>3, AppendProperties DEF ChipType
    <3>6. ChipType'
      BY <3>4, <3>5 DEF ChipType
    <3>7. PeerType'
      BY <3>1, <3>2, <3>4 DEF PeerType
    <3>. QED  BY <3>6, <3>7
  <2>3. CASE PeerFin(s)
    BY <2>3 DEF PeerFin, ChipType, PeerType
  <2>4. CASE ConnectionEnds(s)
    BY <2>4 DEF ConnectionEnds, ChipType, PeerType
  <2>5. CASE ChipSendOk(s)
    BY <2>5 DEF ChipSendOk, ChipType, PeerType
  <2>6. CASE PeerAck(s)
    BY <2>6 DEF PeerAck, ChipType, PeerType, CommandPathAssumption
  <2>. QED  BY <1>1, <2>1, <2>2, <2>3, <2>4, <2>5, <2>6
<1>. QED  BY <1>3, <1>4 DEF TypeOK

LEMMA Singleton ==
    ASSUME NEW S, NEW q \in Seq(S), Len(q) = 1
    PROVE  q[1] \in S /\ q = << q[1] >>
<1>1. q[1] \in S
  <2>1. 1 \in 1 .. Len(q)
    OBVIOUS
  <2>. QED  BY <2>1, ElementOfSeq
<1>2. /\ << q[1] >> \in Seq(S) /\ Len(<< q[1] >>) = 1
      /\ \A i \in 1 .. Len(q) : q[i] = << q[1] >>[i]
  BY <1>1
<1>. QED  BY <1>1, <1>2, SeqEqual

LEMMA MsgHeld ==
    ASSUME ComsType, cpc \in {"toobusy", "offer", "ack", "busy"}
    PROVE  msg[1] \in Item
BY Singleton DEF ComsType

LEMMA ComsTaskType ==
    ASSUME TypeOK, ComsTask
    PROVE  TypeOK'
<1>. /\ ChipType /\ PeerType /\ ComsType /\ QueueType /\ ExecType /\ PastType
  BY DEF TypeOK
<1>. sn \in Sock
  BY DEF ComsType
<1>1. CASE OpenSocket
  <2>1. ChipType'
    BY <1>1, CloseToType DEF OpenSocket
  <2>2. ComsType'
    BY <1>1 DEF OpenSocket, ComsType
  <2>. QED
    BY <1>1, <2>1, <2>2
    DEF OpenSocket, TypeOK, PeerType, QueueType, ExecType, PastType, queue, exec, past
<1>2. CASE SkipSocket
  <2>1. ComsType'
    BY <1>2, NextSocketType DEF SkipSocket, ComsType
  <2>. QED
    BY <1>2, <2>1
    DEF SkipSocket, TypeOK, ChipType, PeerType, QueueType, ExecType, PastType,
        chip, queue, exec, past
<1>3. CASE EnterRecv
  BY <1>3 DEF EnterRecv, TypeOK, ChipType, PeerType, ComsType, QueueType, ExecType,
              PastType, chip, queue, exec, past
<1>4. CASE RecvCommand
  <2>. DEFINE buf == Received(sn)
  <2>1. /\ buf \in Seq(Part) /\ Len(buf) <= RxMax
        /\ SubSeq(net[sn], Taken(sn) + 1, Len(net[sn])) \in Seq(Part)
    BY ReceivedType
  <2>2. Len(buf) >= 2
    BY <1>4 DEF RecvCommand, Decodable
  <2>3. buf[1].cmd \in Cmd
    <3>1. Len(buf) \in Nat /\ 1 \in 1 .. Len(buf)
      BY <2>1, <2>2
    <3>2. buf[1] \in Part
      BY <2>1, <3>1, ElementOfSeq
    <3>. QED  BY <3>2 DEF Part
  <2>4. /\ SubSeq(buf, 3, Len(buf)) \in Seq(Part)
        /\ Len(SubSeq(buf, 3, Len(buf))) < RxMax
    <3>1. \A i \in 3 .. Len(buf) : buf[i] \in Part
      BY <2>1, <2>2, ElementOfSeq
    <3>2. Len(buf) \in Nat
      BY <2>1
    <3>. QED  BY <2>1, <2>2, <3>1, <3>2, SubSeqProperties DEF CommandPathAssumption
  <2>5. /\ net' = [net EXCEPT ![sn] = SubSeq(net[sn], Taken(sn) + 1, Len(net[sn]))]
        /\ rx' = [rx EXCEPT ![sn] = SubSeq(buf, 3, Len(buf))]
        /\ msg' = << [cmd |-> buf[1].cmd, sn |-> sn] >>
        /\ cpc' \in {"toobusy", "offer"}
        /\ UNCHANGED <<SR, is_sending, unacked, peer, unmade, issued,
                        socket_initialized, sn, closing, queue, exec, past, out>>
    BY <1>4 DEF RecvCommand, RecvReturnsData
  <2>. HIDE DEF buf
  <2>6. ChipType'
    BY <2>1, <2>5 DEF ChipType
  <2>7. msg' \in Seq(Item) /\ Len(msg') = 1
    BY <2>3, <2>5 DEF Item
  <2>8. ComsType'
    BY <2>4, <2>5, <2>7 DEF ComsType
  <2>. QED
    BY <2>5, <2>6, <2>8 DEF TypeOK, PeerType, QueueType, ExecType, PastType, queue, exec, past
<1>5. CASE RecvFragment
  <2>. DEFINE buf == Received(sn)
  <2>1. /\ buf \in Seq(Part) /\ Len(buf) <= RxMax
        /\ SubSeq(net[sn], Taken(sn) + 1, Len(net[sn])) \in Seq(Part)
    BY ReceivedType
  <2>2. /\ net' = [net EXCEPT ![sn] = SubSeq(net[sn], Taken(sn) + 1, Len(net[sn]))]
        /\ rx' = [rx EXCEPT ![sn] = IF Len(buf) = RxMax THEN << >> ELSE buf]
        /\ UNCHANGED <<SR, is_sending, unacked, peer, unmade, issued,
                        socket_initialized, closing, msg, queue, exec, past, out>>
        /\ cpc = "recv" /\ AfterNoCommand
    BY <1>5 DEF RecvFragment, RecvReturnsData
  <2>. HIDE DEF buf
  <2>3. sn' \in Sock /\ cpc' \in {"poll", "drain", "flush"}
    BY <2>2, NextSocketType DEF AfterNoCommand
  <2>4. ChipType'
    BY <2>1, <2>2 DEF ChipType
  <2>5. /\ (IF Len(buf) = RxMax THEN << >> ELSE buf) \in Seq(Part)
        /\ Len(IF Len(buf) = RxMax THEN << >> ELSE buf) < RxMax
    BY <2>1 DEF CommandPathAssumption
  <2>6. ComsType'
    BY <2>2, <2>3, <2>5 DEF ComsType
  <2>. QED
    BY <2>2, <2>4, <2>6 DEF TypeOK, PeerType, QueueType, ExecType, PastType, queue, exec, past
<1>6. CASE RecvClosed
  <2>1. ChipType'
    BY <1>6, CloseToType DEF RecvClosed
  <2>2. sn' \in Sock /\ cpc' \in {"poll", "drain", "flush"}
    BY <1>6, NextSocketType DEF RecvClosed, AfterNoCommand
  <2>3. ComsType'
    BY <1>6, <2>2 DEF RecvClosed, ComsType, CommandPathAssumption
  <2>. QED
    BY <1>6, <2>1, <2>3
    DEF RecvClosed, TypeOK, PeerType, QueueType, ExecType, PastType, queue, exec, past
<1>7. CASE OverflowReply
  <2>1. msg[1] \in Item
    BY <1>7, MsgHeld DEF OverflowReply
  <2>2. ReplyTo(msg[1], "ERROR", "coms") \in Reply
    BY <2>1 DEF ReplyTo, Reply, Item
  <2>3. ChipType' /\ PastType' /\ closing' \in Sock \union {0}
    BY <1>7, <2>2, SendReplyType DEF OverflowReply, ComsType
  <2>4. ComsType'
    BY <1>7, <2>3 DEF OverflowReply, ComsType
  <2>. QED
    BY <1>7, <2>3, <2>4 DEF OverflowReply, TypeOK, PeerType, QueueType, ExecType, queue, exec
<1>8. CASE OverflowClose
  <2>1. ChipType'
    BY <1>8, CloseToType DEF OverflowClose
  <2>2. ComsType'
    BY <1>8, NextSocketType DEF OverflowClose, ComsType
  <2>. QED
    BY <1>8, <2>1, <2>2
    DEF OverflowClose, TypeOK, PeerType, QueueType, ExecType, PastType, queue, exec, past
<1>9. CASE Offer
  <2>1. msg[1] \in Item
    BY <1>9, MsgHeld DEF Offer
  <2>2. QueueType' /\ PastType'
    <3>1. CASE Len(command_in) < QLen
      <4>1. /\ command_in' = Append(command_in, msg[1])
            /\ accepted' = Append(accepted, msg[1])
            /\ UNCHANGED <<response_out, executed, out>>
        BY <1>9, <3>1 DEF Offer
      <4>2. /\ command_in' \in Seq(Item)
            /\ Len(command_in') = Len(command_in) + 1
            /\ accepted' \in Seq(Item)
        BY <2>1, <4>1, AppendProperties DEF QueueType, PastType
      <4>. QED  BY <3>1, <4>1, <4>2 DEF QueueType, PastType, CommandPathAssumption
    <3>2. CASE ~(Len(command_in) < QLen)
      BY <1>9, <3>2 DEF Offer, QueueType, PastType
    <3>. QED  BY <3>1, <3>2
  <2>3. ComsType'
    BY <1>9 DEF Offer, ComsType
  <2>. QED
    BY <1>9, <2>2, <2>3 DEF Offer, TypeOK, ChipType, PeerType, ExecType, chip, exec
<1>10. CASE Acknowledge
  <2>1. msg[1] \in Item
    BY <1>10, MsgHeld DEF Acknowledge
  <2>2. ReplyTo(msg[1], IF cpc = "ack" THEN "ACK" ELSE "ERROR", "coms") \in Reply
    BY <2>1 DEF ReplyTo, Reply, Item
  <2>3. ChipType' /\ PastType' /\ closing' \in Sock \union {0}
    BY <1>10, <2>2, SendReplyType DEF Acknowledge, ComsType
  <2>4. ComsType'
    BY <1>10, <2>3 DEF Acknowledge, ComsType, Sock, Overflow, CommandPathAssumption
  <2>. QED
    BY <1>10, <2>3, <2>4 DEF Acknowledge, TypeOK, PeerType, QueueType, ExecType, queue, exec
<1>11. CASE Drain
  <2>1. ChipType' /\ PastType' /\ QueueType' /\ closing' \in Sock \union {0}
    <3>1. CASE response_out = << >>
      BY <1>11, <3>1 DEF Drain, ChipType, ComsType, PastType, QueueType, chip, past
    <3>2. CASE response_out # << >>
      <4>1. /\ Head(response_out) \in Reply
            /\ Tail(response_out) \in Seq(Reply)
            /\ Len(Tail(response_out)) = Len(response_out) - 1
        BY <3>2, HeadTailProperties DEF QueueType
      <4>2. ChipType' /\ PastType' /\ closing' \in Sock \union {0}
        BY <1>11, <3>2, <4>1, SendReplyType DEF Drain, ComsType
      <4>3. QueueType'
        BY <1>11, <3>2, <4>1 DEF Drain, QueueType, CommandPathAssumption
      <4>. QED  BY <4>2, <4>3
    <3>. QED  BY <3>1, <3>2
  <2>2. ComsType'
    BY <1>11, <2>1 DEF Drain, ComsType
  <2>. QED
    BY <1>11, <2>1, <2>2 DEF Drain, TypeOK, PeerType, ExecType, exec
<1>12. CASE Reopen
  <2>1. closing \in Sock
    BY <1>12 DEF Reopen, ComsType
  <2>2. ChipType'
    BY <1>12, <2>1, CloseToType DEF Reopen
  <2>3. ComsType'
    BY <1>12 DEF Reopen, ComsType
  <2>. QED
    BY <1>12, <2>2, <2>3
    DEF Reopen, TypeOK, PeerType, QueueType, ExecType, PastType, queue, exec, past
<1>13. CASE OverflowDisconnect
  <2>1. ChipType'
    BY <1>13, DisconnectType DEF OverflowDisconnect
  <2>. QED
    BY <1>13, <2>1
    DEF OverflowDisconnect, TypeOK, PeerType, ComsType, QueueType, ExecType, PastType,
        coms, queue, exec, past
<1>. QED
  BY <1>1, <1>2, <1>3, <1>4, <1>5, <1>6, <1>7, <1>8, <1>9, <1>10, <1>11, <1>12, <1>13
  DEF ComsTask

LEMMA RespondType ==
    ASSUME QueueType, NEW r \in Reply, Respond(r)
    PROVE  response_out' \in Seq(Reply) /\ Len(response_out') <= QLen
<1>1. CASE Len(response_out) < QLen
  <2>1. response_out' = Append(response_out, r)
    BY <1>1 DEF Respond
  <2>2. /\ Append(response_out, r) \in Seq(Reply)
        /\ Len(Append(response_out, r)) = Len(response_out) + 1
    BY AppendProperties DEF QueueType
  <2>. QED  BY <1>1, <2>1, <2>2 DEF QueueType, CommandPathAssumption
<1>2. CASE ~(Len(response_out) < QLen)
  BY <1>2 DEF Respond, QueueType
<1>. QED  BY <1>1, <1>2

LEMMA ExecutorTaskType ==
    ASSUME TypeOK, ExecutorTask
    PROVE  TypeOK'
<1>. /\ ChipType /\ PeerType /\ ComsType /\ QueueType /\ ExecType /\ PastType
  BY DEF TypeOK
<1>1. UNCHANGED <<chip, unmade, issued, coms, out>>
  BY DEF ExecutorTask, ExecReceive, ExecAck, ExecRun, past
<1>2. ChipType' /\ PeerType' /\ ComsType'
  BY <1>1 DEF ChipType, PeerType, ComsType, chip, coms
<1>3. CASE ExecReceive
  <2>1. /\ Head(command_in) \in Item
        /\ Tail(command_in) \in Seq(Item)
        /\ Len(Tail(command_in)) = Len(command_in) - 1
    BY <1>3, HeadTailProperties DEF ExecReceive, QueueType
  <2>2. QueueType'
    BY <1>3, <2>1 DEF ExecReceive, QueueType, CommandPathAssumption
  <2>3. ExecType'
    BY <1>3, <2>1 DEF ExecReceive, ExecType
  <2>. QED
    BY <1>1, <1>2, <1>3, <2>2, <2>3 DEF ExecReceive, TypeOK, PastType, past
<1>4. CASE ExecAck
  <2>1. cmd[1] \in Item
    BY <1>4, ElementOfSeq DEF ExecAck, ExecType
  <2>2. ReplyTo(cmd[1], "ACK", "executor") \in Reply
    BY <2>1 DEF ReplyTo, Reply, Item
  <2>3. QueueType'
    BY <1>4, <2>2, RespondType DEF ExecAck, QueueType
  <2>4. ExecType'
    BY <1>4 DEF ExecAck, ExecType
  <2>. QED
    BY <1>1, <1>2, <1>4, <2>3, <2>4 DEF ExecAck, TypeOK, PastType, past
<1>5. CASE ExecRun
  <2>1. cmd[1] \in Item
    BY <1>5, ElementOfSeq DEF ExecRun, ExecType
  <2>2. \A type \in {"RESPONSE", "ERROR"} : ReplyTo(cmd[1], type, "executor") \in Reply
    BY <2>1 DEF ReplyTo, Reply, Item
  <2>3. QueueType'
    BY <1>5, <2>2, RespondType DEF ExecRun, QueueType
  <2>4. ExecType'
    BY <1>5 DEF ExecRun, ExecType
  <2>5. PastType'
    BY <1>1, <1>5, <2>1, AppendProperties DEF ExecRun, PastType
  <2>. QED  BY <1>2, <2>3, <2>4, <2>5 DEF TypeOK
<1>. QED  BY <1>3, <1>4, <1>5 DEF ExecutorTask

LEMMA NextType ==
    ASSUME TypeOK, [Next]_vars
    PROVE  TypeOK'
<1>1. CASE Next
  BY <1>1, EnvironmentType, ComsTaskType, ExecutorTaskType DEF Next
<1>2. CASE UNCHANGED vars
  BY <1>2 DEF vars, chip, coms, queue, exec, past, TypeOK, ChipType, PeerType,
              ComsType, QueueType, ExecType, PastType
<1>. QED  BY <1>1, <1>2

\* Every variable keeps its type, and no queue or buffer outgrows its
\* capacity, whatever the peers do and however the tasks interleave.
THEOREM TypeCorrect == Spec => []TypeOK
<1>1. Init => TypeOK
  BY InitType
<1>2. TypeOK /\ [Next]_vars => TypeOK'
  BY NextType
<1>. QED  BY <1>1, <1>2, PTL DEF Spec

----------------------------------------------------------------------------
(* No accepted command is lost, repeated or overtaken between the tasks.   *)

LEMMA HeadThenTail ==
    ASSUME NEW S, NEW q \in Seq(S), q # << >>
    PROVE  q = << Head(q) >> \o Tail(q)
<1>1. /\ Head(q) \in S /\ Tail(q) \in Seq(S)
      /\ Len(Tail(q)) = Len(q) - 1
      /\ \A i \in 1 .. Len(Tail(q)) : Tail(q)[i] = q[i + 1]
  BY HeadTailProperties
<1>2. << Head(q) >> \in Seq(S) /\ Len(<< Head(q) >>) = 1 /\ << Head(q) >>[1] = q[1]
  BY <1>1
<1>. DEFINE p == << Head(q) >> \o Tail(q)
<1>3. /\ p \in Seq(S) /\ Len(p) = Len(q)
      /\ \A i \in 1 .. Len(q) :
            p[i] = IF i <= 1 THEN << Head(q) >>[i] ELSE Tail(q)[i - 1]
  BY <1>1, <1>2, ConcatProperties
<1>4. Len(q) \in Nat
  BY LenProperties
<1>. HIDE DEF p
<1>5. \A i \in 1 .. Len(q) : p[i] = q[i]
  <2>1. TAKE i \in 1 .. Len(q)
  <2>2. CASE i = 1
    BY <1>2, <1>3, <2>2
  <2>3. CASE i # 1
    <3>1. i - 1 \in 1 .. Len(Tail(q)) /\ (i - 1) + 1 = i /\ ~(i <= 1)
      BY <1>1, <1>4, <2>3
    <3>2. Tail(q)[i - 1] = q[(i - 1) + 1]
      BY <1>1, <3>1
    <3>. QED  BY <1>3, <3>1, <3>2
  <2>. QED  BY <2>2, <2>3
<1>6. q = p
  BY <1>3, <1>5, SeqEqual
<1>. QED  BY <1>6 DEF p

LEMMA InitFifo == Init => Fifo
BY DEF Init, Fifo

LEMMA NextFifo ==
    ASSUME TypeOK, Fifo, [Next]_vars
    PROVE  Fifo'
<1>1. /\ accepted \in Seq(Item) /\ executed \in Seq(Item)
      /\ cmd \in Seq(Item) /\ command_in \in Seq(Item)
  BY DEF TypeOK, PastType, ExecType, QueueType
<1>2. accepted = (executed \o cmd) \o command_in
  BY DEF Fifo
<1>3. executed \o cmd \in Seq(Item)
  BY <1>1, ConcatProperties
<1>4. CASE Offer /\ Len(command_in) < QLen
  <2>1. msg[1] \in Item
    BY <1>4, MsgHeld DEF Offer, TypeOK
  <2>2. /\ command_in' = Append(command_in, msg[1])
        /\ accepted' = Append(accepted, msg[1])
        /\ executed' = executed /\ cmd' = cmd
    BY <1>4 DEF Offer, exec
  <2>3. << msg[1] >> \in Seq(Item)
    BY <2>1
  <2>4. accepted' = ((executed \o cmd) \o command_in) \o << msg[1] >>
    BY <1>1, <1>2, <2>1, <2>2, AppendIsConcat
  <2>5. command_in' = command_in \o << msg[1] >>
    BY <1>1, <2>1, <2>2, AppendIsConcat
  <2>6. accepted' = (executed \o cmd) \o (command_in \o << msg[1] >>)
    <3>1. Regroups(executed \o cmd, command_in, << msg[1] >>)
      BY <1>1, <1>3, <2>3, Regrouped, Zenon
    <3>. QED  BY <2>4, <3>1, Zenon DEF Regroups
  <2>. QED  BY <2>2, <2>5, <2>6 DEF Fifo
<1>5. CASE ExecReceive
  <2>1. cmd = << >>
    <3>1. Len(cmd) = 0
      BY <1>5 DEF ExecReceive, TypeOK, ExecType
    <3>. QED  BY <1>1, <3>1, EmptySeq
  <2>2. /\ cmd' = << Head(command_in) >> /\ command_in' = Tail(command_in)
        /\ accepted' = accepted /\ executed' = executed
        /\ command_in # << >>
    BY <1>5 DEF ExecReceive, past
  <2>3. /\ << Head(command_in) >> \in Seq(Item) /\ Tail(command_in) \in Seq(Item)
    BY <1>1, <2>2, HeadTailProperties
  <2>4. accepted = executed \o (<< Head(command_in) >> \o Tail(command_in))
    BY <1>1, <1>2, <2>1, <2>2, ConcatEmptySeq, HeadThenTail
  <2>5. accepted = (executed \o << Head(command_in) >>) \o Tail(command_in)
    <3>1. Regroups(executed, << Head(command_in) >>, Tail(command_in))
      BY <1>1, <2>3, Regrouped, Zenon
    <3>. QED  BY <2>4, <3>1, Zenon DEF Regroups
  <2>. QED  BY <2>2, <2>5 DEF Fifo
<1>6. CASE ExecRun
  <2>1. cmd[1] \in Item /\ cmd = << cmd[1] >>
    BY <1>1, <1>6, Singleton DEF ExecRun, TypeOK, ExecType
  <2>2. /\ executed' = Append(executed, cmd[1]) /\ cmd' = << >>
        /\ accepted' = accepted /\ command_in' = command_in
    BY <1>6 DEF ExecRun
  <2>3. executed' = executed \o cmd
    BY <1>1, <2>1, <2>2, AppendIsConcat
  <2>4. executed' \o cmd' = executed \o cmd
    BY <1>3, <2>2, <2>3, ConcatEmptySeq
  <2>. QED  BY <1>2, <2>2, <2>4 DEF Fifo
<1>7. CASE UNCHANGED <<accepted, executed, cmd, command_in>>
  BY <1>7 DEF Fifo
<1>8. \/ Offer /\ Len(command_in) < QLen
      \/ ExecReceive
      \/ ExecRun
      \/ UNCHANGED <<accepted, executed, cmd, command_in>>
  <2>1. CASE Environment
    BY <2>1 DEF Environment, Connect, PeerSend, PeerFin, ConnectionEnds, ChipSendOk, PeerAck,
                queue, exec, past
  <2>2. CASE ComsTask /\ ~Offer
    BY <2>2 DEF ComsTask, Reopen, OpenSocket, SkipSocket, EnterRecv, RecvCommand,
                RecvFragment, RecvClosed, OverflowReply, OverflowDisconnect, OverflowClose,
                Acknowledge, Drain, queue, exec, past
  <2>3. CASE Offer /\ ~(Len(command_in) < QLen)
    BY <2>3 DEF Offer, exec
  <2>4. CASE ExecAck
    BY <2>4 DEF ExecAck, past
  <2>5. CASE UNCHANGED vars
    BY <2>5 DEF vars, queue, exec, past
  <2>. QED  BY <2>1, <2>2, <2>3, <2>4, <2>5 DEF Next, ExecutorTask
<1>. QED  BY <1>4, <1>5, <1>6, <1>7, <1>8

\* The commands executed, in hand and queued are always, in this order, the
\* commands accepted: the hand-over between the two cores loses nothing,
\* repeats nothing and keeps the order, for every capacity of the queue.
THEOREM FifoHolds == Spec => []Fifo
<1>1. Init => TypeOK /\ Fifo
  BY InitType, InitFifo
<1>2. (TypeOK /\ Fifo) /\ [Next]_vars => (TypeOK /\ Fifo)'
  BY NextType, NextFifo
<1>. QED  BY <1>1, <1>2, PTL DEF Spec

----------------------------------------------------------------------------
(* What the peers observe: each command is handled once, its replies leave *)
(* in order, and they reach a stranger only after their owner's connection *)
(* has ended.                                                              *)
(*                                                                         *)
(* The argument follows the first half of each command.  It is in one      *)
(* stream at most (what a socket has received, framed or not yet), and is  *)
(* consumed when the command is decoded: no command is decoded twice.      *)
(* First the inductive invariant.                                          *)

\* The bytes of socket s, those receive() buffers first.
Stream(s) == rx[s] \o net[s]

HeadOf(c)   == [cmd |-> c, half |-> "head"]
HeadIn(c, q) == \E i \in DOMAIN q : q[i] = HeadOf(c)

\* The head of c has been sent, and is in no stream any more.
Decoded(c) ==
    /\ 2 * c.n - 1 <= issued[c.conn]
    /\ \A s \in Sock : ~HeadIn(c, Stream(s))

\* Every head in a stream has been sent, and is there once.
HeadsOnce ==
    \A s \in Sock : \A i \in DOMAIN Stream(s) :
        LET p == Stream(s)[i] IN
          p.half = "head" =>
            /\ 2 * p.cmd.n - 1 <= issued[p.cmd.conn]
            /\ \A t \in Sock : \A j \in DOMAIN Stream(t) :
                  Stream(t)[j] = p => t = s /\ j = i

InMsg(c)      == msg # << >> /\ msg[1].cmd = c
CmdIn(c, q)      == \E a \in DOMAIN q : q[a].cmd = c
AnsweredIn(c, o) == \E k \in Conn : CmdIn(c, o[k])

\* A command that has been decoded can not be decoded again.
DecodedOnce == \A c \in Cmd : InMsg(c) \/ CmdIn(c, accepted) \/ AnsweredIn(c, out) => Decoded(c)

\* No command is accepted twice.
AcceptedOnce ==
    \A a, b \in DOMAIN accepted : accepted[a].cmd = accepted[b].cmd => a = b

\* The command coms_task holds has no reply yet, and is accepted exactly
\* when coms_task is about to acknowledge it.
MsgUnanswered ==
    msg # << >> => /\ ~AnsweredIn(msg[1].cmd, out)
                   /\ CmdIn(msg[1].cmd, accepted) <=> cpc = "ack"

\* A command answered by coms_task was refused or is accepted.
ComsRepliesOnce ==
    \A k \in Conn : \A i \in DOMAIN out[k] :
        out[k][i].from = "coms" =>
            /\ out[k][i].type \in {"ACK", "ERROR"}
            /\ CmdIn(out[k][i].cmd, accepted) <=> out[k][i].type = "ACK"

\* The executor replies twice to the a-th command, first with its ACK: the
\* place of a reply in the sequence of all its replies.
Place(r, a) == 2 * a - (IF r.type = "ACK" THEN 1 ELSE 0)

\* The replies the executor has made so far.
Progress == 2 * Len(executed) + (IF epc = "run" THEN 1 ELSE 0)

Made(r, acc, p) ==
    \E a \in DOMAIN acc : acc[a].cmd = r.cmd /\ Place(r, a) <= p

Before(r, q, acc) ==
    \E a, b \in DOMAIN acc :
        /\ acc[a].cmd = r.cmd /\ acc[b].cmd = q.cmd
        /\ Place(r, a) < Place(q, b)

\* The executor's replies are in response_out in the order it made them,
\* after all of its replies already transmitted.
ResponsesInOrder ==
    /\ \A i \in DOMAIN response_out :
          response_out[i].from = "executor" /\ Made(response_out[i], accepted, Progress)
    /\ \A i, j \in DOMAIN response_out :
          i < j => Before(response_out[i], response_out[j], accepted)

TransmittedInOrder ==
    \A k \in Conn : \A i \in DOMAIN out[k] : out[k][i].from = "executor" =>
        /\ Made(out[k][i], accepted, Progress)
        /\ \A j \in DOMAIN response_out : Before(out[k][i], response_out[j], accepted)
        /\ \A j \in DOMAIN out[k] :
              i < j /\ out[k][j].from = "executor" => Before(out[k][i], out[k][j], accepted)

OrderInv ==
    /\ HeadsOnce /\ DecodedOnce
    /\ AcceptedOnce /\ MsgUnanswered /\ ComsRepliesOnce
    /\ ResponsesInOrder /\ TransmittedInOrder
    /\ AckFirst

----------------------------------------------------------------------------
\* A connection that has ended; it is never made again.
Ended(k) == k \notin unmade /\ ~Connected(k)

Owned(c, s) == c.conn # peer[s] => Ended(c.conn)

\* A socket holds a connection while it is open, no two sockets the same.
OnePeer ==
    /\ \A s \in Sock : SR[s] \in {"CLOSED", "LISTEN"} => peer[s] = NoConn
    /\ \A s \in Sock : peer[s] \notin unmade
    /\ \A s, t \in Sock : peer[s] \in Conn /\ peer[s] = peer[t] => s = t

\* Socket s brought command c, or part of it: the command is in the stream
\* of s, or is held, accepted or answered with s as its identity.
HeldIn(c, s, q) == \E i \in DOMAIN q : q[i].cmd = c /\ q[i].sn = s

Brought(c, s) ==
    \/ \E i \in DOMAIN Stream(s) : Stream(s)[i].cmd = c
    \/ HeldIn(c, s, msg) \/ HeldIn(c, s, accepted) \/ HeldIn(c, s, response_out)

\* A command travels with the socket of the connection it belongs to, or
\* that connection has ended.
OwnerOrEnded == \A c \in Cmd : \A s \in Sock : Brought(c, s) => Owned(c, s)

OwnerInv == OnePeer /\ OwnerOrEnded /\ StrangersOnlyAfterGone

----------------------------------------------------------------------------
(* Streams.  Every step leaves each stream a window of what it was, but for *)
(* the peer that sends.                                                     *)

Window(p, q, d) ==
    d \in Nat /\ \A i \in DOMAIN p : i + d \in DOMAIN q /\ p[i] = q[i + d]

LEMMA TailWindow ==
    ASSUME NEW S, NEW b \in Seq(S), NEW w \in Seq(S), NEW d \in 0 .. Len(b)
    PROVE  Window(SubSeq(b, d + 1, Len(b)) \o w, b \o w, d)
<1>. DEFINE n == Len(b)
            m == Len(w)
            p == SubSeq(b, d + 1, Len(b))
<1>1. n \in Nat /\ m \in Nat /\ d \in 0 .. n
  BY LenProperties
<1>2. /\ p \in Seq(S) /\ Len(p) = n - d
      /\ \A i \in 1 .. n - d : p[i] = b[i + d]
  <2>1. \A i \in d + 1 .. Len(b) : b[i] \in S
    BY <1>1, ElementOfSeq
  <2>2. /\ p \in Seq(S) /\ Len(p) = IF d + 1 <= n THEN n - (d + 1) + 1 ELSE 0
        /\ \A i \in 1 .. n - (d + 1) + 1 : p[i] = b[(d + 1) + i - 1]
    BY <1>1, <2>1, SubSeqProperties
  <2>. HIDE DEF n, p
  <2>. QED  BY <1>1, <2>2
<1>3. /\ DOMAIN (p \o w) = 1 .. n - d + m
      /\ \A i \in 1 .. n - d + m : (p \o w)[i] = IF i <= n - d THEN p[i] ELSE w[i - (n - d)]
  <2>1. /\ p \o w \in Seq(S) /\ Len(p \o w) = Len(p) + m
        /\ \A i \in 1 .. Len(p) + m : (p \o w)[i] = IF i <= Len(p) THEN p[i] ELSE w[i - Len(p)]
    BY <1>2, ConcatProperties
  <2>2. DOMAIN (p \o w) = 1 .. Len(p \o w)
    BY <2>1, LenProperties
  <2>. QED  BY <1>2, <2>1, <2>2
<1>4. /\ DOMAIN (b \o w) = 1 .. n + m
      /\ \A i \in 1 .. n + m : (b \o w)[i] = IF i <= n THEN b[i] ELSE w[i - n]
  <2>1. /\ b \o w \in Seq(S) /\ Len(b \o w) = n + m
        /\ \A i \in 1 .. n + m : (b \o w)[i] = IF i <= n THEN b[i] ELSE w[i - n]
    BY ConcatProperties
  <2>. QED  BY <2>1, LenProperties
<1>5. ASSUME NEW i \in DOMAIN (p \o w)
      PROVE  i + d \in DOMAIN (b \o w) /\ (p \o w)[i] = (b \o w)[i + d]
  <2>. DEFINE pw == p \o w
              bw == b \o w
  <2>. HIDE DEF n, m, p
  <2>1. i \in 1 .. n - d + m /\ i + d \in 1 .. n + m
    BY <1>1, <1>3
  <2>2. /\ pw[i] = IF i <= n - d THEN p[i] ELSE w[i - (n - d)]
        /\ bw[i + d] = IF i + d <= n THEN b[i + d] ELSE w[(i + d) - n]
        /\ i + d \in DOMAIN bw
    BY <1>3, <1>4, <2>1
  <2>. HIDE DEF pw, bw
  <2>3. CASE i <= n - d
    <3>1. i + d <= n /\ i \in 1 .. n - d
      BY <1>1, <2>1, <2>3
    <3>2. pw[i] = b[i + d]
      BY <1>2, <2>2, <2>3, <3>1
    <3>3. pw[i] = bw[i + d]
      BY <2>2, <3>1, <3>2
    <3>. QED  BY <2>2, <3>3, Zenon DEF pw, bw
  <2>4. CASE ~(i <= n - d)
    <3>1. i - (n - d) = (i + d) - n /\ ~(i + d <= n)
      BY <1>1, <2>1, <2>4
    <3>2. pw[i] = w[i - (n - d)] /\ bw[i + d] = w[(i + d) - n]
      BY <2>2, <2>4, <3>1
    <3>3. pw[i] = bw[i + d]
      BY <3>1, <3>2
    <3>. QED  BY <2>2, <3>3, Zenon DEF pw, bw
  <2>. QED  BY <2>3, <2>4
<1>. DEFINE pw == p \o w
            bw == b \o w
<1>6. d \in Nat /\ \A i \in DOMAIN pw : i + d \in DOMAIN bw /\ pw[i] = bw[i + d]
  <2>. HIDE DEF n, p
  <2>1. d \in Nat
    BY <1>1
  <2>2. \A i \in DOMAIN pw : i + d \in DOMAIN bw /\ pw[i] = bw[i + d]
    BY <1>5, Zenon
  <2>. QED  BY <2>1, <2>2
<1>. HIDE DEF pw, bw
<1>7. Window(pw, bw, d)
  BY <1>6, Zenon DEF Window
<1>. QED  BY <1>7, Zenon DEF pw, bw

LEMMA StreamType ==
    ASSUME TypeOK, NEW s \in Sock
    PROVE  /\ Stream(s) \in Seq(Part)
           /\ DOMAIN Stream(s) = 1 .. Len(Stream(s))
           /\ Len(Stream(s)) \in Nat
BY ConcatProperties, LenProperties DEF Stream, TypeOK, ChipType, ComsType

LEMMA StreamRanks ==
    ASSUME TypeOK, [Next]_vars, NEW s \in Sock, NEW i \in DOMAIN Stream(s)'
    PROVE  i \in Nat
<1>1. rx'[s] \in Seq(Part) /\ net'[s] \in Seq(Part)
  BY NextType DEF TypeOK, ChipType, ComsType
<1>2. rx'[s] \o net'[s] \in Seq(Part)
  BY <1>1, ConcatProperties
<1>3. DOMAIN Stream(s)' = 1 .. Len(rx'[s] \o net'[s])
  BY <1>2, LenProperties DEF Stream
<1>. QED  BY <1>3

\* What recv() took from the chip joins what receive() had buffered.
LEMMA ReceivedIsPrefix ==
    ASSUME TypeOK, RecvReturnsData
    PROVE  LET buf  == Received(sn)
               rest == SubSeq(net[sn], Taken(sn) + 1, Len(net[sn]))
           IN  /\ buf \in Seq(Part) /\ rest \in Seq(Part)
               /\ Stream(sn) = buf \o rest
               /\ net' = [net EXCEPT ![sn] = rest]
<1>1. /\ sn \in Sock /\ rx[sn] \in Seq(Part) /\ net[sn] \in Seq(Part)
      /\ ChipType /\ ComsType
  BY DEF TypeOK, ChipType, ComsType
<1>. DEFINE first == SubSeq(net[sn], 1, Taken(sn))
            rest  == SubSeq(net[sn], Taken(sn) + 1, Len(net[sn]))
<1>2. Taken(sn) \in 0 .. Len(net[sn])
  <2>1. /\ Len(net[sn]) \in Nat /\ Len(rx[sn]) \in Nat /\ Len(rx[sn]) < RxMax
        /\ RxMax \in Nat
    BY <1>1 DEF ComsType
  <2>2. Room(sn) \in Nat
    BY <2>1 DEF Room
  <2>. QED  BY <2>1, <2>2 DEF Taken
<1>3. first \in Seq(Part) /\ rest \in Seq(Part)
  <2>1. /\ \A i \in 1 .. Taken(sn) : net[sn][i] \in Part
        /\ \A i \in Taken(sn) + 1 .. Len(net[sn]) : net[sn][i] \in Part
        /\ Len(net[sn]) \in Nat
    BY <1>1, <1>2, ElementOfSeq, LenProperties
  <2>. QED  BY <1>2, <2>1, SubSeqProperties
<1>4. first \o rest = net[sn]
  <2>1. /\ 1 \in 1 .. Len(net[sn]) + 1
        /\ Taken(sn) \in (1 - 1) .. Len(net[sn])
        /\ Len(net[sn]) \in Taken(sn) .. Len(net[sn])
    BY <1>1, <1>2, LenProperties
  <2>2. first \o rest = SubSeq(net[sn], 1, Len(net[sn]))
    BY <1>1, <2>1, ConcatAdjacentSubSeq
  <2>. QED  BY <1>1, <2>2, SubSeqFull
<1>5. Received(sn) = rx[sn] \o first
  BY DEF Received
<1>6. net' = [net EXCEPT ![sn] = rest]
  BY DEF RecvReturnsData
<1>. HIDE DEF first, rest
<1>7. Received(sn) \in Seq(Part)
  BY <1>1, <1>3, <1>5, ConcatProperties
<1>8. Stream(sn) = Received(sn) \o rest
  <2>1. Stream(sn) = rx[sn] \o (first \o rest)
    BY <1>4 DEF Stream
  <2>. DEFINE old == rx[sn]
  <2>2. old \in Seq(Part)
    BY <1>1
  <2>. HIDE DEF old
  <2>3. (old \o first) \o rest = old \o (first \o rest)
    <3>1. Regroups(old, first, rest)
      BY <1>3, <2>2, Regrouped, Zenon
    <3>. QED  BY <3>1, Zenon DEF Regroups
  <2>. QED  BY <1>5, <2>1, <2>3 DEF old
<1>. QED  BY <1>3, <1>6, <1>7, <1>8 DEF rest

LEMMA SendReplyNet ==
    ASSUME TypeOK, NEW r \in Reply, send_reply(r), NEW s \in Sock
    PROVE  net'[s] \in {net[s], << >>}
BY DEF send_reply, CloseTo, disconnect, chip, TypeOK, ChipType, Reply

LEMMA KeptWindow ==
    ASSUME TypeOK, NEW s \in Sock,
           \/ rx'[s] = rx[s] /\ net'[s] \in {net[s], << >>}
           \/ rx'[s] = << >> /\ net'[s] = << >>
    PROVE  Window(Stream(s)', Stream(s), 0)
<1>1. rx[s] \in Seq(Part) /\ net[s] \in Seq(Part)
  BY DEF TypeOK, ChipType, ComsType
<1>2. Stream(s)' = rx'[s] \o net'[s]
  BY DEF Stream
<1>3. CASE rx'[s] = rx[s] /\ net'[s] = net[s]
  <2>1. Stream(s)' = Stream(s)
    BY <1>2, <1>3 DEF Stream
  <2>. QED  BY <2>1, StreamType DEF Window
<1>4. CASE rx'[s] = rx[s] /\ net'[s] = << >>
  <2>. DEFINE b == rx[s]
              w == net[s]
  <2>1. b \in Seq(Part) /\ w \in Seq(Part)
    BY <1>1
  <2>2. Stream(s)' = b \o << >> /\ Stream(s) = b \o w
    BY <1>2, <1>4 DEF Stream
  <2>. HIDE DEF b, w
  <2>3. Stream(s)' = b
    BY <2>1, <2>2, ConcatEmptySeq
  <2>4. /\ b \o w \in Seq(Part) /\ Len(b \o w) = Len(b) + Len(w)
        /\ \A i \in 1 .. Len(b) + Len(w) :
              (b \o w)[i] = IF i <= Len(b) THEN b[i] ELSE w[i - Len(b)]
    BY <2>1, ConcatProperties
  <2>5. /\ DOMAIN (b \o w) = 1 .. Len(b) + Len(w) /\ DOMAIN b = 1 .. Len(b)
        /\ Len(b) \in Nat /\ Len(w) \in Nat
    BY <2>1, <2>4, LenProperties
  <2>. QED  BY <2>2, <2>3, <2>4, <2>5 DEF Window
<1>5. CASE rx'[s] = << >> /\ net'[s] = << >>
  <2>1. Stream(s)' = << >>
    BY <1>2, <1>5
  <2>. QED  BY <2>1 DEF Window
<1>. QED  BY <1>3, <1>4, <1>5

\* A receive that decodes a command takes its two parts off the stream.
LEMMA DecodeWindow ==
    ASSUME TypeOK, RecvCommand
    PROVE  /\ Window(Stream(sn)', Stream(sn), 2)
           /\ \A s \in Sock \ {sn} : Stream(s)' = Stream(s)
           /\ sn' = sn
           /\ msg'[1].cmd \in Cmd /\ Stream(sn)[1] = HeadOf(msg'[1].cmd)
           /\ 1 \in DOMAIN Stream(sn)
<1>. DEFINE buf  == Received(sn)
            rest == SubSeq(net[sn], Taken(sn) + 1, Len(net[sn]))
<1>1. RecvReturnsData /\ sn \in Sock /\ ChipType /\ ComsType
  BY DEF RecvCommand, TypeOK, ComsType
<1>2. /\ buf \in Seq(Part) /\ rest \in Seq(Part)
      /\ Stream(sn) = buf \o rest
      /\ net' = [net EXCEPT ![sn] = rest]
  BY <1>1, ReceivedIsPrefix
<1>3. /\ Len(buf) \in Nat /\ Len(buf) >= 2 /\ buf[1].half = "head"
      /\ rx' = [rx EXCEPT ![sn] = SubSeq(buf, 3, Len(buf))]
      /\ msg' = << [cmd |-> buf[1].cmd, sn |-> sn] >> /\ sn' = sn
  BY <1>2 DEF RecvCommand, Decodable
<1>. HIDE DEF buf, rest
<1>4. Window(Stream(sn)', Stream(sn), 2)
  <2>1. Stream(sn)' = SubSeq(buf, 2 + 1, Len(buf)) \o rest
    <3>1. rx'[sn] = SubSeq(buf, 3, Len(buf)) /\ net'[sn] = rest /\ sn' = sn
      BY <1>1, <1>2, <1>3 DEF ChipType, ComsType
    <3>2. 2 + 1 = 3
      OBVIOUS
    <3>. QED  BY <3>1, <3>2 DEF Stream
  <2>2. 2 \in 0 .. Len(buf)
    BY <1>3
  <2>. QED  BY <1>2, <2>1, <2>2, TailWindow
<1>5. \A s \in Sock \ {sn} : Stream(s)' = Stream(s)
  BY <1>1, <1>2, <1>3 DEF Stream, ChipType, ComsType
<1>6. msg'[1].cmd \in Cmd /\ Stream(sn)[1] = HeadOf(msg'[1].cmd) /\ 1 \in DOMAIN Stream(sn)
  <2>1. 1 \in 1 .. Len(buf) /\ buf[1] \in Part
    BY <1>2, <1>3, ElementOfSeq
  <2>2. Stream(sn)[1] = buf[1] /\ 1 \in DOMAIN Stream(sn)
    <3>1. /\ buf \o rest \in Seq(Part) /\ Len(buf \o rest) = Len(buf) + Len(rest)
          /\ \A i \in 1 .. Len(buf) + Len(rest) :
                (buf \o rest)[i] = IF i <= Len(buf) THEN buf[i] ELSE rest[i - Len(buf)]
      BY <1>2, ConcatProperties
    <3>2. Len(rest) \in Nat /\ DOMAIN (buf \o rest) = 1 .. Len(buf) + Len(rest)
      BY <1>2, <3>1, LenProperties
    <3>. QED  BY <1>2, <1>3, <3>1, <3>2
  <2>3. msg'[1].cmd = buf[1].cmd
    BY <1>3
  <2>. QED  BY <1>3, <2>1, <2>2, <2>3 DEF Part, HeadOf
<1>. QED  BY <1>3, <1>4, <1>5, <1>6

LEMMA StreamsShrink ==
    ASSUME TypeOK, [Next]_vars, ~(\E t \in Sock : PeerSend(t)), NEW s \in Sock
    PROVE  (\E d \in Nat : Window(Stream(s)', Stream(s), d)) /\ issued' = issued
<1>. /\ ChipType /\ ComsType /\ sn \in Sock
  BY DEF TypeOK, ComsType
<1>. DEFINE Kept == \/ rx'[s] = rx[s] /\ net'[s] \in {net[s], << >>}
                    \/ rx'[s] = << >> /\ net'[s] = << >>
            Done == (\E d \in Nat : Window(Stream(s)', Stream(s), d)) /\ issued' = issued
<1>1. ASSUME Kept, issued' = issued
      PROVE  Done
  BY <1>1, KeptWindow
<1>. SUFFICES Done
  OBVIOUS
<1>. HIDE DEF Done
<1>2. CASE Environment
  <2>1. PICK t \in Sock :
          \/ \E k \in Conn : Connect(k, t)
          \/ PeerFin(t) \/ ConnectionEnds(t) \/ ChipSendOk(t) \/ PeerAck(t)
    BY <1>2 DEF Environment
  <2>2. Kept /\ issued' = issued
    BY <2>1 DEF Connect, PeerFin, ConnectionEnds, ChipSendOk, PeerAck, coms, ChipType
  <2>. QED  BY <1>1, <2>2
<1>3. CASE OpenSocket \/ SkipSocket \/ EnterRecv \/ RecvClosed \/ OverflowClose \/ Offer
  <2>1. Kept /\ issued' = issued
    BY <1>3 DEF OpenSocket, SkipSocket, EnterRecv, RecvClosed, OverflowClose, Offer,
                CloseTo, chip, ChipType, ComsType
  <2>. QED  BY <1>1, <2>1
<1>9. CASE Reopen \/ OverflowDisconnect
  <2>1. Kept /\ issued' = issued
    BY <1>9 DEF Reopen, OverflowDisconnect, CloseTo, disconnect, coms, ChipType
  <2>. QED  BY <1>1, <2>1
<1>4. CASE OverflowReply \/ Acknowledge
  <2>1. msg[1] \in Item
    BY <1>4, MsgHeld DEF OverflowReply, Acknowledge
  <2>2. PICK r \in Reply : send_reply(r)
    BY <1>4, <2>1 DEF OverflowReply, Acknowledge, ReplyTo, Reply, Item
  <2>3. rx' = rx /\ issued' = issued
    BY <1>4 DEF OverflowReply, Acknowledge
  <2>. QED  BY <1>1, <2>2, <2>3, SendReplyNet
<1>5. CASE Drain
  <2>1. net'[s] \in {net[s], << >>}
    <3>1. CASE response_out = << >>
      BY <1>5, <3>1 DEF Drain, chip
    <3>2. CASE response_out # << >>
      <4>1. Head(response_out) \in Reply
        BY <3>2, HeadTailProperties DEF TypeOK, QueueType
      <4>2. send_reply(Head(response_out))
        BY <1>5, <3>2 DEF Drain
      <4>. QED  BY <4>1, <4>2, SendReplyNet
    <3>. QED  BY <3>1, <3>2
  <2>2. rx' = rx /\ issued' = issued
    BY <1>5 DEF Drain
  <2>. QED  BY <1>1, <2>1, <2>2
<1>6. CASE RecvCommand
  <2>1. issued' = issued
    BY <1>6 DEF RecvCommand
  <2>2. CASE s = sn
    <3>1. Window(Stream(s)', Stream(s), 2)
      BY <1>6, <2>2, DecodeWindow DEF Stream
    <3>. QED  BY <2>1, <3>1 DEF Done
  <2>3. CASE s # sn
    <3>1. Stream(s)' = Stream(s)
      BY <1>6, <2>3, DecodeWindow
    <3>2. Window(Stream(s), Stream(s), 0)
      BY StreamType DEF Window
    <3>. QED  BY <2>1, <3>1, <3>2 DEF Done
  <2>. QED  BY <2>2, <2>3
<1>7. CASE RecvFragment
  <2>. DEFINE buf  == Received(sn)
              rest == SubSeq(net[sn], Taken(sn) + 1, Len(net[sn]))
  <2>1. /\ buf \in Seq(Part) /\ rest \in Seq(Part)
        /\ Stream(sn) = buf \o rest
        /\ net' = [net EXCEPT ![sn] = rest]
    BY <1>7, ReceivedIsPrefix DEF RecvFragment
  <2>2. /\ rx' = [rx EXCEPT ![sn] = IF Len(buf) = RxMax THEN << >> ELSE buf]
        /\ issued' = issued
    BY <1>7 DEF RecvFragment
  <2>. HIDE DEF buf, rest
  <2>3. CASE s # sn
    BY <1>1, <2>1, <2>2, <2>3 DEF ChipType, ComsType
  <2>4. CASE s = sn /\ Len(buf) # RxMax
    <3>1. Stream(s)' = Stream(s)
      <4>1. rx'[s] = buf /\ net'[s] = rest
        BY <1>1, <2>1, <2>2, <2>4 DEF ChipType, ComsType
      <4>. QED  BY <2>1, <2>4, <4>1, Zenon DEF Stream
    <3>2. Window(Stream(s), Stream(s), 0)
      BY StreamType DEF Window
    <3>. QED  BY <2>2, <3>1, <3>2 DEF Done
  <2>5. CASE s = sn /\ Len(buf) = RxMax
    <3>. DEFINE n == Len(buf)
    <3>1. n \in 0 .. Len(buf) /\ n \in Nat
      BY <2>1, LenProperties
    <3>2. SubSeq(buf, n + 1, Len(buf)) = << >>
      BY <3>1, SubSeqEmpty
    <3>3. Stream(s)' = SubSeq(buf, n + 1, Len(buf)) \o rest
      <4>1. rx'[s] = << >> /\ net'[s] = rest
        BY <1>1, <2>1, <2>2, <2>5 DEF ChipType, ComsType
      <4>. HIDE DEF n
      <4>. QED  BY <3>2, <4>1, Zenon DEF Stream
    <3>4. Window(Stream(s)', Stream(s), n)
      <4>. HIDE DEF n
      <4>. QED  BY <2>1, <2>5, <3>1, <3>3, TailWindow
    <3>. QED  BY <2>2, <3>1, <3>4 DEF Done
  <2>. QED  BY <2>3, <2>4, <2>5
<1>8. CASE ExecutorTask \/ UNCHANGED vars
  <2>1. Kept /\ issued' = issued
    BY <1>8 DEF ExecutorTask, ExecReceive, ExecAck, ExecRun, vars, chip, coms
  <2>. QED  BY <1>1, <2>1
<1>. QED
  BY <1>2, <1>3, <1>4, <1>5, <1>6, <1>7, <1>8, <1>9 DEF Next, ComsTask

\* A peer that sends appends one new part to the stream of its socket.
LEMMA SentPart ==
    ASSUME TypeOK, NEW t \in Sock, PeerSend(t)
    PROVE  LET k == peer[t]
               p == PartOf(k, issued[k] + 1)
           IN  /\ k \in Conn /\ p \in Part /\ p.cmd.conn = k
               /\ p.half = "head" => 2 * p.cmd.n - 1 = issued[k] + 1
               /\ issued' = [issued EXCEPT ![k] = issued[k] + 1]
               /\ DOMAIN Stream(t)' = 1 .. Len(Stream(t)) + 1
               /\ \A i \in DOMAIN Stream(t) : Stream(t)'[i] = Stream(t)[i]
               /\ Stream(t)'[Len(Stream(t)) + 1] = p
               /\ \A s \in Sock \ {t} : Stream(s)' = Stream(s)
<1>. DEFINE k == peer[t]
            i == issued[k] + 1
            p == PartOf(k, i)
<1>. ChipType /\ PeerType /\ ComsType
  BY DEF TypeOK
<1>1. k \in Conn
  BY DEF PeerSend, ChipType
<1>2. i \in 1 .. 2 * MaxCmds /\ (i + 1) \div 2 \in 1 .. MaxCmds
  BY <1>1 DEF PeerSend, PeerType
<1>3. /\ p \in Part /\ p.cmd.conn = k
      /\ p.half = "head" => 2 * p.cmd.n - 1 = i
  <2>1. p.cmd = [conn |-> k, n |-> (i + 1) \div 2] /\ p.half = IF i % 2 = 1 THEN "head" ELSE "tail"
    BY DEF PartOf
  <2>2. p \in Part
    BY <1>1, <1>2 DEF PartOf, Part, Cmd
  <2>3. i % 2 = 1 => 2 * ((i + 1) \div 2) - 1 = i
    BY <1>2
  <2>. QED  BY <2>1, <2>2, <2>3
<1>4. /\ issued' = [issued EXCEPT ![k] = i]
      /\ net' = [net EXCEPT ![t] = Append(net[t], p)]
      /\ rx' = rx
  BY DEF PeerSend, coms
<1>5. \A s \in Sock \ {t} : Stream(s)' = Stream(s)
  BY <1>4 DEF Stream, ChipType
<1>6. Stream(t)' = Append(Stream(t), p)
  <2>. DEFINE b == rx[t]
              w == net[t]
  <2>1. b \in Seq(Part) /\ w \in Seq(Part) /\ << p >> \in Seq(Part)
    BY <1>3 DEF ChipType, ComsType
  <2>2. Stream(t)' = b \o Append(w, p) /\ Stream(t) = b \o w
    BY <1>4 DEF Stream, ChipType
  <2>. HIDE DEF b, w, p
  <2>3. Append(w, p) = w \o << p >>
    BY <1>3, <2>1, AppendIsConcat
  <2>4. (b \o w) \o << p >> = b \o (w \o << p >>)
    <3>1. Regroups(b, w, << p >>)
      BY <2>1, Regrouped, Zenon
    <3>. QED  BY <3>1, Zenon DEF Regroups
  <2>5. Append(b \o w, p) = (b \o w) \o << p >>
    BY <1>3, <2>1, ConcatProperties, AppendIsConcat
  <2>. QED  BY <2>2, <2>3, <2>4, <2>5
<1>7. /\ DOMAIN Stream(t)' = 1 .. Len(Stream(t)) + 1
      /\ \A j \in DOMAIN Stream(t) : Stream(t)'[j] = Stream(t)[j]
      /\ Stream(t)'[Len(Stream(t)) + 1] = p
  <2>. HIDE DEF p
  <2>1. Stream(t) \in Seq(Part) /\ DOMAIN Stream(t) = 1 .. Len(Stream(t))
    BY StreamType
  <2>2. /\ Append(Stream(t), p) \in Seq(Part)
        /\ Len(Append(Stream(t), p)) = Len(Stream(t)) + 1
        /\ \A j \in 1 .. Len(Stream(t)) : Append(Stream(t), p)[j] = Stream(t)[j]
        /\ Append(Stream(t), p)[Len(Stream(t)) + 1] = p
    BY <1>3, <2>1, AppendProperties
  <2>3. DOMAIN Append(Stream(t), p) = 1 .. Len(Stream(t)) + 1
    BY <2>2, LenProperties
  <2>. QED  BY <1>6, <2>1, <2>2, <2>3
<1>. QED  BY <1>1, <1>3, <1>4, <1>5, <1>7

LEMMA NextHeads ==
    ASSUME TypeOK, HeadsOnce, [Next]_vars
    PROVE  HeadsOnce'
<1>1. CASE \E t \in Sock : PeerSend(t)
  <2>1. PICK t \in Sock : PeerSend(t)
    BY <1>1
  <2>. DEFINE k == peer[t]
              p == PartOf(k, issued[k] + 1)
              n == Len(Stream(t)) + 1
  <2>2. /\ k \in Conn /\ p \in Part /\ p.cmd.conn = k
        /\ p.half = "head" => 2 * p.cmd.n - 1 = issued[k] + 1
        /\ issued' = [issued EXCEPT ![k] = issued[k] + 1]
        /\ DOMAIN Stream(t)' = 1 .. n
        /\ \A i \in DOMAIN Stream(t) : Stream(t)'[i] = Stream(t)[i]
        /\ Stream(t)'[n] = p
        /\ \A s \in Sock \ {t} : Stream(s)' = Stream(s)
    BY <2>1, SentPart
  <2>3. issued[k] \in Nat /\ n \in Nat \ {0} /\ DOMAIN Stream(t) = 1 .. n - 1
    BY <2>2, StreamType DEF TypeOK, PeerType
  <2>. HIDE DEF k, p, n
  <2>4. \A s \in Sock : \A i \in DOMAIN Stream(s)' :
            \/ i \in DOMAIN Stream(s) /\ Stream(s)'[i] = Stream(s)[i]
            \/ s = t /\ i = n /\ Stream(s)'[i] = p
    BY <2>2, <2>3
  <2>5. \A c \in Conn : issued'[c] >= issued[c]
    BY <2>2, <2>3 DEF TypeOK, PeerType
  <2>6. ASSUME NEW s \in Sock, NEW i \in DOMAIN Stream(s), Stream(s)[i].half = "head"
        PROVE  /\ Stream(s)[i] # p
               /\ Stream(s)[i].cmd.n \in Nat /\ Stream(s)[i].cmd.conn \in Conn
    <3>1. Stream(s)[i] \in Part
      BY StreamType, ElementOfSeq
    <3>2. 2 * Stream(s)[i].cmd.n - 1 <= issued[Stream(s)[i].cmd.conn]
      BY <2>6 DEF HeadsOnce
    <3>. QED  BY <2>2, <2>3, <2>6, <3>1, <3>2 DEF Part, Cmd
  <2>7. ASSUME NEW s \in Sock, NEW i \in DOMAIN Stream(s)', Stream(s)'[i].half = "head"
        PROVE  2 * Stream(s)'[i].cmd.n - 1 <= issued'[Stream(s)'[i].cmd.conn]
    <3>1. CASE Stream(s)'[i] = p
      BY <2>2, <2>3, <2>7, <3>1 DEF TypeOK, PeerType
    <3>2. CASE i \in DOMAIN Stream(s) /\ Stream(s)'[i] = Stream(s)[i]
      <4>. DEFINE q == Stream(s)[i]
      <4>1. q.cmd.n \in Nat /\ q.cmd.conn \in Conn /\ 2 * q.cmd.n - 1 <= issued[q.cmd.conn]
        BY <2>6, <2>7, <3>2 DEF HeadsOnce
      <4>2. issued'[q.cmd.conn] >= issued[q.cmd.conn] /\ issued[q.cmd.conn] \in Nat
            /\ issued'[q.cmd.conn] \in Nat
        BY <2>2, <2>3, <2>5, <4>1 DEF TypeOK, PeerType
      <4>3. Stream(s)'[i] = q
        BY <3>2
      <4>. HIDE DEF q
      <4>. QED  BY <4>1, <4>2, <4>3
    <3>. QED  BY <2>4, <3>1, <3>2
  <2>8. ASSUME NEW s \in Sock, NEW i \in DOMAIN Stream(s)', Stream(s)'[i].half = "head",
               NEW u \in Sock, NEW j \in DOMAIN Stream(u)', Stream(u)'[j] = Stream(s)'[i]
        PROVE  u = s /\ j = i
    BY <2>4, <2>6, <2>8 DEF HeadsOnce
  <2>. QED  BY <2>7, <2>8 DEF HeadsOnce
<1>2. CASE ~(\E t \in Sock : PeerSend(t))
  <2>1. \A s \in Sock : \E d \in Nat : Window(Stream(s)', Stream(s), d)
    BY <1>2, StreamsShrink
  <2>2. issued' = issued
    <3>1. 1 \in Sock
      BY DEF Sock
    <3>. QED  BY <1>2, <3>1, StreamsShrink
  <2>3. ASSUME NEW s \in Sock, NEW i \in DOMAIN Stream(s)', Stream(s)'[i].half = "head"
        PROVE  /\ 2 * Stream(s)'[i].cmd.n - 1 <= issued'[Stream(s)'[i].cmd.conn]
               /\ \A t \in Sock : \A j \in DOMAIN Stream(t)' :
                     Stream(t)'[j] = Stream(s)'[i] => t = s /\ j = i
    <3>1. PICK d \in Nat : Window(Stream(s)', Stream(s), d)
      BY <2>1
    <3>2. i + d \in DOMAIN Stream(s) /\ Stream(s)'[i] = Stream(s)[i + d]
      BY <3>1 DEF Window
    <3>3. 2 * Stream(s)'[i].cmd.n - 1 <= issued'[Stream(s)'[i].cmd.conn]
      BY <2>2, <2>3, <3>2 DEF HeadsOnce
    <3>4. ASSUME NEW t \in Sock, NEW j \in DOMAIN Stream(t)', Stream(t)'[j] = Stream(s)'[i]
          PROVE  t = s /\ j = i
      <4>1. PICK e \in Nat : Window(Stream(t)', Stream(t), e) /\ (t = s => e = d)
        BY <2>1, <3>1
      <4>2. j + e \in DOMAIN Stream(t) /\ Stream(t)[j + e] = Stream(s)[i + d]
        BY <3>2, <3>4, <4>1 DEF Window
      <4>3. Stream(s)[i + d].half = "head"
        BY <2>3, <3>2
      <4>4. t = s /\ j + e = i + d
        BY <3>2, <4>2, <4>3 DEF HeadsOnce
      <4>5. i \in Nat /\ j \in Nat
        BY <3>4, StreamRanks
      <4>. QED  BY <4>1, <4>4, <4>5
    <3>. QED  BY <3>3, <3>4
  <2>. QED  BY <2>3 DEF HeadsOnce
<1>. QED  BY <1>1, <1>2

\* A head that is in no stream never comes back.
LEMMA DecodedForever ==
    ASSUME TypeOK, [Next]_vars, NEW c \in Cmd, Decoded(c)
    PROVE  Decoded(c)'
<1>. c.conn \in Conn /\ c.n \in Nat
  BY DEF Cmd
<1>1. CASE \E t \in Sock : PeerSend(t)
  <2>1. PICK t \in Sock : PeerSend(t)
    BY <1>1
  <2>. DEFINE k == peer[t]
              p == PartOf(k, issued[k] + 1)
              n == Len(Stream(t)) + 1
  <2>2. /\ k \in Conn /\ p \in Part /\ p.cmd.conn = k
        /\ p.half = "head" => 2 * p.cmd.n - 1 = issued[k] + 1
        /\ issued' = [issued EXCEPT ![k] = issued[k] + 1]
        /\ DOMAIN Stream(t)' = 1 .. n
        /\ \A i \in DOMAIN Stream(t) : Stream(t)'[i] = Stream(t)[i]
        /\ Stream(t)'[n] = p
        /\ \A s \in Sock \ {t} : Stream(s)' = Stream(s)
    BY <2>1, SentPart
  <2>3. issued[k] \in Nat /\ n \in Nat \ {0} /\ DOMAIN Stream(t) = 1 .. n - 1
    BY <2>2, StreamType DEF TypeOK, PeerType
  <2>. HIDE DEF k, p, n
  <2>4. 2 * c.n - 1 <= issued'[c.conn]
    BY <2>2, <2>3 DEF Decoded, TypeOK, PeerType
  <2>5. p # HeadOf(c)
    BY <2>2, <2>3 DEF Decoded, HeadOf
  <2>6. ASSUME NEW s \in Sock, NEW i \in DOMAIN Stream(s)'
        PROVE  Stream(s)'[i] # HeadOf(c)
    <3>1. \/ i \in DOMAIN Stream(s) /\ Stream(s)'[i] = Stream(s)[i]
          \/ Stream(s)'[i] = p
      BY <2>2, <2>3
    <3>. QED  BY <2>5, <3>1 DEF Decoded, HeadIn
  <2>. QED  BY <2>4, <2>6 DEF Decoded, HeadIn
<1>2. CASE ~(\E t \in Sock : PeerSend(t))
  <2>1. \A s \in Sock : \E d \in Nat : Window(Stream(s)', Stream(s), d)
    BY <1>2, StreamsShrink
  <2>2. issued' = issued
    <3>1. 1 \in Sock
      BY DEF Sock
    <3>. QED  BY <1>2, <3>1, StreamsShrink
  <2>3. ASSUME NEW s \in Sock, NEW i \in DOMAIN Stream(s)'
        PROVE  Stream(s)'[i] # HeadOf(c)
    BY <2>1 DEF Window, Decoded, HeadIn
  <2>. QED  BY <2>2, <2>3 DEF Decoded, HeadIn
<1>. QED  BY <1>1, <1>2

\* The command a receive decodes was in a stream, and is in none afterwards.
LEMMA DecodedNow ==
    ASSUME TypeOK, HeadsOnce, [Next]_vars, RecvCommand, NEW c, c = msg'[1].cmd
    PROVE  c \in Cmd /\ ~Decoded(c) /\ Decoded(c)'
<1>. sn \in Sock
  BY DEF TypeOK, ComsType
<1>1. /\ Window(Stream(sn)', Stream(sn), 2) /\ sn' = sn
      /\ \A s \in Sock \ {sn} : Stream(s)' = Stream(s)
      /\ c \in Cmd /\ Stream(sn)[1] = HeadOf(c)
      /\ 1 \in DOMAIN Stream(sn)
  BY DecodeWindow
<1>2. ~Decoded(c)
  BY <1>1 DEF Decoded, HeadIn
<1>3. Stream(sn)[1].half = "head" /\ Stream(sn)[1].cmd = c
  BY <1>1 DEF HeadOf
<1>4. 2 * c.n - 1 <= issued[c.conn]
  BY <1>1, <1>3 DEF HeadsOnce
<1>5. ASSUME NEW s \in Sock, NEW i \in DOMAIN Stream(s)', Stream(s)'[i] = HeadOf(c)
      PROVE  FALSE
  <2>1. CASE s # sn
    <3>1. i \in DOMAIN Stream(s) /\ Stream(s)[i] = Stream(sn)[1]
      BY <1>1, <1>5, <2>1
    <3>. QED  BY <1>1, <1>3, <2>1, <3>1 DEF HeadsOnce
  <2>2. CASE s = sn
    <3>1. Window(Stream(s)', Stream(s), 2)
      BY <1>1, <2>2 DEF Stream
    <3>2. i + 2 \in DOMAIN Stream(sn) /\ Stream(sn)[i + 2] = Stream(sn)[1]
      BY <1>1, <1>5, <2>2, <3>1 DEF Window
    <3>3. i + 2 = 1
      BY <1>1, <1>3, <3>2 DEF HeadsOnce
    <3>4. i \in Nat
      BY <1>5, StreamRanks
    <3>. QED  BY <3>3, <3>4
  <2>. QED  BY <2>1, <2>2
<1>6. issued' = issued
  BY DEF RecvCommand
<1>. QED  BY <1>1, <1>2, <1>4, <1>5, <1>6 DEF Decoded, HeadIn

----------------------------------------------------------------------------
(* What a step does to the commands and to their replies.                  *)

\* Reply r is appended to what its socket's connection has received, or lost.
Transmits(r) ==
    \A k \in Conn :
        /\ \A i \in DOMAIN out[k] : i \in DOMAIN out'[k] /\ out'[k][i] = out[k][i]
        /\ \A i \in DOMAIN out'[k] :
              \/ i \in DOMAIN out[k]
              \/ /\ out'[k][i] = r /\ k = peer[r.sn]
                 /\ \A j \in DOMAIN out[k] : j < i
                 /\ \A j \in DOMAIN out'[k] : ~(i < j)

\* No command and no reply moves on.
Quiet ==
    /\ UNCHANGED <<out, response_out, accepted, executed, msg>>
    /\ Progress' = Progress
    /\ cpc' = "ack" <=> cpc = "ack"

Takes ==
    /\ RecvCommand /\ cpc' # "ack" /\ msg' # << >>
    /\ UNCHANGED <<out, response_out, accepted, executed>>
    /\ Progress' = Progress

Accepts ==
    /\ cpc = "offer" /\ cpc' = "ack" /\ msg # << >>
    /\ Len(command_in) < QLen
    /\ accepted' = Append(accepted, msg[1])
    /\ UNCHANGED <<out, response_out, executed, msg>>
    /\ Progress' = Progress

Answers(r) ==
    /\ msg # << >> /\ msg' = << >> /\ r.cmd = msg[1].cmd
    /\ r.sn = msg[1].sn /\ r.from = "coms"
    /\ r.type = IF cpc = "ack" THEN "ACK" ELSE "ERROR"
    /\ Transmits(r)
    /\ UNCHANGED <<response_out, accepted, executed>>
    /\ Progress' = Progress

Forwards(r) ==
    /\ response_out # << >> /\ r = Head(response_out)
    /\ response_out' = Tail(response_out)
    /\ Transmits(r)
    /\ msg = << >> /\ msg' = << >>
    /\ UNCHANGED <<accepted, executed>>
    /\ Progress' = Progress

Responds(r) ==
    /\ epc # "receive" /\ r.from = "executor" /\ r.cmd = cmd[1].cmd /\ r.sn = cmd[1].sn
    /\ response_out' \in {response_out, Append(response_out, r)}
    /\ Len(executed) + 1 \in DOMAIN accepted
    /\ accepted[Len(executed) + 1] = cmd[1]
    /\ Place(r, Len(executed) + 1) = Progress + 1
    /\ Progress' = Progress + 1
    /\ executed' = IF epc = "run" THEN Append(executed, cmd[1]) ELSE executed
    /\ UNCHANGED <<out, accepted, msg, cpc>>

LEMMA SendReplyTransmits ==
    ASSUME TypeOK, NEW r \in Reply, send_reply(r)
    PROVE  Transmits(r)
<1>. ChipType /\ PastType /\ r.sn \in Sock
  BY DEF TypeOK, Reply
<1>1. CASE SR[r.sn] = "ESTABLISHED" /\ unacked[r.sn] < TxMax /\ ~is_sending[r.sn]
  <2>. DEFINE h == peer[r.sn]
              q == Append(out[h], r)
  <2>1. h \in Conn
    BY <1>1 DEF ChipType
  <2>2. out' = [out EXCEPT ![h] = q]
    BY <1>1 DEF send_reply
  <2>3. out[h] \in Seq(Reply)
    BY <2>1 DEF PastType
  <2>4. /\ Len(out[h]) \in Nat /\ DOMAIN out[h] = 1 .. Len(out[h])
        /\ DOMAIN q = 1 .. Len(out[h]) + 1
        /\ \A i \in 1 .. Len(out[h]) : q[i] = out[h][i]
        /\ q[Len(out[h]) + 1] = r
    <3>1. /\ q \in Seq(Reply) /\ Len(q) = Len(out[h]) + 1
          /\ \A i \in 1 .. Len(out[h]) : q[i] = out[h][i]
          /\ q[Len(out[h]) + 1] = r
      BY <2>3, AppendProperties
    <3>. QED  BY <2>3, <3>1, LenProperties
  <2>5. out'[h] = q /\ \A k \in Conn \ {h} : out'[k] = out[k]
    BY <2>1, <2>2 DEF PastType
  <2>. DEFINE n == Len(out[h])
              o == out[h]
  <2>. HIDE DEF q, n, o
  <2>6. /\ \A i \in DOMAIN out[h] : i \in DOMAIN q /\ q[i] = out[h][i]
        /\ \A i \in DOMAIN q : \/ i \in DOMAIN out[h]
                               \/ /\ q[i] = r /\ \A j \in DOMAIN out[h] : j < i
                                  /\ \A j \in DOMAIN q : ~(i < j)
    <3>1. /\ n \in Nat /\ DOMAIN o = 1 .. n /\ DOMAIN q = 1 .. n + 1
          /\ \A i \in 1 .. n : q[i] = o[i]
          /\ q[n + 1] = r
      BY <2>4 DEF n, o
    <3>2. \A i \in DOMAIN o : i \in DOMAIN q /\ q[i] = o[i]
      BY <3>1
    <3>3. \A i \in DOMAIN q : i \in DOMAIN o \/ i = n + 1
      BY <3>1
    <3>4. (\A j \in DOMAIN o : j < n + 1) /\ \A j \in DOMAIN q : ~(n + 1 < j)
      BY <3>1
    <3>. QED  BY <3>1, <3>2, <3>3, <3>4 DEF o
  <2>. QED  BY <2>5, <2>6 DEF Transmits
<1>2. CASE ~(SR[r.sn] = "ESTABLISHED" /\ unacked[r.sn] < TxMax /\ ~is_sending[r.sn])
  <2>1. out' = out
    BY <1>2 DEF send_reply
  <2>. QED  BY <2>1 DEF Transmits
<1>. QED  BY <1>1, <1>2

\* The command in executor_task's hands is the first one not yet executed.
LEMMA InHand ==
    ASSUME TypeOK, Fifo, epc # "receive"
    PROVE  /\ cmd[1] \in Item /\ Len(executed) \in Nat
           /\ Len(executed) + 1 \in DOMAIN accepted
           /\ accepted[Len(executed) + 1] = cmd[1]
<1>1. /\ executed \in Seq(Item) /\ cmd \in Seq(Item) /\ command_in \in Seq(Item)
      /\ Len(cmd) = 1
  BY DEF TypeOK, PastType, ExecType, QueueType
<1>2. cmd[1] \in Item
  BY <1>1, Singleton
<1>3. /\ executed \o cmd \in Seq(Item)
      /\ Len(executed \o cmd) = Len(executed) + 1
      /\ (executed \o cmd)[Len(executed) + 1] = cmd[1]
  <2>1. /\ executed \o cmd \in Seq(Item)
        /\ Len(executed \o cmd) = Len(executed) + Len(cmd)
        /\ \A i \in 1 .. Len(executed) + Len(cmd) :
              (executed \o cmd)[i] = IF i <= Len(executed) THEN executed[i]
                                     ELSE cmd[i - Len(executed)]
    BY <1>1, ConcatProperties
  <2>2. Len(executed) \in Nat
    BY <1>1
  <2>3. (Len(executed) + 1) - Len(executed) = 1 /\ Len(executed) + 1 \in 1 .. Len(executed) + 1
    BY <2>2
  <2>. QED  BY <1>1, <2>1, <2>2, <2>3
<1>. DEFINE b == executed \o cmd
<1>. HIDE DEF b
<1>4. /\ b \o command_in \in Seq(Item)
      /\ Len(b \o command_in) = Len(b) + Len(command_in)
      /\ \A i \in 1 .. Len(b) + Len(command_in) :
            (b \o command_in)[i] = IF i <= Len(b) THEN b[i] ELSE command_in[i - Len(b)]
  BY <1>1, <1>3, ConcatProperties DEF b
<1>5. accepted = b \o command_in
  BY DEF Fifo, b
<1>6. Len(executed) \in Nat /\ Len(command_in) \in Nat
  BY <1>1
<1>7. DOMAIN accepted = 1 .. Len(b) + Len(command_in)
  BY <1>4, <1>5, LenProperties
<1>8. Len(b) = Len(executed) + 1 /\ b[Len(executed) + 1] = cmd[1]
  BY <1>3 DEF b
<1>. QED  BY <1>2, <1>4, <1>5, <1>6, <1>7, <1>8

LEMMA StepKinds ==
    ASSUME TypeOK, Fifo, [Next]_vars
    PROVE  \/ Quiet \/ Takes \/ Accepts
           \/ \E r \in Reply : Answers(r) \/ Forwards(r) \/ Responds(r)
<1>. /\ ChipType /\ ComsType /\ QueueType /\ ExecType /\ PastType
     /\ executed \in Seq(Item) /\ Len(executed) \in Nat
  BY DEF TypeOK, PastType
<1>1. CASE Environment
  <2>1. UNCHANGED <<coms, queue, exec, past, out>>
    BY <1>1 DEF Environment, Connect, PeerSend, PeerFin, ConnectionEnds, ChipSendOk, PeerAck
  <2>. QED  BY <2>1 DEF Quiet, Progress, coms, queue, exec, past
<1>11. CASE Reopen \/ OverflowDisconnect
  <2>1. UNCHANGED <<cpc, msg, queue, exec, past, out>>
    BY <1>11 DEF Reopen, OverflowDisconnect, coms
  <2>. QED  BY <2>1 DEF Quiet, Progress, queue, exec, past
<1>2. CASE OpenSocket \/ SkipSocket \/ EnterRecv \/ RecvFragment \/ RecvClosed \/ OverflowClose
  <2>1. UNCHANGED <<queue, exec, past, out, msg>>
    BY <1>2 DEF OpenSocket, SkipSocket, EnterRecv, RecvFragment, RecvClosed, OverflowClose
  <2>2. cpc # "ack" /\ cpc' # "ack"
    BY <1>2 DEF OpenSocket, SkipSocket, EnterRecv, RecvFragment, RecvReturnsData,
                RecvClosed, OverflowClose, NextSocket, AfterNoCommand
  <2>. QED  BY <2>1, <2>2 DEF Quiet, Progress, queue, exec, past
<1>3. CASE RecvCommand
  <2>1. UNCHANGED <<queue, exec, past, out>> /\ cpc' # "ack" /\ msg' # << >>
    BY <1>3 DEF RecvCommand
  <2>. QED  BY <1>3, <2>1 DEF Takes, Progress, queue, exec, past
<1>4. CASE OverflowReply \/ Acknowledge
  <2>. DEFINE r == ReplyTo(msg[1], IF cpc = "ack" THEN "ACK" ELSE "ERROR", "coms")
  <2>1. msg[1] \in Item /\ msg # << >>
    BY <1>4, MsgHeld DEF OverflowReply, Acknowledge, ComsType
  <2>2. r \in Reply
    BY <2>1 DEF ReplyTo, Reply, Item
  <2>3. send_reply(r) /\ msg' = << >>
    BY <1>4 DEF OverflowReply, Acknowledge
  <2>4. UNCHANGED <<queue, exec, past>>
    BY <1>4 DEF OverflowReply, Acknowledge
  <2>5. /\ r.cmd = msg[1].cmd /\ r.sn = msg[1].sn /\ r.from = "coms"
        /\ r.type = IF cpc = "ack" THEN "ACK" ELSE "ERROR"
    BY DEF ReplyTo
  <2>. HIDE DEF r
  <2>6. Transmits(r)
    BY <2>2, <2>3, SendReplyTransmits
  <2>. QED
    BY <2>1, <2>2, <2>3, <2>4, <2>5, <2>6 DEF Answers, Progress, queue, exec, past
<1>5. CASE Offer
  <2>1. msg # << >>
    <3>1. cpc = "offer"
      BY <1>5 DEF Offer
    <3>2. msg \in Seq(Item) /\ Len(msg) = 1
      BY <3>1 DEF ComsType
    <3>. QED  BY <3>2
  <2>. QED  BY <1>5, <2>1 DEF Offer, Accepts, Quiet, Progress, exec
<1>6. CASE Drain
  <2>1. /\ cpc = "drain" /\ cpc' = "poll" /\ msg' = msg
        /\ UNCHANGED <<exec, past>>
    BY <1>6 DEF Drain
  <2>2. CASE response_out = << >>
    BY <1>6, <2>1, <2>2 DEF Drain, Quiet, Progress, exec, past
  <2>3. CASE response_out # << >>
    <3>1. Head(response_out) \in Reply
      BY <2>3, HeadTailProperties DEF QueueType
    <3>2. send_reply(Head(response_out)) /\ response_out' = Tail(response_out)
      BY <1>6, <2>3 DEF Drain
    <3>3. Transmits(Head(response_out))
      BY <3>1, <3>2, SendReplyTransmits
    <3>4. msg = << >>
      BY <2>1, EmptySeq DEF ComsType
    <3>. QED
      BY <2>1, <2>3, <3>1, <3>2, <3>3, <3>4 DEF Forwards, Progress, exec, past
  <2>. QED  BY <2>2, <2>3
<1>7. CASE ExecReceive
  BY <1>7 DEF ExecReceive, Quiet, Progress, coms, past
<1>8. CASE ExecAck
  <2>. DEFINE r == ReplyTo(cmd[1], "ACK", "executor")
  <2>1. /\ cmd[1] \in Item /\ Len(executed) + 1 \in DOMAIN accepted
        /\ accepted[Len(executed) + 1] = cmd[1]
    BY <1>8, InHand DEF ExecAck
  <2>2. r \in Reply /\ r.cmd = cmd[1].cmd /\ r.sn = cmd[1].sn
        /\ r.from = "executor" /\ r.type = "ACK"
    BY <2>1 DEF ReplyTo, Reply, Item
  <2>3. Respond(r) /\ epc = "ack" /\ epc' = "run" /\ UNCHANGED <<coms, past, out>>
    BY <1>8 DEF ExecAck
  <2>. HIDE DEF r
  <2>4. Place(r, Len(executed) + 1) = Progress + 1 /\ Progress' = Progress + 1
    BY <2>2, <2>3 DEF Place, Progress, past
  <2>. QED  BY <2>1, <2>2, <2>3, <2>4 DEF Responds, Respond, coms, past
<1>9. CASE ExecRun
  <2>1. PICK type \in {"RESPONSE", "ERROR"} : Respond(ReplyTo(cmd[1], type, "executor"))
    BY <1>9 DEF ExecRun
  <2>. DEFINE r == ReplyTo(cmd[1], type, "executor")
  <2>2. /\ cmd[1] \in Item /\ Len(executed) + 1 \in DOMAIN accepted
        /\ accepted[Len(executed) + 1] = cmd[1]
    BY <1>9, InHand DEF ExecRun
  <2>3. r \in Reply /\ r.cmd = cmd[1].cmd /\ r.sn = cmd[1].sn
        /\ r.from = "executor" /\ r.type # "ACK"
    BY <2>2 DEF ReplyTo, Reply, Item
  <2>4. /\ epc = "run" /\ epc' = "receive" /\ executed' = Append(executed, cmd[1])
        /\ UNCHANGED <<coms, accepted, out>>
    BY <1>9 DEF ExecRun
  <2>5. Respond(r)
    BY <2>1
  <2>. HIDE DEF r
  <2>6. Len(executed') = Len(executed) + 1
    BY <2>2, <2>4, AppendProperties
  <2>7. Place(r, Len(executed) + 1) = Progress + 1 /\ Progress' = Progress + 1
    BY <2>3, <2>4, <2>6 DEF Place, Progress
  <2>. QED  BY <2>2, <2>3, <2>4, <2>5, <2>7 DEF Responds, Respond, coms
<1>10. CASE UNCHANGED vars
  BY <1>10 DEF vars, Quiet, Progress, coms, queue, exec, past
<1>. QED
  BY <1>1, <1>2, <1>3, <1>4, <1>5, <1>6, <1>7, <1>8, <1>9, <1>10, <1>11
  DEF Next, ComsTask, ExecutorTask

----------------------------------------------------------------------------
(* OrderInv is inductive: one lemma per conjunct.                          *)

\* Accepted commands keep their rank, and what the executor did stays done.
LEMMA Growth ==
    ASSUME TypeOK, Fifo, [Next]_vars
    PROVE  /\ \A a \in DOMAIN accepted : a \in DOMAIN accepted' /\ accepted'[a] = accepted[a]
           /\ Progress <= Progress'
           /\ Progress \in Nat
           /\ DOMAIN accepted = 1 .. Len(accepted) /\ Len(accepted) \in Nat
<1>1. Progress \in Nat
  BY DEF Progress, TypeOK, PastType
<1>2. accepted \in Seq(Item) /\ DOMAIN accepted = 1 .. Len(accepted) /\ Len(accepted) \in Nat
  BY LenProperties DEF TypeOK, PastType
<1>3. CASE Accepts
  <2>1. msg[1] \in Item /\ accepted' = Append(accepted, msg[1])
    BY <1>3, MsgHeld DEF Accepts, TypeOK
  <2>2. /\ accepted' \in Seq(Item) /\ Len(accepted') = Len(accepted) + 1
        /\ \A a \in 1 .. Len(accepted) : accepted'[a] = accepted[a]
    BY <1>2, <2>1, AppendProperties
  <2>3. DOMAIN accepted' = 1 .. Len(accepted) + 1
    BY <2>2, LenProperties
  <2>. QED  BY <1>1, <1>2, <1>3, <2>2, <2>3 DEF Accepts
<1>4. CASE ~Accepts
  <2>1. accepted' = accepted /\ Progress' \in {Progress, Progress + 1}
    BY <1>4, StepKinds DEF Quiet, Takes, Answers, Forwards, Responds
  <2>. QED  BY <1>1, <1>2, <2>1
<1>. QED  BY <1>3, <1>4

LEMMA StaysMade ==
    ASSUME TypeOK, Fifo, [Next]_vars, NEW r, Made(r, accepted, Progress)
    PROVE  Made(r, accepted', Progress')
<1>1. PICK a \in DOMAIN accepted : accepted[a].cmd = r.cmd /\ Place(r, a) <= Progress
  BY DEF Made
<1>2. /\ a \in DOMAIN accepted' /\ accepted'[a] = accepted[a] /\ a \in Nat
      /\ Progress \in Nat /\ Progress' >= Progress /\ Progress' \in Int
  BY <1>1, Growth, StepKinds DEF Quiet, Takes, Accepts, Answers, Forwards, Responds
<1>3. Place(r, a) \in Int
  BY <1>2 DEF Place
<1>4. Place(r, a) <= Progress'
  BY <1>1, <1>2, <1>3
<1>. QED  BY <1>1, <1>2, <1>4 DEF Made, Place

LEMMA StaysBefore ==
    ASSUME TypeOK, Fifo, [Next]_vars, NEW r, NEW q, Before(r, q, accepted)
    PROVE  Before(r, q, accepted')
<1>1. PICK a, b \in DOMAIN accepted :
        accepted[a].cmd = r.cmd /\ accepted[b].cmd = q.cmd /\ Place(r, a) < Place(q, b)
  BY DEF Before
<1>2. /\ a \in DOMAIN accepted' /\ accepted'[a] = accepted[a]
      /\ b \in DOMAIN accepted' /\ accepted'[b] = accepted[b]
  BY <1>1, Growth
<1>. QED  BY <1>1, <1>2 DEF Before, Place

\* A new response comes after whatever the executor has made before.
LEMMA NewestResponse ==
    ASSUME TypeOK, Fifo, [Next]_vars, NEW r, Responds(r),
           NEW q, Made(q, accepted, Progress)
    PROVE  Before(q, r, accepted') /\ Made(r, accepted', Progress')
<1>. DEFINE e == Len(executed) + 1
<1>1. /\ e \in DOMAIN accepted /\ accepted[e].cmd = r.cmd /\ accepted' = accepted
      /\ Place(r, e) = Progress + 1 /\ Progress' = Progress + 1 /\ Progress \in Nat
  BY Growth DEF Responds
<1>2. PICK a \in DOMAIN accepted : accepted[a].cmd = q.cmd /\ Place(q, a) <= Progress
  BY DEF Made
<1>3. Place(q, a) \in Int
  BY <1>2, Growth DEF Place
<1>. HIDE DEF e
<1>4. Place(q, a) < Place(r, e) /\ Place(r, e) <= Progress'
  BY <1>1, <1>2, <1>3
<1>. QED  BY <1>1, <1>2, <1>4 DEF Before, Made

LEMMA StaysAccepted ==
    ASSUME TypeOK, Fifo, [Next]_vars, NEW c
    PROVE  /\ CmdIn(c, accepted) => CmdIn(c, accepted')
           /\ CmdIn(c, accepted') => CmdIn(c, accepted) \/ (Accepts /\ c = msg[1].cmd)
<1>1. CmdIn(c, accepted) => CmdIn(c, accepted')
  BY Growth DEF CmdIn
<1>2. CASE Accepts
  <2>1. msg[1] \in Item /\ accepted' = Append(accepted, msg[1]) /\ accepted \in Seq(Item)
    BY <1>2, MsgHeld DEF Accepts, TypeOK, PastType
  <2>2. /\ accepted' \in Seq(Item) /\ Len(accepted') = Len(accepted) + 1
        /\ \A a \in 1 .. Len(accepted) : accepted'[a] = accepted[a]
        /\ accepted'[Len(accepted) + 1] = msg[1]
    BY <2>1, AppendProperties
  <2>3. DOMAIN accepted' = 1 .. Len(accepted) + 1 /\ DOMAIN accepted = 1 .. Len(accepted)
        /\ Len(accepted) \in Nat
    BY <2>1, <2>2, LenProperties
  <2>. QED  BY <1>1, <1>2, <2>2, <2>3 DEF CmdIn
<1>3. CASE ~Accepts
  <2>1. accepted' = accepted
    BY <1>3, StepKinds DEF Quiet, Takes, Answers, Forwards, Responds
  <2>. QED  BY <2>1 DEF CmdIn
<1>. QED  BY <1>2, <1>3

\* A response in the queue answers an accepted command.
LEMMA ResponseAccepted ==
    ASSUME TypeOK, ResponsesInOrder, response_out # << >>
    PROVE  /\ Head(response_out) = response_out[1] /\ 1 \in DOMAIN response_out
           /\ Head(response_out).from = "executor"
           /\ CmdIn(Head(response_out).cmd, accepted)
<1>1. /\ Head(response_out) = response_out[1]
      /\ 1 \in DOMAIN response_out
  BY EmptySeq, LenProperties DEF TypeOK, QueueType
<1>2. response_out[1].from = "executor" /\ Made(response_out[1], accepted, Progress)
  BY <1>1 DEF ResponsesInOrder
<1>. QED  BY <1>1, <1>2 DEF Made, CmdIn

LEMMA AnsweredBy ==
    ASSUME TypeOK, Fifo, ResponsesInOrder, [Next]_vars, NEW c
    PROVE  AnsweredIn(c, out') =>
              \/ AnsweredIn(c, out)
              \/ \E r \in Reply : Answers(r) /\ c = msg[1].cmd
              \/ CmdIn(c, accepted)
<1>1. CASE UNCHANGED out
  BY <1>1 DEF AnsweredIn, CmdIn
<1>2. ASSUME NEW r \in Reply, Answers(r), AnsweredIn(c, out')
      PROVE  AnsweredIn(c, out) \/ c = msg[1].cmd
  BY <1>2 DEF Answers, Transmits, AnsweredIn, CmdIn
<1>3. ASSUME NEW r \in Reply, Forwards(r), AnsweredIn(c, out')
      PROVE  AnsweredIn(c, out) \/ CmdIn(c, accepted)
  BY <1>3, ResponseAccepted DEF Forwards, Transmits, AnsweredIn, CmdIn
<1>. QED
  BY <1>1, <1>2, <1>3, StepKinds DEF Quiet, Takes, Accepts, Responds

LEMMA NextDecodedOnce ==
    ASSUME TypeOK, Fifo, OrderInv, [Next]_vars
    PROVE  DecodedOnce'
<1>. HeadsOnce /\ DecodedOnce /\ ResponsesInOrder
  BY DEF OrderInv
<1>. SUFFICES ASSUME NEW c \in Cmd, InMsg(c)' \/ CmdIn(c, accepted') \/ AnsweredIn(c, out')
              PROVE  Decoded(c)'
  BY DEF DecodedOnce
<1>1. InMsg(c)' => InMsg(c) \/ (Takes /\ c = msg'[1].cmd)
  BY StepKinds DEF InMsg, Quiet, Takes, Accepts, Answers, Forwards, Responds
<1>2. CmdIn(c, accepted') => CmdIn(c, accepted) \/ InMsg(c)
  BY StaysAccepted DEF Accepts, InMsg
<1>3. AnsweredIn(c, out') => AnsweredIn(c, out) \/ InMsg(c) \/ CmdIn(c, accepted)
  BY AnsweredBy DEF Answers, InMsg
<1>4. CASE InMsg(c) \/ CmdIn(c, accepted) \/ AnsweredIn(c, out)
  BY <1>4, DecodedForever DEF DecodedOnce
<1>5. CASE Takes /\ c = msg'[1].cmd
  BY <1>5, DecodedNow DEF Takes
<1>. QED  BY <1>1, <1>2, <1>3, <1>4, <1>5

LEMMA NextMsgUnanswered ==
    ASSUME TypeOK, Fifo, OrderInv, [Next]_vars
    PROVE  MsgUnanswered'
<1>. /\ HeadsOnce /\ DecodedOnce /\ ResponsesInOrder /\ MsgUnanswered
  BY DEF OrderInv
<1>1. CASE Takes
  <2>. DEFINE c == msg'[1].cmd
  <2>1. c \in Cmd /\ ~Decoded(c)
    BY <1>1, DecodedNow DEF Takes
  <2>2. ~CmdIn(c, accepted) /\ ~AnsweredIn(c, out)
    BY <2>1 DEF DecodedOnce
  <2>3. ~CmdIn(c, accepted') /\ ~AnsweredIn(c, out')
    BY <1>1, <2>2 DEF Takes, CmdIn, AnsweredIn
  <2>. QED  BY <1>1, <2>3 DEF Takes, MsgUnanswered, CmdIn, AnsweredIn
<1>2. CASE Accepts
  <2>1. CmdIn(msg[1].cmd, accepted')
    <3>1. msg[1] \in Item /\ accepted' = Append(accepted, msg[1]) /\ accepted \in Seq(Item)
      BY <1>2, MsgHeld DEF Accepts, TypeOK, PastType
    <3>2. /\ accepted' \in Seq(Item) /\ Len(accepted') = Len(accepted) + 1
          /\ accepted'[Len(accepted) + 1] = msg[1] /\ Len(accepted) \in Nat
      BY <3>1, AppendProperties
    <3>3. Len(accepted) + 1 \in DOMAIN accepted'
      BY <3>2, LenProperties
    <3>. QED  BY <1>2, <3>2, <3>3 DEF CmdIn, Accepts
  <2>. QED  BY <1>2, <2>1 DEF Accepts, MsgUnanswered, CmdIn, AnsweredIn
<1>3. ASSUME NEW r \in Reply, Answers(r) \/ Forwards(r)
      PROVE  MsgUnanswered'
  BY <1>3 DEF Answers, Forwards, MsgUnanswered
<1>4. ASSUME NEW r \in Reply, Responds(r)
      PROVE  MsgUnanswered'
  BY <1>4 DEF Responds, MsgUnanswered, CmdIn, AnsweredIn
<1>5. CASE Quiet
  BY <1>5 DEF Quiet, MsgUnanswered, CmdIn, AnsweredIn
<1>. QED  BY <1>1, <1>2, <1>3, <1>4, <1>5, StepKinds

LEMMA NextAcceptedOnce ==
    ASSUME TypeOK, Fifo, OrderInv, [Next]_vars
    PROVE  AcceptedOnce'
<1>. AcceptedOnce /\ MsgUnanswered
  BY DEF OrderInv
<1>1. CASE Accepts
  <2>1. msg[1] \in Item /\ accepted' = Append(accepted, msg[1]) /\ accepted \in Seq(Item)
    BY <1>1, MsgHeld DEF Accepts, TypeOK, PastType
  <2>2. /\ accepted' \in Seq(Item) /\ Len(accepted') = Len(accepted) + 1
        /\ \A a \in 1 .. Len(accepted) : accepted'[a] = accepted[a]
        /\ accepted'[Len(accepted) + 1] = msg[1]
    BY <2>1, AppendProperties
  <2>3. /\ DOMAIN accepted' = 1 .. Len(accepted) + 1 /\ DOMAIN accepted = 1 .. Len(accepted)
        /\ Len(accepted) \in Nat
    BY <2>1, <2>2, LenProperties
  <2>4. \A a \in DOMAIN accepted : accepted[a].cmd # msg[1].cmd
    BY <1>1 DEF Accepts, MsgUnanswered, CmdIn
  <2>. QED  BY <2>2, <2>3, <2>4 DEF AcceptedOnce
<1>2. CASE ~Accepts
  <2>1. accepted' = accepted
    BY <1>2, StepKinds DEF Quiet, Takes, Answers, Forwards, Responds
  <2>. QED  BY <2>1 DEF AcceptedOnce
<1>. QED  BY <1>1, <1>2

LEMMA NextComsRepliesOnce ==
    ASSUME TypeOK, Fifo, OrderInv, [Next]_vars
    PROVE  ComsRepliesOnce'
<1>. /\ MsgUnanswered /\ ComsRepliesOnce /\ ResponsesInOrder
  BY DEF OrderInv
<1>. SUFFICES ASSUME NEW k \in Conn, NEW i \in DOMAIN out'[k], out'[k][i].from = "coms"
              PROVE  /\ out'[k][i].type \in {"ACK", "ERROR"}
                     /\ CmdIn(out'[k][i].cmd, accepted') <=> out'[k][i].type = "ACK"
  BY DEF ComsRepliesOnce, CmdIn
<1>1. CASE i \in DOMAIN out[k] /\ out'[k][i] = out[k][i]
  <2>. DEFINE r == out[k][i]
  <2>1. r.type \in {"ACK", "ERROR"} /\ (CmdIn(r.cmd, accepted) <=> r.type = "ACK")
    BY <1>1 DEF ComsRepliesOnce
  <2>2. AnsweredIn(r.cmd, out)
    BY <1>1 DEF AnsweredIn, CmdIn
  <2>3. CmdIn(r.cmd, accepted') <=> CmdIn(r.cmd, accepted)
    <3>1. ~(Accepts /\ r.cmd = msg[1].cmd)
      BY <2>2 DEF Accepts, MsgUnanswered
    <3>. HIDE DEF r
    <3>. QED  BY <3>1, StaysAccepted
  <2>. QED  BY <1>1, <2>1, <2>3 DEF CmdIn
<1>2. ASSUME NEW r \in Reply, Answers(r), out'[k][i] = r
      PROVE  /\ r.type \in {"ACK", "ERROR"}
             /\ CmdIn(r.cmd, accepted') <=> r.type = "ACK"
  BY <1>2 DEF Answers, MsgUnanswered, CmdIn
<1>3. ASSUME NEW r \in Reply, Forwards(r), out'[k][i] = r
      PROVE  FALSE
  BY <1>3, ResponseAccepted DEF Forwards
<1>4. \/ i \in DOMAIN out[k] /\ out'[k][i] = out[k][i]
      \/ \E r \in Reply : (Answers(r) \/ Forwards(r)) /\ out'[k][i] = r
  BY StepKinds DEF Quiet, Takes, Accepts, Answers, Forwards, Responds, Transmits
<1>. QED  BY <1>1, <1>2, <1>3, <1>4 DEF CmdIn

LEMMA NextResponsesInOrder ==
    ASSUME TypeOK, Fifo, OrderInv, [Next]_vars
    PROVE  ResponsesInOrder'
<1>. ResponsesInOrder /\ response_out \in Seq(Reply)
  BY DEF OrderInv, TypeOK, QueueType
<1>1. CASE UNCHANGED response_out
  <2>1. \A i \in DOMAIN response_out :
            response_out[i].from = "executor" /\ Made(response_out[i], accepted', Progress')
    BY StaysMade DEF ResponsesInOrder
  <2>2. \A i, j \in DOMAIN response_out :
            i < j => Before(response_out[i], response_out[j], accepted')
    BY StaysBefore DEF ResponsesInOrder
  <2>. QED  BY <1>1, <2>1, <2>2 DEF ResponsesInOrder, Made, Before, Progress
<1>2. ASSUME NEW r \in Reply, Forwards(r)
      PROVE  ResponsesInOrder'
  <2>1. /\ response_out' \in Seq(Reply) /\ Len(response_out') = Len(response_out) - 1
        /\ \A i \in 1 .. Len(response_out') : response_out'[i] = response_out[i + 1]
    BY <1>2, HeadTailProperties DEF Forwards
  <2>2. /\ DOMAIN response_out' = 1 .. Len(response_out')
        /\ DOMAIN response_out = 1 .. Len(response_out)
        /\ Len(response_out) \in Nat
    BY <2>1, LenProperties
  <2>3. \A i \in DOMAIN response_out' :
            i + 1 \in DOMAIN response_out /\ response_out'[i] = response_out[i + 1]
    BY <2>1, <2>2
  <2>4. \A i \in DOMAIN response_out' :
            response_out'[i].from = "executor" /\ Made(response_out[i + 1], accepted', Progress')
    BY <2>3, StaysMade DEF ResponsesInOrder
  <2>5. ASSUME NEW i \in DOMAIN response_out', NEW j \in DOMAIN response_out', i < j
        PROVE  Before(response_out[i + 1], response_out[j + 1], accepted')
    <3>1. i + 1 < j + 1
      BY <2>2, <2>5
    <3>. QED  BY <2>3, <3>1, StaysBefore DEF ResponsesInOrder
  <2>6. \A i \in DOMAIN response_out' : Made(response_out'[i], accepted', Progress')
    BY <2>3, <2>4 DEF Made
  <2>7. \A i, j \in DOMAIN response_out' :
            i < j => Before(response_out'[i], response_out'[j], accepted')
    BY <2>3, <2>5 DEF Before
  <2>. QED  BY <2>4, <2>6, <2>7 DEF ResponsesInOrder, Made, Before, Progress
<1>3. ASSUME NEW r \in Reply, Responds(r), response_out' = Append(response_out, r)
      PROVE  ResponsesInOrder'
  <2>1. /\ response_out' \in Seq(Reply) /\ Len(response_out') = Len(response_out) + 1
        /\ \A i \in 1 .. Len(response_out) : response_out'[i] = response_out[i]
        /\ response_out'[Len(response_out) + 1] = r
    BY <1>3, AppendProperties
  <2>. DEFINE n == Len(response_out) + 1
              e == Len(executed) + 1
  <2>2. /\ DOMAIN response_out' = 1 .. n /\ DOMAIN response_out = 1 .. n - 1
        /\ n \in Nat /\ response_out'[n] = r
        /\ \A i \in 1 .. n - 1 : response_out'[i] = response_out[i]
    BY <2>1, LenProperties
  <2>. HIDE DEF n
  <2>3. /\ e \in DOMAIN accepted /\ accepted[e].cmd = r.cmd /\ accepted' = accepted
        /\ Place(r, e) = Progress + 1 /\ Progress' = Progress + 1 /\ Progress \in Nat
        /\ r.from = "executor"
    BY <1>3, Growth DEF Responds
  <2>. HIDE DEF e
  <2>4. Made(r, accepted', Progress')
    <3>1. Place(r, e) <= Progress'
      BY <2>3
    <3>. QED  BY <2>3, <3>1 DEF Made, Place
  <2>5. \A i \in DOMAIN response_out : Before(response_out[i], r, accepted')
    BY <1>3, NewestResponse DEF ResponsesInOrder
  <2>6. \A i \in DOMAIN response_out' :
            response_out'[i].from = "executor" /\ Made(response_out'[i], accepted', Progress')
    <3>1. TAKE i \in DOMAIN response_out'
    <3>2. CASE i = n
      BY <2>2, <2>3, <2>4, <3>2 DEF Made
    <3>3. CASE i # n
      <4>1. i \in DOMAIN response_out /\ response_out'[i] = response_out[i]
        BY <2>2, <3>3
      <4>. QED  BY <4>1, StaysMade DEF ResponsesInOrder, Made
    <3>. QED  BY <3>2, <3>3
  <2>7. ASSUME NEW i \in DOMAIN response_out', NEW j \in DOMAIN response_out', i < j
        PROVE  Before(response_out'[i], response_out'[j], accepted')
    <3>1. i \in DOMAIN response_out /\ response_out'[i] = response_out[i]
      BY <2>2, <2>7
    <3>2. CASE j = n
      BY <2>2, <2>5, <3>1, <3>2 DEF Before
    <3>3. CASE j # n
      <4>1. j \in DOMAIN response_out /\ response_out'[j] = response_out[j]
        BY <2>2, <3>3
      <4>. QED  BY <2>7, <3>1, <4>1, StaysBefore DEF ResponsesInOrder, Before
    <3>. QED  BY <3>2, <3>3
  <2>. QED  BY <2>6, <2>7 DEF ResponsesInOrder, Made, Before, Progress
<1>. QED
  BY <1>1, <1>2, <1>3, StepKinds DEF Quiet, Takes, Accepts, Answers, Responds

LEMMA NextTransmittedInOrder ==
    ASSUME TypeOK, Fifo, OrderInv, [Next]_vars
    PROVE  TransmittedInOrder'
<1>. /\ TransmittedInOrder /\ ResponsesInOrder
     /\ response_out \in Seq(Reply) /\ DOMAIN response_out = 1 .. Len(response_out)
     /\ Len(response_out) \in Nat
  BY LenProperties DEF OrderInv, TypeOK, QueueType
<1>1. CASE UNCHANGED <<out, response_out>>
  <2>1. ASSUME NEW k \in Conn, NEW i \in DOMAIN out[k], out[k][i].from = "executor"
        PROVE  /\ Made(out[k][i], accepted', Progress')
               /\ \A j \in DOMAIN response_out : Before(out[k][i], response_out[j], accepted')
               /\ \A j \in DOMAIN out[k] :
                     i < j /\ out[k][j].from = "executor" => Before(out[k][i], out[k][j], accepted')
    BY <2>1, StaysMade, StaysBefore DEF TransmittedInOrder
  <2>. QED  BY <1>1, <2>1 DEF TransmittedInOrder
<1>2. ASSUME NEW r \in Reply, Answers(r)
      PROVE  TransmittedInOrder'
  <2>1. /\ \A k \in Conn : /\ \A i \in DOMAIN out[k] : out'[k][i] = out[k][i]
                           /\ \A i \in DOMAIN out'[k] : out'[k][i].from = "executor" =>
                                 i \in DOMAIN out[k] /\ out'[k][i] = out[k][i]
        /\ response_out' = response_out
    BY <1>2 DEF Answers, Transmits
  <2>2. ASSUME NEW k \in Conn, NEW i \in DOMAIN out[k], out[k][i].from = "executor"
        PROVE  /\ Made(out[k][i], accepted', Progress')
               /\ \A j \in DOMAIN response_out : Before(out[k][i], response_out[j], accepted')
               /\ \A j \in DOMAIN out[k] :
                     i < j /\ out[k][j].from = "executor" => Before(out[k][i], out[k][j], accepted')
    BY <2>2, StaysMade, StaysBefore DEF TransmittedInOrder
  <2>. QED  BY <2>1, <2>2 DEF TransmittedInOrder
<1>3. ASSUME NEW r \in Reply, Forwards(r)
      PROVE  TransmittedInOrder'
  <2>1. /\ r = response_out[1] /\ 1 \in DOMAIN response_out /\ r.from = "executor"
    BY <1>3, ResponseAccepted DEF Forwards
  <2>2. \A j \in DOMAIN response_out' :
            /\ j + 1 \in DOMAIN response_out /\ 1 < j + 1
            /\ response_out'[j] = response_out[j + 1]
    <3>1. /\ response_out' \in Seq(Reply) /\ Len(response_out') = Len(response_out) - 1
          /\ \A i \in 1 .. Len(response_out') : response_out'[i] = response_out[i + 1]
      BY <1>3, HeadTailProperties DEF Forwards
    <3>2. DOMAIN response_out' = 1 .. Len(response_out')
      BY <3>1, LenProperties
    <3>. QED  BY <3>1, <3>2
  <2>3. \A j \in DOMAIN response_out' : Before(r, response_out'[j], accepted')
    <3>1. TAKE j \in DOMAIN response_out'
    <3>2. Before(response_out[1], response_out[j + 1], accepted)
      BY <2>1, <2>2 DEF ResponsesInOrder
    <3>. QED  BY <2>1, <2>2, <3>2, StaysBefore
  <2>4. Made(r, accepted', Progress')
    BY <2>1, StaysMade DEF ResponsesInOrder
  <2>5. ASSUME NEW k \in Conn, NEW i \in DOMAIN out[k], out[k][i].from = "executor"
        PROVE  /\ Made(out[k][i], accepted', Progress')
               /\ \A j \in DOMAIN response_out' : Before(out[k][i], response_out'[j], accepted')
               /\ Before(out[k][i], r, accepted')
               /\ \A j \in DOMAIN out[k] :
                     i < j /\ out[k][j].from = "executor" => Before(out[k][i], out[k][j], accepted')
    <3>1. \A j \in DOMAIN response_out : Before(out[k][i], response_out[j], accepted')
      BY <2>5, StaysBefore DEF TransmittedInOrder
    <3>2. /\ Made(out[k][i], accepted', Progress')
          /\ \A j \in DOMAIN out[k] :
                i < j /\ out[k][j].from = "executor" => Before(out[k][i], out[k][j], accepted')
      BY <2>5, StaysMade, StaysBefore DEF TransmittedInOrder
    <3>. QED  BY <2>1, <2>2, <3>1, <3>2
  <2>6. ASSUME NEW k \in Conn, NEW i \in DOMAIN out'[k], out'[k][i].from = "executor"
        PROVE  /\ Made(out'[k][i], accepted', Progress')
               /\ \A j \in DOMAIN response_out' : Before(out'[k][i], response_out'[j], accepted')
               /\ \A j \in DOMAIN out'[k] :
                     i < j /\ out'[k][j].from = "executor"
                     => Before(out'[k][i], out'[k][j], accepted')
    <3>1. /\ \A j \in DOMAIN out[k] : j \in DOMAIN out'[k] /\ out'[k][j] = out[k][j]
          /\ \A j \in DOMAIN out'[k] :
                \/ j \in DOMAIN out[k]
                \/ out'[k][j] = r /\ \A h \in DOMAIN out'[k] : ~(j < h)
      BY <1>3 DEF Forwards, Transmits
    <3>2. CASE i \in DOMAIN out[k]
      <4>1. out'[k][i] = out[k][i]
        BY <3>1, <3>2
      <4>. QED  BY <2>5, <2>6, <3>1, <3>2, <4>1
    <3>3. CASE i \notin DOMAIN out[k]
      <4>1. out'[k][i] = r /\ \A j \in DOMAIN out'[k] : ~(i < j)
        BY <3>1, <3>3
      <4>. QED  BY <2>3, <2>4, <4>1
    <3>. QED  BY <3>2, <3>3
  <2>. QED  BY <2>6 DEF TransmittedInOrder
<1>4. ASSUME NEW r \in Reply, Responds(r)
      PROVE  TransmittedInOrder'
  <2>1. out' = out
    BY <1>4 DEF Responds
  <2>2. \A j \in DOMAIN response_out' :
            \/ j \in DOMAIN response_out /\ response_out'[j] = response_out[j]
            \/ response_out'[j] = r
    <3>1. CASE response_out' = Append(response_out, r)
      <4>1. /\ response_out' \in Seq(Reply) /\ Len(response_out') = Len(response_out) + 1
            /\ \A i \in 1 .. Len(response_out) : response_out'[i] = response_out[i]
            /\ response_out'[Len(response_out) + 1] = r
        BY <3>1, AppendProperties
      <4>2. DOMAIN response_out' = 1 .. Len(response_out')
        BY <4>1, LenProperties
      <4>. QED  BY <4>1, <4>2
    <3>. QED  BY <1>4, <3>1 DEF Responds
  <2>3. ASSUME NEW k \in Conn, NEW i \in DOMAIN out[k], out[k][i].from = "executor"
        PROVE  /\ Made(out[k][i], accepted', Progress')
               /\ Before(out[k][i], r, accepted')
               /\ \A j \in DOMAIN response_out : Before(out[k][i], response_out[j], accepted')
               /\ \A j \in DOMAIN out[k] :
                     i < j /\ out[k][j].from = "executor" => Before(out[k][i], out[k][j], accepted')
    BY <1>4, <2>3, StaysMade, StaysBefore, NewestResponse DEF TransmittedInOrder
  <2>. QED  BY <2>1, <2>2, <2>3 DEF TransmittedInOrder
<1>. QED
  BY <1>1, <1>2, <1>3, <1>4, StepKinds DEF Quiet, Takes, Accepts

LEMMA NextAckFirst ==
    ASSUME TypeOK, Fifo, OrderInv, [Next]_vars
    PROVE  AckFirst'
<1>. AckFirst /\ MsgUnanswered /\ ResponsesInOrder
  BY DEF OrderInv
<1>1. CASE UNCHANGED out
  BY <1>1 DEF AckFirst
<1>2. ASSUME NEW r \in Reply, Answers(r) \/ Forwards(r)
      PROVE  AckFirst'
  <2>. SUFFICES ASSUME NEW k \in Conn, NEW i \in DOMAIN out'[k], NEW j \in DOMAIN out'[k],
                       i < j, out'[k][i].cmd = out'[k][j].cmd,
                       out'[k][i].from = "executor"
                PROVE  out'[k][j].from = "executor"
    BY DEF AckFirst
  <2>1. /\ \A h \in DOMAIN out[k] : h \in DOMAIN out'[k] /\ out'[k][h] = out[k][h]
        /\ \A h \in DOMAIN out'[k] :
              \/ h \in DOMAIN out[k]
              \/ out'[k][h] = r /\ \A g \in DOMAIN out'[k] : ~(h < g)
    BY <1>2 DEF Answers, Forwards, Transmits
  <2>2. i \in DOMAIN out[k] /\ out'[k][i] = out[k][i]
    BY <2>1
  <2>3. CASE j \in DOMAIN out[k]
    BY <2>1, <2>2, <2>3 DEF AckFirst
  <2>4. CASE j \notin DOMAIN out[k]
    <3>1. out'[k][j] = r
      BY <2>1, <2>4
    <3>2. CASE Forwards(r)
      BY <3>1, <3>2, ResponseAccepted DEF Forwards
    <3>3. CASE Answers(r)
      <4>1. out[k][i].cmd = msg[1].cmd /\ msg # << >>
        BY <2>2, <3>1, <3>3 DEF Answers
      <4>. QED  BY <2>2, <4>1 DEF MsgUnanswered, AnsweredIn, CmdIn
    <3>. QED  BY <1>2, <3>2, <3>3
  <2>. QED  BY <2>3, <2>4
<1>. QED
  BY <1>1, <1>2, StepKinds DEF Quiet, Takes, Accepts, Responds

LEMMA InitOrder == Init => OrderInv
<1>. SUFFICES ASSUME Init
              PROVE  OrderInv
  OBVIOUS
<1>1. \A s \in Sock : Stream(s) = << >>
  BY DEF Init, Stream
<1>2. HeadsOnce
  BY <1>1 DEF HeadsOnce
<1>3. /\ DecodedOnce /\ AcceptedOnce /\ MsgUnanswered /\ ComsRepliesOnce
      /\ ResponsesInOrder /\ TransmittedInOrder /\ AckFirst
  BY DEF Init, DecodedOnce, InMsg, CmdIn, AnsweredIn, AcceptedOnce, MsgUnanswered,
         ComsRepliesOnce, ResponsesInOrder, TransmittedInOrder, AckFirst
<1>. QED  BY <1>2, <1>3 DEF OrderInv

LEMMA NextOrder ==
    ASSUME TypeOK, Fifo, OrderInv, [Next]_vars
    PROVE  OrderInv'
BY NextHeads, NextDecodedOnce, NextAcceptedOnce, NextMsgUnanswered, NextComsRepliesOnce,
   NextResponsesInOrder, NextTransmittedInOrder, NextAckFirst
DEF OrderInv

\* No command is decoded, accepted or answered by coms_task twice, and the
\* executor's replies keep the order in which it made them.
THEOREM OrderHolds == Spec => []OrderInv
<1>1. Init => TypeOK /\ Fifo /\ OrderInv
  BY InitType, InitFifo, InitOrder
<1>2. (TypeOK /\ Fifo /\ OrderInv) /\ [Next]_vars => (TypeOK /\ Fifo /\ OrderInv)'
  BY NextType, NextFifo, NextOrder
<1>. QED  BY <1>1, <1>2, PTL DEF Spec

\* On the wire the ACK of coms_task never follows a reply of the executor to
\* the same command, although the executor may have answered long before.
THEOREM AckFirstHolds == Spec => []AckFirst
<1>1. OrderInv => AckFirst
  BY DEF OrderInv
<1>. QED  BY <1>1, OrderHolds, PTL

LEMMA OrderImpliesReplies ==
    ASSUME TypeOK, OrderInv
    PROVE  RepliesInOrder
<1>. SUFFICES ASSUME NEW k \in Conn, NEW i \in DOMAIN out[k], NEW j \in DOMAIN out[k],
                     i < j, out[k][i].from = "executor", out[k][j].from = "executor"
              PROVE  IF out[k][i].cmd = out[k][j].cmd
                       THEN out[k][i].type = "ACK" /\ out[k][j].type # "ACK"
                       ELSE \E a, b \in DOMAIN accepted :
                               /\ a < b /\ accepted[a].cmd = out[k][i].cmd
                               /\ accepted[b].cmd = out[k][j].cmd
  BY DEF RepliesInOrder
<1>. DEFINE r == out[k][i]
            q == out[k][j]
<1>1. Before(r, q, accepted)
  BY DEF OrderInv, TransmittedInOrder
<1>. HIDE DEF r, q
<1>2. PICK a, b \in DOMAIN accepted :
        accepted[a].cmd = r.cmd /\ accepted[b].cmd = q.cmd /\ Place(r, a) < Place(q, b)
  BY <1>1 DEF Before
<1>3. a \in Nat /\ b \in Nat
  BY LenProperties DEF TypeOK, PastType
<1>4. CASE r.cmd = q.cmd
  <2>1. a = b
    BY <1>2, <1>4 DEF OrderInv, AcceptedOnce
  <2>2. r.type = "ACK" /\ q.type # "ACK"
    BY <1>2, <1>3, <2>1 DEF Place
  <2>. QED  BY <1>4, <2>2 DEF r, q
<1>5. CASE r.cmd # q.cmd
  <2>1. a # b
    BY <1>2, <1>5
  <2>2. a < b
    BY <1>2, <1>3, <2>1 DEF Place
  <2>. QED  BY <1>2, <1>5, <2>2 DEF r, q
<1>. QED  BY <1>4, <1>5

\* The executor's replies reach every connection in the order of execution,
\* the ACK of a command before its result, whatever is dropped in between.
THEOREM RepliesInOrderHolds == Spec => []RepliesInOrder
<1>1. TypeOK /\ OrderInv => RepliesInOrder
  BY OrderImpliesReplies
<1>. QED  BY <1>1, TypeCorrect, OrderHolds, PTL

----------------------------------------------------------------------------
(* Replies and connections.                                                *)

\* A socket takes up a connection, or each keeps its own or loses it.
LEMMA ChipSteps ==
    ASSUME TypeOK, [Next]_vars
    PROVE  \/ \E k \in Conn, s \in Sock : Connect(k, s)
           \/ /\ unmade' = unmade
              /\ \A s \in Sock :
                    \/ peer'[s] = NoConn /\ SR'[s] \in {"CLOSED", "LISTEN"}
                    \/ /\ peer'[s] = peer[s]
                       /\ SR'[s] \in {"CLOSED", "LISTEN"} => SR[s] \in {"CLOSED", "LISTEN"}
<1>. DEFINE Kept == /\ unmade' = unmade
                    /\ \A s \in Sock :
                          \/ peer'[s] = NoConn /\ SR'[s] \in {"CLOSED", "LISTEN"}
                          \/ /\ peer'[s] = peer[s]
                             /\ SR'[s] \in {"CLOSED", "LISTEN"} => SR[s] \in {"CLOSED", "LISTEN"}
<1>. ChipType /\ ComsType
  BY DEF TypeOK
<1>1. ASSUME NEW t \in Sock, NEW status \in {"CLOSED", "LISTEN"},
             CloseTo(t, status), unmade' = unmade
      PROVE  Kept
  BY <1>1 DEF CloseTo, ChipType
<1>0. ASSUME NEW t \in Sock, disconnect(t), unmade' = unmade
      PROVE  Kept
  BY <1>0 DEF disconnect, ChipType
<1>2. ASSUME NEW r \in Reply, send_reply(r), unmade' = unmade
      PROVE  Kept
  <2>1. r.sn \in Sock
    BY DEF Reply
  <2>2. CASE SR[r.sn] = "ESTABLISHED" /\ unacked[r.sn] < TxMax
    <3>1. UNCHANGED <<SR, peer>>
      BY <1>2, <2>2 DEF send_reply, chip
    <3>. QED  BY <1>2, <3>1
  <2>3. CASE ~(SR[r.sn] = "ESTABLISHED" /\ unacked[r.sn] < TxMax)
    <3>1. CloseTo(r.sn, "LISTEN") \/ disconnect(r.sn)
      BY <1>2, <2>3 DEF send_reply
    <3>. QED  BY <1>0, <1>1, <1>2, <2>1, <3>1
  <2>. QED  BY <2>2, <2>3
<1>3. ASSUME unmade' = unmade, UNCHANGED <<SR, peer>>
      PROVE  Kept
  BY <1>3
<1>. SUFFICES (\E k \in Conn, s \in Sock : Connect(k, s)) \/ Kept
  OBVIOUS
<1>4. CASE \E s \in Sock : PeerFin(s) \/ ConnectionEnds(s)
  BY <1>4 DEF PeerFin, ConnectionEnds, ChipType
<1>. HIDE DEF Kept
<1>5. CASE \E s \in Sock : PeerSend(s) \/ ChipSendOk(s) \/ PeerAck(s)
  BY <1>3, <1>5 DEF PeerSend, ChipSendOk, PeerAck
<1>6. CASE OpenSocket \/ RecvClosed \/ OverflowClose \/ Reopen
  BY <1>1, <1>6 DEF OpenSocket, RecvClosed, OverflowClose, Reopen, ComsType
<1>11. CASE OverflowDisconnect
  BY <1>0, <1>11 DEF OverflowDisconnect, ComsType
<1>7. CASE SkipSocket \/ EnterRecv \/ Offer \/ RecvCommand \/ RecvFragment
  BY <1>3, <1>7 DEF SkipSocket, EnterRecv, Offer, RecvCommand, RecvFragment, chip
<1>8. CASE OverflowReply \/ Acknowledge
  <2>1. msg[1] \in Item
    BY <1>8, MsgHeld DEF OverflowReply, Acknowledge
  <2>2. PICK r \in Reply : send_reply(r)
    BY <1>8, <2>1 DEF OverflowReply, Acknowledge, ReplyTo, Reply, Item
  <2>3. unmade' = unmade
    BY <1>8 DEF OverflowReply, Acknowledge
  <2>. QED  BY <1>2, <2>2, <2>3
<1>9. CASE Drain
  <2>1. unmade' = unmade
    BY <1>9 DEF Drain
  <2>2. CASE response_out = << >>
    BY <1>3, <1>9, <2>1, <2>2 DEF Drain, chip
  <2>3. CASE response_out # << >>
    <3>1. Head(response_out) \in Reply
      BY <2>3, HeadTailProperties DEF TypeOK, QueueType
    <3>2. send_reply(Head(response_out))
      BY <1>9, <2>3 DEF Drain
    <3>. QED  BY <1>2, <2>1, <3>1, <3>2
  <2>. QED  BY <2>2, <2>3
<1>10. CASE ExecutorTask \/ UNCHANGED vars
  BY <1>3, <1>10 DEF ExecutorTask, ExecReceive, ExecAck, ExecRun, vars, chip
<1>. QED
  BY <1>4, <1>5, <1>6, <1>7, <1>8, <1>9, <1>10, <1>11 DEF Next, Environment, ComsTask

LEMMA NextOnePeer ==
    ASSUME TypeOK, OnePeer, [Next]_vars
    PROVE  OnePeer'
<1>. ChipType /\ PeerType
  BY DEF TypeOK
<1>1. CASE \E k \in Conn, s \in Sock : Connect(k, s)
  BY <1>1 DEF Connect, OnePeer, ChipType, PeerType
<1>2. CASE ~(\E k \in Conn, s \in Sock : Connect(k, s))
  <2>1. /\ unmade' = unmade
        /\ \A s \in Sock :
              \/ peer'[s] = NoConn /\ SR'[s] \in {"CLOSED", "LISTEN"}
              \/ /\ peer'[s] = peer[s]
                 /\ SR'[s] \in {"CLOSED", "LISTEN"} => SR[s] \in {"CLOSED", "LISTEN"}
    BY <1>2, ChipSteps
  <2>. QED  BY <2>1 DEF OnePeer, PeerType
<1>. QED  BY <1>1, <1>2

LEMMA EndedForever ==
    ASSUME TypeOK, [Next]_vars, NEW k \in Conn, Ended(k)
    PROVE  Ended(k)'
BY ChipSteps DEF Ended, Connected, Connect, TypeOK, ChipType, PeerType

LEMMA StaysOwned ==
    ASSUME TypeOK, OnePeer, [Next]_vars, NEW c \in Cmd, NEW s \in Sock, Owned(c, s)
    PROVE  Owned(c, s)'
<1>. ChipType /\ PeerType /\ c.conn \in Conn
  BY DEF TypeOK, Cmd
<1>1. CASE Ended(c.conn)
  BY <1>1, EndedForever DEF Owned
<1>2. CASE ~Ended(c.conn)
  <2>1. peer[s] = c.conn /\ SR[s] \notin {"CLOSED", "LISTEN"} /\ c.conn \notin unmade
    BY <1>2 DEF Owned, OnePeer
  <2>2. CASE \E k \in Conn, t \in Sock : Connect(k, t)
    BY <2>1, <2>2 DEF Connect, Owned, ChipType
  <2>3. CASE ~(\E k \in Conn, t \in Sock : Connect(k, t))
    <3>1. /\ unmade' = unmade
          /\ \A t \in Sock : peer'[t] \in {NoConn, peer[t]}
      BY <2>3, ChipSteps
    <3>2. ASSUME peer'[s] # c.conn, NEW t \in Sock, peer'[t] = c.conn
          PROVE  FALSE
      BY <2>1, <3>1, <3>2 DEF OnePeer
    <3>. QED  BY <2>1, <3>1, <3>2 DEF Owned, Ended, Connected
  <2>. QED  BY <2>2, <2>3
<1>. QED  BY <1>1, <1>2

\* What a stream holds was in it before, or was just sent by its peer.
LEMMA StreamParts ==
    ASSUME TypeOK, [Next]_vars, NEW s \in Sock, NEW c,
           \E i \in DOMAIN Stream(s)' : Stream(s)'[i].cmd = c
    PROVE  (\E i \in DOMAIN Stream(s) : Stream(s)[i].cmd = c) \/ c.conn = peer[s]
<1>1. PICK i \in DOMAIN Stream(s)' : Stream(s)'[i].cmd = c
  OBVIOUS
<1>2. CASE \E t \in Sock : PeerSend(t)
  <2>1. PICK t \in Sock : PeerSend(t)
    BY <1>2
  <2>. DEFINE p == PartOf(peer[t], issued[peer[t]] + 1)
  <2>2. /\ p.cmd.conn = peer[t]
        /\ DOMAIN Stream(t)' = 1 .. Len(Stream(t)) + 1
        /\ \A j \in DOMAIN Stream(t) : Stream(t)'[j] = Stream(t)[j]
        /\ Stream(t)'[Len(Stream(t)) + 1] = p
        /\ \A u \in Sock \ {t} : Stream(u)' = Stream(u)
    BY <2>1, SentPart
  <2>3. DOMAIN Stream(t) = 1 .. Len(Stream(t)) /\ Len(Stream(t)) \in Nat
    BY StreamType
  <2>. HIDE DEF p
  <2>4. CASE s = t
    <3>1. \/ i \in DOMAIN Stream(s) /\ Stream(s)'[i] = Stream(s)[i]
          \/ Stream(s)'[i] = p
      BY <1>1, <2>2, <2>3, <2>4
    <3>. QED  BY <1>1, <2>2, <2>4, <3>1
  <2>5. CASE s # t
    BY <1>1, <2>2, <2>5
  <2>. QED  BY <2>4, <2>5
<1>3. CASE ~(\E t \in Sock : PeerSend(t))
  <2>1. PICK d \in Nat : Window(Stream(s)', Stream(s), d)
    BY <1>3, StreamsShrink
  <2>. QED  BY <1>1, <2>1 DEF Window
<1>. QED  BY <1>2, <1>3

\* Every command in hand was brought earlier by the same socket.
LEMMA BroughtBefore ==
    ASSUME TypeOK, Fifo, [Next]_vars, NEW c \in Cmd, NEW s \in Sock, Brought(c, s)'
    PROVE  Brought(c, s) \/ c.conn = peer[s]
<1>1. CASE \E i \in DOMAIN Stream(s)' : Stream(s)'[i].cmd = c
  BY <1>1, StreamParts DEF Brought
<1>2. CASE HeldIn(c, s, msg')
  <2>1. CASE msg' = msg
    BY <1>2, <2>1 DEF Brought
  <2>2. CASE RecvCommand
    <3>1. /\ msg' = << [cmd |-> Received(sn)[1].cmd, sn |-> sn] >> /\ sn \in Sock
          /\ Stream(sn)[1] = HeadOf(msg'[1].cmd) /\ 1 \in DOMAIN Stream(sn)
      BY <2>2, DecodeWindow DEF RecvCommand, TypeOK, ComsType
    <3>2. msg'[1].cmd = c /\ sn = s
      BY <1>2, <3>1 DEF HeldIn
    <3>. QED  BY <3>1, <3>2 DEF Brought, HeadOf
  <2>3. CASE msg' = << >>
    BY <1>2, <2>3 DEF HeldIn
  <2>. QED
    BY <2>1, <2>2, <2>3, StepKinds DEF Quiet, Takes, Accepts, Answers, Forwards, Responds
<1>3. CASE HeldIn(c, s, accepted')
  <2>1. CASE accepted' = accepted
    BY <1>3, <2>1 DEF Brought
  <2>2. CASE Accepts
    <3>1. msg[1] \in Item /\ accepted' = Append(accepted, msg[1]) /\ accepted \in Seq(Item)
      BY <2>2, MsgHeld DEF Accepts, TypeOK, PastType
    <3>2. /\ accepted' \in Seq(Item) /\ Len(accepted') = Len(accepted) + 1
          /\ \A a \in 1 .. Len(accepted) : accepted'[a] = accepted[a]
          /\ accepted'[Len(accepted) + 1] = msg[1]
      BY <3>1, AppendProperties
    <3>3. /\ DOMAIN accepted' = 1 .. Len(accepted) + 1
          /\ DOMAIN accepted = 1 .. Len(accepted) /\ Len(accepted) \in Nat
      BY <3>1, <3>2, LenProperties
    <3>4. HeldIn(c, s, accepted) \/ (msg[1].cmd = c /\ msg[1].sn = s)
      BY <1>3, <3>2, <3>3 DEF HeldIn
    <3>5. 1 \in DOMAIN msg
      BY <2>2 DEF Accepts, TypeOK, ComsType
    <3>. QED  BY <3>4, <3>5 DEF Brought, HeldIn
  <2>. QED
    BY <2>1, <2>2, StepKinds DEF Quiet, Takes, Answers, Forwards, Responds
<1>4. CASE HeldIn(c, s, response_out')
  <2>1. CASE response_out' = response_out
    BY <1>4, <2>1 DEF Brought
  <2>2. ASSUME NEW r \in Reply, Forwards(r)
        PROVE  HeldIn(c, s, response_out)
    <3>1. /\ response_out \in Seq(Reply) /\ response_out' \in Seq(Reply)
          /\ Len(response_out') = Len(response_out) - 1
          /\ \A i \in 1 .. Len(response_out') : response_out'[i] = response_out[i + 1]
      BY <2>2, HeadTailProperties DEF Forwards, TypeOK, QueueType
    <3>2. /\ DOMAIN response_out' = 1 .. Len(response_out')
          /\ DOMAIN response_out = 1 .. Len(response_out) /\ Len(response_out) \in Nat
      BY <3>1, LenProperties
    <3>3. \A i \in DOMAIN response_out' :
              i + 1 \in DOMAIN response_out /\ response_out'[i] = response_out[i + 1]
      BY <3>1, <3>2
    <3>. QED  BY <1>4, <3>3 DEF HeldIn
  <2>3. ASSUME NEW r \in Reply, Responds(r), response_out' = Append(response_out, r)
        PROVE  HeldIn(c, s, response_out) \/ HeldIn(c, s, accepted)
    <3>1. /\ response_out \in Seq(Reply) /\ response_out' \in Seq(Reply)
          /\ Len(response_out') = Len(response_out) + 1
          /\ \A i \in 1 .. Len(response_out) : response_out'[i] = response_out[i]
          /\ response_out'[Len(response_out) + 1] = r
      BY <2>3, AppendProperties DEF TypeOK, QueueType
    <3>2. /\ DOMAIN response_out' = 1 .. Len(response_out')
          /\ DOMAIN response_out = 1 .. Len(response_out) /\ Len(response_out) \in Nat
      BY <3>1, LenProperties
    <3>3. HeldIn(c, s, response_out) \/ (r.cmd = c /\ r.sn = s)
      BY <1>4, <3>1, <3>2 DEF HeldIn
    <3>. QED  BY <2>3, <3>3 DEF Responds, HeldIn
  <2>. QED
    BY <2>1, <2>2, <2>3, StepKinds DEF Quiet, Takes, Accepts, Answers, Responds, Brought
<1>5. \/ \E i \in DOMAIN Stream(s)' : Stream(s)'[i].cmd = c
      \/ HeldIn(c, s, msg') \/ HeldIn(c, s, accepted') \/ HeldIn(c, s, response_out')
  BY DEF Brought, HeldIn
<1>. QED  BY <1>1, <1>2, <1>3, <1>4, <1>5

LEMMA NextOwnerOrEnded ==
    ASSUME TypeOK, Fifo, OwnerInv, [Next]_vars
    PROVE  OwnerOrEnded'
<1>. SUFFICES ASSUME NEW c \in Cmd, NEW s \in Sock, Brought(c, s)'
              PROVE  Owned(c, s)'
  BY DEF OwnerOrEnded
<1>1. Owned(c, s)
  <2>1. Brought(c, s) \/ c.conn = peer[s]
    BY BroughtBefore
  <2>. QED  BY <2>1 DEF OwnerInv, OwnerOrEnded, Owned
<1>. QED  BY <1>1, StaysOwned DEF OwnerInv

LEMMA NextStrangers ==
    ASSUME TypeOK, Fifo, OwnerInv, [Next]_vars
    PROVE  StrangersOnlyAfterGone'
<1>. PastType
  BY DEF TypeOK
<1>. SUFFICES ASSUME NEW k \in Conn, NEW i \in DOMAIN out'[k],
                     NEW owner, owner = out'[k][i].cmd.conn, owner # k
              PROVE  Ended(owner)'
  BY DEF StrangersOnlyAfterGone, Ended, Connected
<1>1. CASE i \in DOMAIN out[k] /\ out'[k][i] = out[k][i]
  <2>1. out[k][i] \in Reply
    BY <1>1, ElementOfSeq, LenProperties DEF PastType
  <2>2. owner \in Conn /\ Ended(owner)
    BY <1>1, <2>1 DEF OwnerInv, StrangersOnlyAfterGone, Ended, Reply, Cmd
  <2>. QED  BY <2>2, EndedForever
<1>2. ASSUME NEW r \in Reply, out'[k][i] = r, k = peer[r.sn], Brought(r.cmd, r.sn)
      PROVE  Ended(owner)'
  <2>1. r.cmd \in Cmd /\ r.sn \in Sock /\ owner = r.cmd.conn /\ owner \in Conn
    BY <1>2 DEF Reply, Cmd
  <2>2. Ended(owner)
    BY <1>2, <2>1 DEF OwnerInv, OwnerOrEnded, Owned
  <2>. QED  BY <2>1, <2>2, EndedForever
<1>3. ASSUME NEW r \in Reply, Answers(r)
      PROVE  Brought(r.cmd, r.sn)
  <2>1. 1 \in DOMAIN msg
    BY <1>3 DEF Answers, TypeOK, ComsType
  <2>. QED  BY <1>3, <2>1 DEF Answers, Brought, HeldIn
<1>4. ASSUME NEW r \in Reply, Forwards(r)
      PROVE  Brought(r.cmd, r.sn)
  <2>1. r = response_out[1] /\ 1 \in DOMAIN response_out
    BY <1>4, EmptySeq, LenProperties DEF Forwards, TypeOK, QueueType
  <2>. QED  BY <2>1 DEF Brought, HeldIn
<1>5. \/ i \in DOMAIN out[k] /\ out'[k][i] = out[k][i]
      \/ \E r \in Reply : /\ Answers(r) \/ Forwards(r)
                          /\ out'[k][i] = r /\ k = peer[r.sn]
  BY StepKinds DEF Quiet, Takes, Accepts, Answers, Forwards, Responds, Transmits
<1>. QED  BY <1>1, <1>2, <1>3, <1>4, <1>5

LEMMA InitOwner == Init => OwnerInv
<1>. SUFFICES ASSUME Init
              PROVE  OwnerInv
  OBVIOUS
<1>1. \A s \in Sock : Stream(s) = << >>
  BY DEF Init, Stream
<1>2. OwnerOrEnded
  BY <1>1 DEF Init, OwnerOrEnded, Brought, HeldIn
<1>3. OnePeer /\ StrangersOnlyAfterGone
  BY DEF Init, OnePeer, StrangersOnlyAfterGone
<1>. QED  BY <1>2, <1>3 DEF OwnerInv

LEMMA OwnerHolds == Spec => [](TypeOK /\ Fifo /\ OwnerInv)
<1>1. Init => TypeOK /\ Fifo /\ OwnerInv
  BY InitType, InitFifo, InitOwner
<1>2. (TypeOK /\ Fifo /\ OwnerInv) /\ [Next]_vars => (TypeOK /\ Fifo /\ OwnerInv)'
  BY NextType, NextFifo, NextOnePeer, NextOwnerOrEnded, NextStrangers DEF OwnerInv
<1>. QED  BY <1>1, <1>2, PTL DEF Spec

\* A reply goes to another connection than the command's own only after that
\* one has ended: a socket's identity is passed on with the command, and the
\* socket may have been taken up by another peer by the time it answers.
THEOREM StrangersOnlyAfterGoneHolds == Spec => []StrangersOnlyAfterGone
<1>1. OwnerInv => StrangersOnlyAfterGone
  BY DEF OwnerInv
<1>. QED  BY <1>1, OwnerHolds, PTL

\* A command that receive() returns is the peer's that holds the socket, or of one
\* that has ended.
FromPeerOrEnded ==
    [][RecvCommand => LET k == msg'[1].cmd.conn IN k = peer[sn] \/ Ended(k)]_vars

\* What remains of CommandFromActivePeer (pico_zyre.h:83), which fails for bytes left
\* in rx_bufs: a command is never taken from a peer that is connected on another
\* socket, nor from one that has yet to connect.
THEOREM FromPeerOrEndedHolds == Spec => FromPeerOrEnded
<1>1. TypeOK /\ Fifo /\ OwnerInv
        => [RecvCommand => LET k == msg'[1].cmd.conn IN k = peer[sn] \/ Ended(k)]_vars
  <2>. SUFFICES ASSUME TypeOK, OwnerInv, RecvCommand,
                       NEW c, c = Received(sn)[1].cmd
                PROVE  c.conn = peer[sn] \/ Ended(c.conn)
    <3>1. RecvCommand => msg' = << [cmd |-> Received(sn)[1].cmd, sn |-> sn] >>
      BY DEF RecvCommand
    <3>2. RecvCommand => msg'[1].cmd = Received(sn)[1].cmd
      BY <3>1
    <3>. QED  BY <3>2
  <2>1. /\ msg' = << [cmd |-> c, sn |-> sn] >> /\ sn \in Sock
        /\ Stream(sn)[1] = HeadOf(msg'[1].cmd) /\ 1 \in DOMAIN Stream(sn)
    BY DecodeWindow DEF RecvCommand, TypeOK, ComsType
  <2>2. Stream(sn)[1].cmd = c
    BY <2>1 DEF HeadOf
  <2>3. c \in Cmd
    <3>1. Stream(sn) \in Seq(Part)
      BY <2>1, StreamType
    <3>2. Stream(sn)[1] \in Part
      BY <2>1, <3>1, ElementOfSeq, LenProperties
    <3>. QED  BY <2>2, <3>2 DEF Part
  <2>4. Brought(c, sn)
    BY <2>1, <2>2 DEF Brought
  <2>. QED  BY <2>1, <2>3, <2>4 DEF OwnerInv, OwnerOrEnded, Owned
<1>. QED  BY <1>1, OwnerHolds, PTL DEF FromPeerOrEnded

----------------------------------------------------------------------------
(* CommandPath implements CommandService.                                  *)

Pending == cmd \o command_in
Wire    == UNION {{out[k][i] : i \in DOMAIN out[k]} : k \in Conn}

LEMMA WireMember ==
    ASSUME NEW r
    PROVE  r \in Wire <=> \E k \in Conn : \E i \in DOMAIN out[k] : out[k][i] = r
BY DEF Wire

LEMMA WireMemberNext ==
    ASSUME NEW r
    PROVE  r \in Wire' <=> \E k \in Conn : \E i \in DOMAIN out'[k] : out'[k][i] = r
BY DEF Wire

LEMMA WireStep ==
    ASSUME NEW r, Transmits(r)
    PROVE  Wire' = Wire \/ Wire' = Wire \union {r}
<1>1. ASSUME NEW q, q \in Wire
      PROVE  q \in Wire'
  BY <1>1, WireMember, WireMemberNext DEF Transmits
<1>2. ASSUME NEW q, q \in Wire'
      PROVE  q \in Wire \/ q = r
  BY <1>2, WireMember, WireMemberNext DEF Transmits
<1>. QED  BY <1>1, <1>2

\* What is accepted is what is executed, then what is pending.
LEMMA AcceptedParts ==
    ASSUME NEW e \in Seq(Item), NEW c \in Seq(Item), NEW q \in Seq(Item)
    PROVE  /\ c \o q \in Seq(Item)
           /\ (e \o c) \o q = e \o (c \o q)
<1>1. c \o q \in Seq(Item) /\ Regroups(e, c, q)
  BY Joined, Regrouped, Zenon
<1>. QED  BY <1>1, Zenon DEF Regroups

LEMMA PendingSteps ==
    ASSUME TypeOK, Fifo, [Next]_vars
    PROVE  \/ UNCHANGED <<accepted, executed, Pending>>
           \/ /\ Accepts /\ UNCHANGED executed
              /\ Pending' = Append(Pending, msg[1])
           \/ /\ UNCHANGED <<accepted, out>> /\ epc = "run"
              /\ Pending # << >> /\ Pending' = Tail(Pending)
              /\ executed' = Append(executed, Head(Pending))
<1>. DEFINE e == executed
            p == Pending
            f == executed'
            q == Pending'
<1>1. e \in Seq(Item) /\ p \in Seq(Item) /\ accepted = e \o p
  <2>1. /\ executed \in Seq(Item) /\ cmd \in Seq(Item) /\ command_in \in Seq(Item)
        /\ accepted = (executed \o cmd) \o command_in
    BY DEF TypeOK, PastType, ExecType, QueueType, Fifo
  <2>. QED  BY <2>1, AcceptedParts DEF Pending
<1>2. f \in Seq(Item) /\ q \in Seq(Item) /\ accepted' = f \o q
  <2>1. TypeOK' /\ Fifo'
    BY NextType, NextFifo
  <2>2. /\ executed' \in Seq(Item) /\ cmd' \in Seq(Item) /\ command_in' \in Seq(Item)
        /\ accepted' = (executed' \o cmd') \o command_in'
    BY <2>1 DEF TypeOK, PastType, ExecType, QueueType, Fifo
  <2>. QED  BY <2>2, AcceptedParts DEF Pending
<1>. HIDE DEF e, p, f, q
<1>3. CASE UNCHANGED <<accepted, executed>>
  <2>1. e = f /\ e \o p = e \o q
    BY <1>1, <1>2, <1>3 DEF e, f
  <2>2. p = q
    BY <1>1, <1>2, <2>1, ConcatSimplifications
  <2>. QED  BY <1>3, <2>2 DEF p, q
<1>4. CASE Accepts
  <2>1. msg[1] \in Item /\ << msg[1] >> \in Seq(Item)
    BY <1>4, MsgHeld DEF Accepts, TypeOK
  <2>. DEFINE m == << msg[1] >>
  <2>2. accepted' = Append(accepted, msg[1]) /\ e = f /\ accepted \in Seq(Item)
    BY <1>4 DEF Accepts, e, f, TypeOK, PastType
  <2>3. accepted' = accepted \o m
    BY <2>1, <2>2, AppendIsConcat
  <2>. HIDE DEF m
  <2>4. (e \o p) \o m = e \o (p \o m) /\ p \o m \in Seq(Item)
    BY <1>1, <2>1, AcceptedParts DEF m
  <2>5. e \o q = e \o (p \o m)
    BY <1>1, <1>2, <2>2, <2>3, <2>4
  <2>6. q = p \o m
    BY <1>1, <1>2, <2>4, <2>5, ConcatSimplifications
  <2>7. q = Append(p, msg[1])
    BY <1>1, <2>1, <2>6, AppendIsConcat DEF m
  <2>. QED  BY <1>4, <2>7 DEF Accepts, p, q
<1>5. ASSUME NEW r \in Reply, Responds(r), epc = "run"
      PROVE  /\ UNCHANGED <<accepted, out>> /\ p # << >> /\ q = Tail(p)
             /\ f = Append(e, Head(p))
  <2>. DEFINE h == cmd[1]
              m == << cmd[1] >>
  <2>1. h \in Item /\ m \in Seq(Item)
    BY <1>5, InHand
  <2>2. accepted' = accepted /\ f = Append(e, h) /\ out' = out
    BY <1>5 DEF Responds, e, f
  <2>3. f = e \o m
    BY <1>1, <2>1, <2>2, AppendIsConcat
  <2>. HIDE DEF m, h
  <2>4. (e \o m) \o q = e \o (m \o q) /\ m \o q \in Seq(Item)
    <3>1. e \in Seq(Item) /\ m \in Seq(Item) /\ q \in Seq(Item)
      BY <1>1, <1>2, <2>1
    <3>2. m \o q \in Seq(Item) /\ Regroups(e, m, q)
      BY <3>1, Joined, Regrouped, Zenon
    <3>. QED  BY <3>2, Zenon DEF Regroups
  <2>5. e \o p = e \o (m \o q)
    BY <1>1, <1>2, <2>2, <2>3, <2>4
  <2>6. p = m \o q
    BY <1>1, <2>4, <2>5, ConcatSimplifications
  <2>7. Head(p) = h /\ Tail(p) = q /\ p # << >>
    <3>1. m = << h >>
      BY DEF m, h
    <3>2. /\ Len(p) = 1 + Len(q) /\ Len(q) \in Nat
          /\ \A i \in 1 .. 1 + Len(q) : p[i] = IF i <= 1 THEN m[i] ELSE q[i - 1]
      <4>1. Len(m) = 1
        BY <3>1
      <4>2. /\ Len(m \o q) = Len(m) + Len(q)
            /\ \A i \in 1 .. Len(m) + Len(q) :
                  (m \o q)[i] = IF i <= Len(m) THEN m[i] ELSE q[i - Len(m)]
        BY <1>2, <2>1, ConcatProperties
      <4>3. Len(q) \in Nat
        BY <1>2, LenProperties
      <4>. QED  BY <2>6, <4>1, <4>2, <4>3
    <3>3. p[1] = h /\ p # << >>
      BY <1>1, <3>1, <3>2
    <3>4. /\ Tail(p) \in Seq(Item) /\ Len(Tail(p)) = Len(q)
          /\ \A i \in 1 .. Len(Tail(p)) : Tail(p)[i] = p[i + 1]
      BY <1>1, <3>2, <3>3, HeadTailProperties
    <3>5. \A i \in 1 .. Len(q) : Tail(p)[i] = q[i]
      <4>1. TAKE i \in 1 .. Len(q)
      <4>2. i + 1 \in 1 .. 1 + Len(q) /\ ~(i + 1 <= 1) /\ (i + 1) - 1 = i
        BY <3>2
      <4>. QED  BY <3>2, <3>4, <4>2
    <3>6. Tail(p) = q
      BY <1>2, <3>4, <3>5, SeqEqual
    <3>7. Head(p) = p[1]
      BY <1>1, <3>3
    <3>. QED  BY <3>3, <3>6, <3>7
  <2>. QED  BY <2>2, <2>7
<1>6. ASSUME NEW r \in Reply, Responds(r), epc # "run"
      PROVE  UNCHANGED <<accepted, executed>>
  BY <1>6 DEF Responds
<1>. QED
  BY <1>3, <1>4, <1>5, <1>6, StepKinds DEF Quiet, Takes, Answers, Forwards, e, f, p, q

LEMMA AcceptedIsPendingOrDone ==
    ASSUME TypeOK, Fifo, NEW c
    PROVE  CmdIn(c, accepted) <=> Service!In(c, Pending) \/ Service!In(c, executed)
<1>. DEFINE e == executed
            p == Pending
<1>1. e \in Seq(Item) /\ p \in Seq(Item) /\ accepted = e \o p
  <2>1. /\ executed \in Seq(Item) /\ cmd \in Seq(Item) /\ command_in \in Seq(Item)
        /\ accepted = (executed \o cmd) \o command_in
    BY DEF TypeOK, PastType, ExecType, QueueType, Fifo
  <2>. QED  BY <2>1, AcceptedParts DEF Pending
<1>. HIDE DEF e, p
<1>2. /\ e \o p \in Seq(Item) /\ Len(e \o p) = Len(e) + Len(p)
      /\ \A i \in 1 .. Len(e) + Len(p) : (e \o p)[i] = IF i <= Len(e) THEN e[i] ELSE p[i - Len(e)]
  BY <1>1, ConcatProperties
<1>3. /\ DOMAIN accepted = 1 .. Len(e) + Len(p)
      /\ DOMAIN e = 1 .. Len(e) /\ DOMAIN p = 1 .. Len(p)
      /\ Len(e) \in Nat /\ Len(p) \in Nat
  BY <1>1, <1>2, LenProperties
<1>4. ASSUME NEW i \in DOMAIN e, e[i].cmd = c
      PROVE  CmdIn(c, accepted)
  <2>1. i \in DOMAIN accepted /\ accepted[i] = e[i]
    BY <1>1, <1>2, <1>3
  <2>. QED  BY <1>4, <2>1 DEF CmdIn
<1>5. ASSUME NEW i \in DOMAIN p, p[i].cmd = c
      PROVE  CmdIn(c, accepted)
  <2>1. i + Len(e) \in 1 .. Len(e) + Len(p) /\ ~(i + Len(e) <= Len(e)) /\ (i + Len(e)) - Len(e) = i
    BY <1>3
  <2>2. i + Len(e) \in DOMAIN accepted /\ accepted[i + Len(e)] = p[i]
    BY <1>1, <1>2, <1>3, <2>1
  <2>. QED  BY <1>5, <2>2 DEF CmdIn
<1>6. ASSUME NEW i \in DOMAIN accepted, accepted[i].cmd = c
      PROVE  (\E j \in DOMAIN e : e[j].cmd = c) \/ (\E j \in DOMAIN p : p[j].cmd = c)
  <2>1. CASE i <= Len(e)
    <3>1. i \in DOMAIN e /\ accepted[i] = e[i]
      BY <1>1, <1>2, <1>3, <2>1
    <3>. QED  BY <1>6, <3>1
  <2>2. CASE ~(i <= Len(e))
    <3>1. i - Len(e) \in DOMAIN p /\ accepted[i] = p[i - Len(e)]
      BY <1>1, <1>2, <1>3, <2>2
    <3>. QED  BY <1>6, <3>1
  <2>. QED  BY <2>1, <2>2
<1>. QED  BY <1>4, <1>5, <1>6 DEF CmdIn, Service!In, e, p

\* The replies the executor has transmitted precede the ones in its queue.
LEMMA WireBeforeQueue ==
    ASSUME TypeOK, OrderInv, response_out # << >>,
           NEW q, q \in Wire, q.from = "executor", q.cmd = Head(response_out).cmd
    PROVE  q.type = "ACK" /\ Head(response_out).type # "ACK"
<1>1. Head(response_out) = response_out[1] /\ 1 \in DOMAIN response_out
  BY ResponseAccepted DEF OrderInv
<1>2. PICK k \in Conn : \E i \in DOMAIN out[k] : out[k][i] = q
  BY WireMember
<1>3. Before(q, Head(response_out), accepted)
  BY <1>1, <1>2 DEF OrderInv, TransmittedInOrder
<1>4. PICK a, b \in DOMAIN accepted :
        /\ accepted[a].cmd = q.cmd /\ accepted[b].cmd = q.cmd
        /\ Place(q, a) < Place(Head(response_out), b)
  BY <1>3 DEF Before
<1>5. a = b /\ a \in Nat
  BY <1>4, LenProperties DEF OrderInv, AcceptedOnce, TypeOK, PastType
<1>. QED  BY <1>4, <1>5 DEF Place

LEMMA AnswerStep ==
    ASSUME TypeOK, Fifo, OrderInv, NEW r \in Reply, Answers(r)
    PROVE  r \notin Wire /\ Service!Justified(r)
<1>1. ~AnsweredIn(r.cmd, out) /\ (CmdIn(r.cmd, accepted) <=> r.type = "ACK")
  BY DEF Answers, OrderInv, MsgUnanswered
<1>2. r \notin Wire
  BY <1>1, WireMember DEF AnsweredIn, CmdIn
<1>3. ASSUME NEW q \in Wire
      PROVE  q.cmd # r.cmd
  BY <1>1, <1>3, WireMember DEF AnsweredIn, CmdIn
<1>4. ~Service!Begun(r.cmd)
  BY <1>3 DEF Service!Begun, Wire
<1>5. Service!Accepted(r.cmd) <=> CmdIn(r.cmd, accepted)
  BY AcceptedIsPendingOrDone DEF Service!Accepted, Pending
<1>6. r.from = "coms" /\ r.type \in {"ACK", "ERROR"}
  BY DEF Answers
<1>. QED  BY <1>1, <1>2, <1>4, <1>5, <1>6 DEF Service!Justified

LEMMA ForwardStep ==
    ASSUME TypeOK, Fifo, OrderInv, NEW r \in Reply, Forwards(r)
    PROVE  r \notin Wire /\ Service!Justified(r)
<1>. response_out # << >> /\ r = Head(response_out)
  BY DEF Forwards
<1>1. /\ r = response_out[1] /\ 1 \in DOMAIN response_out
      /\ r.from = "executor" /\ CmdIn(r.cmd, accepted)
  BY ResponseAccepted DEF OrderInv
<1>2. r \notin Wire
  BY <1>1, WireBeforeQueue
<1>3. ~Service!Finished(r.cmd)
  BY WireBeforeQueue DEF Service!Finished, Wire
<1>4. Service!Accepted(r.cmd)
  BY <1>1, AcceptedIsPendingOrDone DEF Service!Accepted, Pending
<1>5. r.type # "ACK" => Service!In(r.cmd, executed)
  <2>1. PICK a \in DOMAIN accepted : accepted[a].cmd = r.cmd /\ Place(r, a) <= Progress
    BY <1>1 DEF OrderInv, ResponsesInOrder, Made
  <2>. DEFINE e == executed
              p == Pending
  <2>2. e \in Seq(Item) /\ p \in Seq(Item) /\ accepted = e \o p
    <3>1. /\ executed \in Seq(Item) /\ cmd \in Seq(Item) /\ command_in \in Seq(Item)
          /\ accepted = (executed \o cmd) \o command_in
      BY DEF TypeOK, PastType, ExecType, QueueType, Fifo
    <3>. DEFINE c == cmd
                i == command_in
    <3>. HIDE DEF e, c, i
    <3>2. c \o i \in Seq(Item) /\ accepted = e \o (c \o i)
      <4>1. e \in Seq(Item) /\ c \in Seq(Item) /\ i \in Seq(Item) /\ accepted = (e \o c) \o i
        BY <3>1 DEF e, c, i
      <4>2. c \o i \in Seq(Item) /\ Regroups(e, c, i)
        BY <4>1, Joined, Regrouped, Zenon
      <4>. QED  BY <4>1, <4>2, Zenon DEF Regroups
    <3>. QED  BY <3>1, <3>2 DEF Pending, e, c, i
  <2>. HIDE DEF p
  <2>3. a \in Nat \ {0} /\ Len(e) \in Nat /\ DOMAIN e = 1 .. Len(e)
    BY <2>2, LenProperties DEF TypeOK, PastType
  <2>4. r.type # "ACK" => a <= Len(e)
    BY <2>1, <2>3 DEF Place, Progress
  <2>. HIDE DEF e
  <2>5. a <= Len(e) => a \in DOMAIN e /\ accepted[a] = e[a]
    <3>1. /\ Len(e \o p) = Len(e) + Len(p)
          /\ \A i \in 1 .. Len(e) + Len(p) :
                (e \o p)[i] = IF i <= Len(e) THEN e[i] ELSE p[i - Len(e)]
      BY <2>2, ConcatProperties
    <3>2. Len(p) \in Nat
      BY <2>2, LenProperties
    <3>. QED  BY <2>2, <2>3, <3>1, <3>2
  <2>. QED  BY <2>1, <2>4, <2>5 DEF Service!In, e
<1>. QED  BY <1>1, <1>2, <1>3, <1>4, <1>5 DEF Service!Justified

LEMMA ServiceInit == Init => Service!Init
<1>. SUFFICES ASSUME Init
              PROVE  Service!Init
  OBVIOUS
<1>1. cmd = << >> /\ command_in = << >> /\ executed = << >>
  BY DEF Init
<1>2. cmd \o command_in = << >>
  BY <1>1
<1>3. \A r : r \notin Wire
  BY WireMember DEF Init
<1>. QED  BY <1>1, <1>2, <1>3 DEF Service!Init, Wire

LEMMA ServiceNext ==
    ASSUME TypeOK, Fifo, OrderInv, [Next]_vars
    PROVE  [Service!Next]_Service!vars
<1>1. CASE /\ Accepts /\ UNCHANGED executed /\ Pending' = Append(Pending, msg[1])
  <2>1. msg[1] \in Item
    BY <1>1, MsgHeld DEF Accepts, TypeOK
  <2>2. Len(Pending) < QLen + 1
    <3>1. /\ cmd \in Seq(Item) /\ command_in \in Seq(Item) /\ Len(cmd) \in 0 .. 1
          /\ Len(command_in) < QLen
      BY <1>1 DEF Accepts, TypeOK, ExecType, QueueType
    <3>2. Len(cmd \o command_in) = Len(cmd) + Len(command_in)
      BY <3>1, ConcatProperties
    <3>3. Len(command_in) \in Nat /\ QLen \in Nat
      BY <3>1, CommandPathAssumption
    <3>. DEFINE k == Len(cmd)
                l == Len(command_in)
    <3>4. k \in 0 .. 1 /\ l \in Nat /\ l < QLen /\ Len(Pending) = k + l
      BY <3>1, <3>2, <3>3 DEF Pending
    <3>. HIDE DEF k, l
    <3>. QED  BY <3>3, <3>4
  <2>3. ~CmdIn(msg[1].cmd, accepted) /\ ~AnsweredIn(msg[1].cmd, out)
    BY <1>1 DEF Accepts, OrderInv, MsgUnanswered
  <2>4. ~Service!Accepted(msg[1].cmd)
    BY <2>3, AcceptedIsPendingOrDone DEF Service!Accepted, Pending
  <2>5. ~Service!Refused(msg[1].cmd)
    BY <2>3 DEF Service!Refused, AnsweredIn, CmdIn
  <2>6. UNCHANGED <<executed, Wire>>
    BY <1>1 DEF Accepts, Wire
  <2>7. Service!Accept(msg[1])
    BY <1>1, <2>2, <2>4, <2>5, <2>6 DEF Service!Accept, Pending, Wire
  <2>. QED  BY <2>1, <2>7 DEF Service!Next
<1>2. CASE /\ UNCHANGED <<accepted, out>> /\ epc = "run"
           /\ Pending # << >> /\ Pending' = Tail(Pending)
           /\ executed' = Append(executed, Head(Pending))
  <2>1. UNCHANGED Wire
    BY <1>2 DEF Wire
  <2>2. Service!Execute
    BY <1>2, <2>1 DEF Service!Execute, Pending, Wire
  <2>. QED  BY <2>2 DEF Service!Next
<1>3. CASE UNCHANGED <<accepted, executed, Pending>>
  <2>1. ASSUME NEW r \in Reply, Answers(r) \/ Forwards(r)
        PROVE  [Service!Next]_Service!vars
    <3>1. r \notin Wire /\ Service!Justified(r)
      BY <2>1, AnswerStep, ForwardStep
    <3>2. Wire' = Wire \/ Wire' = Wire \union {r}
      BY <2>1, WireStep DEF Answers, Forwards
    <3>3. CASE Wire' = Wire
      BY <1>3, <3>3 DEF Service!vars, Pending, Wire
    <3>4. CASE Wire' = Wire \union {r}
      <4>1. Service!Answer(r)
        BY <1>3, <3>1, <3>4 DEF Service!Answer, Pending, Wire
      <4>. QED  BY <4>1 DEF Service!Next
    <3>. QED  BY <3>2, <3>3, <3>4
  <2>2. CASE UNCHANGED out
    <3>1. UNCHANGED Wire
      BY <2>2 DEF Wire
    <3>. QED  BY <1>3, <3>1 DEF Service!vars, Pending, Wire
  <2>. QED
    BY <2>1, <2>2, StepKinds DEF Quiet, Takes, Accepts, Responds
<1>. QED  BY <1>1, <1>2, <1>3, PendingSteps

\* The firmware implements CommandService: with the sockets, the tasks and
\* the queues hidden, it is one queue of QLen + 1 commands served in order,
\* with at most one reply of each kind to a command, never too early.
THEOREM ImplementsService == Spec => ServiceSpec
<1>1. Init => Service!Init
  BY ServiceInit
<1>2. TypeOK /\ Fifo /\ OrderInv /\ [Next]_vars => [Service!Next]_Service!vars
  BY ServiceNext
<1>. QED
  BY <1>1, <1>2, TypeCorrect, FifoHolds, OrderHolds, PTL DEF Spec, ServiceSpec, Service!Spec
============================================================================
