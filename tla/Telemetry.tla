----------------------------- MODULE Telemetry -----------------------------
(***************************************************************************)
(* photodiode_task: it converts the two photodiodes in turn with the       *)
(* ADS1115 on i2c0 and queues each result for coms_task, which publishes   *)
(* one in each of its rounds.                                              *)
(*                                                                         *)
(* xQueueSend() copies a PubMessage byte by byte.  Topic and payload are   *)
(* short std::strings, whose characters stand in photodiode_task's own msg *)
(* and nowhere else: a copy has its own lengths and the addresses of those *)
(* characters.  Both topics have 14 of them, payloads from 1 to 6.         *)
(*                                                                         *)
(* A transfer on i2c0 may fail unnoticed, a conversion may take longer     *)
(* than the 8 ms the task waits, and coms_task may hang in recv().  A      *)
(* value is named after what it was read from: the channel converted, or a *)
(* register of the ADC.                                                    *)
(***************************************************************************)
EXTENDS Integers, Sequences

CONSTANTS
    PubLen,     \* length of pub_out (10 in main.cpp)
    Channel     \* the channel of each key: MuxSingle_0 and MuxSingle_1

DiodeKeys    == {"yj", "hk"}
AdcRegisters == {"CONVERT", "CONFIG", "HITHRESH", "LOWTHRESH"}
Chans        == {Channel[k] : k \in DiodeKeys}

ASSUME TelemetryAssumption ==
    /\ PubLen \in Nat \ {0} /\ DOMAIN Channel = DiodeKeys
    /\ Channel["yj"] # Channel["hk"] /\ "none" \notin Chans

\* 0 in CONVERT after power-up, and what the other registers read as.
Values == Chans \union {"zero"} \union AdcRegisters

VARIABLES
    tpc,         \* "start", "delay", "read", "topic", "payload", "queue"
    sample_yj,
    writes,      \* registers startADCReading() has still to write
    pointer,     \* the register of the ADC a read returns
    convert,     \* content of its conversion register
    converting,  \* the channel being converted, "none" when idle
    voltage,
    clean,       \* history: no transfer of this sample failed, none was late
    msg,         \* topic and payload as they stand in photodiode_task's msg
    pub_out,     \* the copies, each by the sample it was made of, or Later once
                 \* msg has been written again
    taken,       \* the copy that send_pub() was given
    pub,         \* what it has read through that copy, and whether msg stood still
    coms         \* coms_task: "recv" until it looks at pub_out, in "drain"; then
                 \* "topic", "payload" and "send" in send_pub()

adc     == <<pointer, convert, converting>>
coming  == <<taken, pub, coms>>
telVars == <<tpc, sample_yj, writes, adc, voltage, clean, msg, pub_out, coming>>

Key     == IF sample_yj THEN "yj" ELSE "hk"
NoMsg   == [topic |-> "none", payload |-> "zero", clean |-> TRUE]
Message == [topic : DiodeKeys, payload : Values, clean : BOOLEAN]
NoPub   == [topic |-> "none", payload |-> "zero", clean |-> TRUE, steady |-> FALSE]
Later   == [topic |-> "none", payload |-> "zero", clean |-> FALSE]

TelInit ==
    /\ tpc = "start" /\ sample_yj = TRUE
    /\ writes = <<"CONFIG", "HITHRESH", "LOWTHRESH">>
    /\ pointer = "CONVERT" /\ convert = "zero" /\ converting = "none"
    /\ voltage = "zero" /\ clean = TRUE
    /\ msg = NoMsg /\ pub_out = << >> /\ taken = Later
    /\ pub = NoPub /\ coms = "recv"

----------------------------------------------------------------------------
(* The ADC.                                                                *)

\* A write that fails leaves pointer and registers as they were; nobody is told.
WriteRegister(reg, ok) ==
    /\ pointer' = IF ok THEN reg ELSE pointer
    /\ converting' = IF ok /\ reg = "CONFIG" THEN Channel[Key] ELSE converting

\* startADCReading(), one writeRegister() at a time.
StartADCReading ==
    /\ tpc = "start" /\ writes # << >>
    /\ writes' = Tail(writes)
    /\ tpc' = IF Len(writes) = 1 THEN "delay" ELSE "start"
    /\ \E ok \in BOOLEAN : WriteRegister(Head(writes), ok) /\ clean' = (clean /\ ok)
    /\ UNCHANGED <<sample_yj, convert, voltage, msg, pub_out, coming>>

\* External: the conversion ends.
Converted ==
    /\ converting # "none"
    /\ convert' = converting /\ converting' = "none"
    /\ UNCHANGED <<tpc, sample_yj, writes, pointer, voltage, clean, msg, pub_out, coming>>

\* vTaskDelay(8 ms) is over, the conversion or not.
DelayOver ==
    /\ tpc = "delay"
    /\ tpc' = "read"
    /\ clean' = (clean /\ converting = "none")
    /\ UNCHANGED <<sample_yj, writes, adc, voltage, msg, pub_out, coming>>

Content(reg) == IF reg = "CONVERT" THEN convert ELSE reg

\* When the read fails the buffer still holds the register's number, 0, and the
\* low byte sent last; when the pointer is not set another register is read.
ReadRegister(ok) == IF ok THEN Content(pointer') ELSE "zero"

\* The assignments to msg begin: from here on each copy shows, and a send_pub()
\* under way reads, something else than before.
Overwrites ==
    /\ pub_out' = [i \in DOMAIN pub_out |-> Later]
    /\ taken' = Later
    /\ pub' = [pub EXCEPT !.steady = FALSE]

\* Mutant: the pointer register is not set before the read.
ReadResult_NoPointer ==
    /\ tpc = "read"
    /\ tpc' = "topic"
    /\ pointer' = pointer
    /\ \E ok \in BOOLEAN : voltage' = ReadRegister(ok) /\ clean' = (clean /\ ok)
    /\ Overwrites
    /\ UNCHANGED <<sample_yj, writes, convert, converting, msg, coms>>

\* getLastConversionResults().
ReadResult ==
    /\ tpc = "read"
    /\ tpc' = "topic"
    /\ \E pointed, ok \in BOOLEAN :
           /\ pointer' = IF pointed THEN "CONVERT" ELSE pointer
           /\ voltage' = ReadRegister(ok)
           /\ clean' = (clean /\ pointed /\ ok)
    /\ Overwrites
    /\ UNCHANGED <<sample_yj, writes, convert, converting, msg, coms>>

----------------------------------------------------------------------------
(* msg and pub_out.                                                        *)

\* Mutant: the channel is toggled before the sample gets its topic.
WriteTopic_Toggled ==
    /\ tpc = "topic" /\ tpc' = "payload"
    /\ msg' = [msg EXCEPT !.topic = IF sample_yj THEN "hk" ELSE "yj"]
    /\ UNCHANGED <<sample_yj, writes, adc, voltage, clean, pub_out, coming>>

\* msg.topic = ...
WriteTopic ==
    /\ tpc = "topic" /\ tpc' = "payload"
    /\ msg' = [msg EXCEPT !.topic = Key]
    /\ UNCHANGED <<sample_yj, writes, adc, voltage, clean, pub_out, coming>>

\* msg.payload = std::to_string(voltage)
WritePayload ==
    /\ tpc = "payload" /\ tpc' = "queue"
    /\ msg' = [msg EXCEPT !.payload = voltage, !.clean = clean]
    /\ UNCHANGED <<sample_yj, writes, adc, voltage, clean, pub_out, coming>>

\* What send_pub() finds at the addresses of a copy: in the middle of an assignment
\* characters of both values.
Standing == [msg EXCEPT !.topic   = IF tpc = "topic" THEN "torn" ELSE @,
                        !.payload = IF tpc = "payload" THEN "torn" ELSE @]

Sampled == [topic |-> Key, payload |-> voltage, clean |-> clean]

\* Mutant: the queue is not looked at before it is written.
Room_Always == TRUE

Room == Len(pub_out) < PubLen

NextSample ==
    /\ sample_yj' = ~sample_yj
    /\ tpc' = "start" /\ writes' = <<"CONFIG", "HITHRESH", "LOWTHRESH">> /\ clean' = TRUE

\* xQueueSend(pub_out, portMAX_DELAY), the toggle and the delay until the next
\* sample is due; the last conversion has ended by then.
Publish ==
    /\ tpc = "queue" /\ converting = "none" /\ Room
    /\ pub_out' = Append(pub_out, Sampled)
    /\ NextSample
    /\ UNCHANGED <<adc, voltage, msg, coming>>

\* Mutant: the queue is looked at only when a command was received.
Drain_OnCommand ==
    /\ coms = "drain" /\ coms' = "recv"
    /\ UNCHANGED <<tpc, sample_yj, writes, adc, voltage, clean, msg, pub_out, taken, pub>>

\* coms_task hands at most one message a round to send_pub().
Drain ==
    /\ coms = "drain"
    /\ IF pub_out # << >>
         THEN taken' = Head(pub_out) /\ pub_out' = Tail(pub_out) /\ coms' = "topic"
         ELSE UNCHANGED <<taken, pub_out>> /\ coms' = "recv"
    /\ UNCHANGED <<tpc, sample_yj, writes, adc, voltage, clean, msg, pub>>

\* add_part(pub.topic) of send_pub().
ReadTopic ==
    /\ coms = "topic" /\ coms' = "payload"
    /\ pub' = [pub EXCEPT !.topic = Standing.topic, !.steady = tpc \notin {"topic", "payload"}]
    /\ UNCHANGED <<tpc, sample_yj, writes, adc, voltage, clean, msg, pub_out, taken>>

\* add_part(pub.payload): as many characters as the copy's own payload had.  Those
\* of another sample are cut, or followed by what stood there before.
ReadPayload ==
    /\ coms = "payload" /\ coms' = "send"
    /\ \E cut \in {FALSE, taken = Later} :
         pub' = [pub EXCEPT !.payload = IF cut THEN "cut" ELSE Standing.payload,
                            !.clean = msg.clean]
    /\ UNCHANGED <<tpc, sample_yj, writes, adc, voltage, clean, msg, pub_out, taken>>

\* The rest of send_pub(): send(), or the socket is opened anew, for which disconnect()
\* may wait.
Send ==
    /\ coms = "send" /\ coms' = "recv"
    /\ taken' = Later /\ pub' = NoPub
    /\ UNCHANGED <<tpc, sample_yj, writes, adc, voltage, clean, msg, pub_out>>

\* tick(), receive() and send_reply() return: at once, later, or never while recv() or
\* disconnect() waits for a peer that is silent.
ReceiveReturns ==
    /\ coms = "recv" /\ coms' = "drain"
    /\ UNCHANGED <<tpc, sample_yj, writes, adc, voltage, clean, msg, pub_out, taken, pub>>

Samples   == StartADCReading \/ DelayOver \/ ReadResult \/ WriteTopic \/ WritePayload \/ Publish
Publishes == Drain \/ ReadTopic \/ ReadPayload
TelNext   == Samples \/ Converted \/ Publishes \/ Send \/ ReceiveReturns

\* The ADC converts, both tasks go on; nothing is said of what coms_task waits for.
TelFair == WF_telVars(Samples) /\ WF_telVars(Converted) /\ WF_telVars(Publishes)
TelSpec == TelInit /\ [][TelNext]_telVars /\ TelFair

----------------------------------------------------------------------------
(* Properties.                                                             *)

TelTypeOK ==
    /\ tpc \in {"start", "delay", "read", "topic", "payload", "queue"}
    /\ coms \in {"recv", "drain", "topic", "payload", "send"}
    /\ sample_yj \in BOOLEAN /\ clean \in BOOLEAN
    /\ writes \in {<< >>, <<"LOWTHRESH">>, <<"HITHRESH", "LOWTHRESH">>,
                   <<"CONFIG", "HITHRESH", "LOWTHRESH">>}
    /\ pointer \in AdcRegisters /\ convert \in Chans \union {"zero"}
    /\ converting \in Chans \union {"none"} /\ voltage \in Values
    /\ msg \in [topic : DiodeKeys \union {"none"}, payload : Values, clean : BOOLEAN]
    /\ pub_out \in Seq(Message \union {Later}) /\ Len(pub_out) <= PubLen
    /\ taken \in Message \union {Later}
    /\ pub \in [topic : DiodeKeys \union {"none", "torn"}, payload : Values \union {"torn", "cut"},
               clean : BOOLEAN, steady : BOOLEAN]

\* As long as coms_task keeps up, what is published is the sample that was queued:
\* topic and payload of a copy that send_pub() has read before photodiode_task wrote
\* msg again.  A copy that waited longer shows a later sample in its place.
PublishedAsSampled ==
    coms = "send" /\ taken # Later
        => pub.topic = taken.topic /\ pub.payload = taken.payload

\* Also after a backlog a value is published under the key of the channel it was
\* converted on, whatever happened to other samples: unless a transfer of this very
\* sample failed, its conversion was late, msg was written while send_pub() read it,
\* or its characters were cut to the length of another sample.
ValueOfItsChannel ==
    coms = "send" /\ pub.steady /\ pub.clean /\ pub.payload # "cut"
        => pub.payload = Channel[pub.topic]

\* Samples are taken for ever, unless coms_task waits for a peer for good.
TelemetryGoesOn == []<>(tpc = "start") \/ <>[](coms = "recv") \/ <>[](coms = "send")
=============================================================================
