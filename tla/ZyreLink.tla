------------------------------ MODULE ZyreLink ------------------------------
(***************************************************************************)
(* How coms_task keeps the device on the network: ZyreBeacon::tick() (link *)
(* loss, DHCP, the ENTER announcement) and what the rest of the loop does  *)
(* to the sockets between two ticks: receive(), send_reply(), send_pub().  *)
(*                                                                         *)
(* Messages have no content here (CommandPath follows them); a command     *)
(* leaves behind replies that coms_task may send at any later turn.        *)
(*                                                                         *)
(* The peers, the cable and the DHCP server act between any two steps of   *)
(* coms_task, also inside its waits.                                       *)
(***************************************************************************)
EXTENDS DhcpService

CONSTANTS
    NWhisper,   \* number of WHISPER sockets (4 in the code)
    Polls,      \* calls of DHCP_run in start_dhcp (100 in the code)
    MaxCmds     \* bound: commands received

ASSUME ZyreLinkAssumption ==
    /\ NWhisper \in Nat \ {0}
    /\ Polls \in Nat \ {0}
    /\ MaxCmds \in Nat

Udp      == 0
Whisper  == 1 .. NWhisper
Overflow == NWhisper + 1
Pub      == NWhisper + 2
Sock     == 0 .. NWhisper + 2          \* 0 .. SOCKET_COUNT - 1
Polled   == 1 .. NWhisper + 1          \* the sockets receive() goes through
Tcp      == 1 .. NWhisper + 2

VARIABLES
    phy,                 \* the link as the PHY reports it
    SR,                  \* Sn_SR of each socket
    socket_initialized,
    last_link_status, dhcp_active, enter_sent,
    polls,               \* i of start_dhcp, 0 outside it
    looping,             \* coms_task is past its first tick()
    cpc, sn,             \* coms_task: where it is, and the socket it is at
    closing,             \* the socket send_reply() or send_pub() waits for in
                         \* disconnect(), or 0
    owed,                \* replies the executor may still hand over, per socket
    ncmds,               \* commands received
    announced,           \* history: an ENTER was sent since the address was cleared
    lost                 \* history: a link loss not yet noticed as over

socks == <<SR, socket_initialized>>
link  == <<last_link_status, dhcp_active, enter_sent>>
ctl   == <<polls, looping, cpc, sn, closing>>
work  == <<owed, ncmds>>
hist  == <<announced, lost>>
vars  == <<dhcp, phy, socks, link, ctl, work, hist>>

\* main() waits for the link before the tasks start.
Init ==
    /\ DhcpPowerUp
    /\ phy = TRUE
    /\ SR = [s \in Sock |-> "CLOSED"]
    /\ socket_initialized = [s \in Sock |-> FALSE]
    /\ last_link_status = TRUE /\ dhcp_active = FALSE /\ enter_sent = FALSE
    /\ polls = 0 /\ looping = FALSE /\ cpc = "tick" /\ sn = 1 /\ closing = 0
    /\ owed = [s \in Whisper |-> 0] /\ ncmds = 0
    /\ announced = FALSE /\ lost = FALSE

----------------------------------------------------------------------------
(* Cable, server, peers.                                                   *)

LinkDrop ==
    /\ phy /\ phy' = FALSE
    /\ lost' = TRUE
    /\ UNCHANGED <<dhcp, socks, link, ctl, work, announced>>

LinkRise ==
    /\ ~phy /\ phy' = TRUE
    /\ UNCHANGED <<dhcp, socks, link, ctl, work, hist>>

\* The first call of DHCP_run sends DISCOVER, the second REQUEST.
ServerAnswers ==
    /\ phy /\ cpc = "dhcp" /\ polls >= 2
    /\ \E a \in Addr : ServerAcks(a)
    /\ UNCHANGED <<phy, socks, link, ctl, work, hist>>

PeerConnects(s) ==
    /\ phy /\ SIPR # NoAddr /\ SR[s] = "LISTEN"
    /\ SR' = [SR EXCEPT ![s] = "ESTABLISHED"]
    /\ UNCHANGED <<dhcp, phy, socket_initialized, link, ctl, work, announced, lost>>

PeerFin(s) ==
    /\ phy /\ SR[s] = "ESTABLISHED"
    /\ SR' = [SR EXCEPT ![s] = "CLOSE_WAIT"]
    /\ UNCHANGED <<dhcp, phy, socket_initialized, link, ctl, work, hist>>

\* A reset from the peer, or the chip gives up retransmitting, or the peer answers
\* the FIN of disconnect() with its own.
ConnectionEnds(s) ==
    /\ SR[s] \in {"ESTABLISHED", "CLOSE_WAIT", "FIN_WAIT", "LAST_ACK"}
    /\ SR' = [SR EXCEPT ![s] = "CLOSED"]
    /\ UNCHANGED <<dhcp, phy, socket_initialized, link, ctl, work, hist>>

Environment ==
    \/ LinkDrop \/ LinkRise \/ ServerAnswers
    \/ \E s \in Tcp : PeerConnects(s) \/ PeerFin(s) \/ ConnectionEnds(s)

----------------------------------------------------------------------------
(* Sockets.                                                                *)

\* socket() and listen() for TCP: refused while the chip has no address.
Listen(s) ==
    IF SIPR = NoAddr THEN UNCHANGED SR ELSE SR' = [SR EXCEPT ![s] = "LISTEN"]

\* close(), then socket() and listen().
Reopen(s) ==
    SR' = [SR EXCEPT ![s] = IF SIPR = NoAddr THEN "CLOSED" ELSE "LISTEN"]

\* disconnect(): returns once the socket is CLOSED, which in FIN_WAIT takes the
\* peer's own FIN, in LAST_ACK nothing the chip does not see to.
disconnect(s) ==
    SR' = [SR EXCEPT ![s] = IF @ = "ESTABLISHED" THEN "FIN_WAIT" ELSE "LAST_ACK"]

Disconnectable(s) == SR[s] \in {"LISTEN", "ESTABLISHED", "CLOSE_WAIT"}

\* send_reply(): sent on an established socket with room in its transmit memory;
\* otherwise dropped and the socket opened anew, after disconnect() if need be.
SendReply(s) ==
    \/ SR[s] = "ESTABLISHED" /\ UNCHANGED <<SR, closing>>
    \/ SR[s] = "CLOSED" /\ Reopen(s) /\ UNCHANGED closing
    \/ Disconnectable(s) /\ disconnect(s) /\ closing' = s

\* disconnect() returns.
Reopened ==
    /\ closing # 0 /\ SR[closing] = "CLOSED"
    /\ Reopen(closing)
    /\ closing' = 0
    /\ UNCHANGED <<dhcp, phy, socket_initialized, link, polls, looping, cpc, sn, work, hist>>

----------------------------------------------------------------------------
(* tick()                                                                  *)

\* Before its loop coms_task ticks once more.
AfterTick ==
    /\ cpc' = IF looping THEN "poll" ELSE "tick"
    /\ looping' = TRUE
    /\ sn' = 1

\* handle_link_down(): only the first time is there anything to do.
TickDown ==
    /\ cpc = "tick" /\ ~phy
    /\ IF last_link_status
         THEN /\ enter_sent' = FALSE /\ dhcp_active' = FALSE
              /\ cpc' = "down" /\ sn' = 0
              /\ UNCHANGED looping
         ELSE AfterTick /\ UNCHANGED <<enter_sent, dhcp_active>>
    /\ UNCHANGED <<dhcp, phy, socks, last_link_status, polls, closing, work, hist>>

\* Every socket is disconnected and closed, in their order; the cable, the peers
\* and the chip do not wait for that.
DownDisconnect ==
    /\ cpc = "down" /\ Disconnectable(sn)
    /\ disconnect(sn)
    /\ UNCHANGED <<dhcp, phy, socket_initialized, link, ctl, work, hist>>

DownClose ==
    /\ cpc = "down" /\ SR[sn] \in {"CLOSED", "UDP"}
    /\ SR' = [SR EXCEPT ![sn] = "CLOSED"]
    /\ socket_initialized' = [socket_initialized EXCEPT ![sn] = FALSE]
    /\ IF sn < Pub
         THEN sn' = sn + 1 /\ UNCHANGED <<cpc, looping, last_link_status, dhcp>>
         ELSE /\ DHCP_stop /\ UNCHANGED SIPR
              /\ last_link_status' = FALSE
              /\ AfterTick
    /\ UNCHANGED <<phy, dhcp_active, enter_sent, polls, closing, work, hist>>

TickUp ==
    /\ cpc = "tick" /\ phy
    /\ cpc' = "restored"
    /\ UNCHANGED <<dhcp, phy, socks, link, polls, looping, sn, closing, work, hist>>

\* link_restored() looks at the link a second time.
Restored == ~last_link_status /\ phy
Active   == dhcp_active /\ ~Restored

\* Mutant: link_restored() leaves last_link_status alone.
StartDhcpForgets ==
    /\ cpc = "restored" /\ ~Active
    /\ dhcp_active' = FALSE
    /\ lost' = (lost /\ ~Restored)
    /\ DHCP_init /\ announced' = FALSE
    /\ polls' = 0 /\ cpc' = "dhcp"
    /\ UNCHANGED <<phy, socks, last_link_status, enter_sent, looping, sn, closing, work>>

\* Mutant: tick() does not clear dhcp_active when the link is restored.
StartDhcpStillActive ==
    /\ cpc = "restored" /\ ~Active
    /\ last_link_status' = (last_link_status \/ Restored)
    /\ lost' = (lost /\ ~Restored)
    /\ DHCP_init /\ announced' = FALSE
    /\ polls' = 0 /\ cpc' = "dhcp"
    /\ UNCHANGED <<phy, socks, dhcp_active, enter_sent, looping, sn, closing, work>>

StartDhcp ==
    /\ cpc = "restored" /\ ~Active
    /\ last_link_status' = (last_link_status \/ Restored)
    /\ dhcp_active' = FALSE
    /\ lost' = (lost /\ ~Restored)
    /\ DHCP_init /\ announced' = FALSE
    /\ polls' = 0 /\ cpc' = "dhcp"
    /\ UNCHANGED <<phy, socks, enter_sent, looping, sn, closing, work>>

\* Mutant: ENTER is sent once, not every ENTER_INTERVAL_S.
SendEnterOnce ==
    /\ cpc = "restored" /\ Active /\ ~enter_sent
    /\ SR' = IF socket_initialized[Udp] THEN SR ELSE [SR EXCEPT ![Udp] = "UDP"]
    /\ socket_initialized' = [socket_initialized EXCEPT ![Udp] = TRUE]
    /\ enter_sent' = TRUE
    /\ announced' = TRUE
    /\ AfterTick
    /\ UNCHANGED <<dhcp, phy, last_link_status, dhcp_active, polls, closing, work, lost>>

\* maybe_send_enter(): at once, and then every ENTER_INTERVAL_S.
SendEnter ==
    /\ cpc = "restored" /\ Active
    /\ SR' = IF socket_initialized[Udp] THEN SR ELSE [SR EXCEPT ![Udp] = "UDP"]
    /\ socket_initialized' = [socket_initialized EXCEPT ![Udp] = TRUE]
    /\ enter_sent' = TRUE
    /\ announced' = TRUE
    /\ AfterTick
    /\ UNCHANGED <<dhcp, phy, last_link_status, dhcp_active, polls, closing, work, lost>>

SkipEnter ==
    /\ cpc = "restored" /\ Active /\ enter_sent
    /\ AfterTick
    /\ UNCHANGED <<dhcp, phy, socks, link, polls, closing, work, hist>>

\* start_dhcp(): DHCP_run() answers DHCP_IP_LEASED.
DhcpLeased ==
    /\ cpc = "dhcp" /\ polls < Polls /\ dhcp_state = "LEASED"
    /\ dhcp_active' = TRUE /\ polls' = 0
    /\ AfterTick
    /\ UNCHANGED <<dhcp, phy, socks, last_link_status, enter_sent, closing, work, hist>>

\* start_dhcp(): any other answer; after the last call DHCP is stopped.
DhcpPoll ==
    /\ cpc = "dhcp" /\ polls < Polls
    /\ Wait \/ Assign
    /\ polls' = polls + 1
    /\ UNCHANGED <<phy, socks, link, looping, cpc, sn, closing, work, hist>>

DhcpGiveUp ==
    /\ cpc = "dhcp" /\ polls = Polls
    /\ DHCP_stop /\ UNCHANGED SIPR
    /\ polls' = 0
    /\ AfterTick
    /\ UNCHANGED <<phy, socks, link, closing, work, hist>>

DhcpConflict ==
    /\ cpc = "dhcp" /\ polls < Polls
    /\ Conflict
    /\ cpc' = "spin" /\ polls' = 0
    /\ UNCHANGED <<phy, socks, link, looping, sn, closing, work, hist>>

Tick ==
    \/ TickDown \/ DownDisconnect \/ DownClose
    \/ TickUp \/ StartDhcp \/ SendEnter \/ SkipEnter
    \/ DhcpLeased \/ DhcpPoll \/ DhcpGiveUp \/ DhcpConflict

----------------------------------------------------------------------------
(* receive()                                                               *)

NextSocket ==
    IF sn = Overflow THEN cpc' = "drain" /\ sn' = 1
                     ELSE cpc' = "poll" /\ sn' = sn + 1

\* The overflow socket is closed after its first receive.
AfterReceive ==
    IF sn = Overflow THEN cpc' = "flush" /\ UNCHANGED sn ELSE NextSocket

\* The flag is set whatever socket() and listen() answered.
OpenSocket ==
    /\ cpc = "poll" /\ ~socket_initialized[sn]
    /\ Listen(sn)
    /\ socket_initialized' = [socket_initialized EXCEPT ![sn] = TRUE]
    /\ UNCHANGED <<dhcp, phy, link, ctl, work, hist>>

SkipSocket ==
    /\ cpc = "poll" /\ socket_initialized[sn] /\ SR[sn] # "ESTABLISHED"
    /\ NextSocket
    /\ UNCHANGED <<dhcp, phy, socks, link, polls, looping, closing, work, hist>>

EnterRecv ==
    /\ cpc = "poll" /\ socket_initialized[sn] /\ SR[sn] = "ESTABLISHED"
    /\ cpc' = "recv"
    /\ UNCHANGED <<dhcp, phy, socks, link, polls, looping, sn, closing, work, hist>>

RecvHasData == cpc = "recv" /\ SR[sn] \in {"ESTABLISHED", "CLOSE_WAIT"}

\* A whole command: it will be acknowledged, and the executor owes an ACK
\* and a result.  On the overflow socket it is refused.
RecvCommand ==
    /\ RecvHasData /\ ncmds < MaxCmds
    /\ ncmds' = ncmds + 1
    /\ IF sn = Overflow
         THEN cpc' = "toobusy" /\ UNCHANGED owed
         ELSE cpc' = "ack" /\ owed' = [owed EXCEPT ![sn] = @ + 2]
    /\ UNCHANGED <<dhcp, phy, socks, link, polls, looping, sn, closing, hist>>

RecvFragment ==
    /\ RecvHasData
    /\ AfterReceive
    /\ UNCHANGED <<dhcp, phy, socks, link, polls, looping, closing, work, hist>>

RecvClosed ==
    /\ cpc = "recv" /\ SR[sn] \in {"CLOSED", "CLOSE_WAIT"}
    /\ SR' = [SR EXCEPT ![sn] = "CLOSED"]
    /\ socket_initialized' = [socket_initialized EXCEPT ![sn] = FALSE]
    /\ AfterReceive
    /\ UNCHANGED <<dhcp, phy, link, polls, looping, closing, work, hist>>

\* The overflow socket: "too busy" is sent, then disconnect() and close().
Refuse ==
    /\ cpc = "toobusy"
    /\ SendReply(sn)
    /\ cpc' = "flush"
    /\ UNCHANGED <<dhcp, phy, socket_initialized, link, polls, looping, sn, work, hist>>

OverflowDisconnect ==
    /\ cpc = "flush" /\ Disconnectable(sn)
    /\ disconnect(sn)
    /\ UNCHANGED <<dhcp, phy, socket_initialized, link, ctl, work, hist>>

OverflowClose ==
    /\ cpc = "flush" /\ SR[sn] = "CLOSED"
    /\ socket_initialized' = [socket_initialized EXCEPT ![sn] = FALSE]
    /\ NextSocket
    /\ UNCHANGED <<dhcp, phy, SR, link, polls, looping, closing, work, hist>>

----------------------------------------------------------------------------
(* The rest of the loop.                                                   *)

Acknowledge ==
    /\ cpc = "ack"
    /\ SendReply(sn)
    /\ cpc' = "drain" /\ sn' = 1
    /\ UNCHANGED <<dhcp, phy, socket_initialized, link, polls, looping, work, hist>>

\* Mutant: the answer of xQueueReceive is not looked at.
DrainUnchecked ==
    /\ cpc = "drain"
    /\ \E s \in Whisper :
         /\ owed' = [owed EXCEPT ![s] = @ - 1]
         /\ SendReply(s)
    /\ cpc' = "pub"
    /\ UNCHANGED <<dhcp, phy, socket_initialized, link, polls, looping, sn, ncmds, hist>>

\* A response of the executor, if there is one by now.
Drain ==
    /\ cpc = "drain"
    /\ \/ UNCHANGED <<SR, closing, owed>>
       \/ \E s \in Whisper :
            /\ owed[s] > 0
            /\ owed' = [owed EXCEPT ![s] = @ - 1]
            /\ SendReply(s)
    /\ cpc' = "pub"
    /\ UNCHANGED <<dhcp, phy, socket_initialized, link, polls, looping, sn, ncmds, hist>>

\* Mutant: the PUB socket is opened once, as receive() does with its own.
SendPubOpensOnce ==
    /\ cpc = "pub"
    /\ IF socket_initialized[Pub] THEN UNCHANGED SR ELSE Reopen(Pub)
    /\ UNCHANGED closing
    /\ socket_initialized' = [socket_initialized EXCEPT ![Pub] = TRUE]
    /\ cpc' = "tick"
    /\ UNCHANGED <<dhcp, phy, link, polls, looping, sn, work, hist>>

\* send_pub(): as send_reply(), but a socket that is not established is closed
\* without disconnect().
SendPub ==
    /\ cpc = "pub"
    /\ \/ SR[Pub] = "ESTABLISHED" /\ UNCHANGED <<SR, closing>>
       \/ SR[Pub] # "ESTABLISHED" /\ Reopen(Pub) /\ UNCHANGED closing
       \/ SR[Pub] = "ESTABLISHED" /\ disconnect(Pub) /\ closing' = Pub
    /\ cpc' = "tick"
    /\ UNCHANGED <<dhcp, phy, socket_initialized, link, polls, looping, sn, work, hist>>

NoPub ==
    /\ cpc = "pub"
    /\ cpc' = "tick"
    /\ UNCHANGED <<dhcp, phy, socks, link, polls, looping, sn, closing, work, hist>>

Receive ==
    \/ OpenSocket \/ SkipSocket \/ EnterRecv
    \/ RecvCommand \/ RecvFragment \/ RecvClosed
    \/ Refuse \/ OverflowDisconnect \/ OverflowClose

\* In the disconnect() of a reply or a publication coms_task does nothing else.
ComsTask ==
    \/ Reopened
    \/ closing = 0 /\ (Tick \/ Receive \/ Acknowledge \/ Drain \/ SendPub \/ NoPub)

Next == Environment \/ ComsTask

\* recv() returns when the connection has ended; that it returns for a peer that is
\* connected is up to the peer.
ComsRuns == (cpc # "recv" /\ ComsTask) \/ RecvClosed

\* The scheduler runs coms_task; nothing is assumed of the rest.
Spec == Init /\ [][Next]_vars /\ WF_vars(ComsRuns)

\* As Spec, and: a FIN that answers the peer's is acknowledged, or the chip gives
\* up; ENTER_INTERVAL_S passes; telemetry keeps coming; a server asked again and
\* again answers in time at last.
FairSpec ==
    /\ Spec
    /\ WF_vars(\E s \in Tcp : SR[s] = "LAST_ACK" /\ ConnectionEnds(s))
    /\ SF_vars(SendEnter) /\ SF_vars(closing = 0 /\ SendPub)
    /\ SF_vars(polls = 2 /\ ServerAnswers)

----------------------------------------------------------------------------
(* Safety.                                                                 *)

Status == {"CLOSED", "LISTEN", "ESTABLISHED", "CLOSE_WAIT", "FIN_WAIT", "LAST_ACK", "UDP"}

TypeOK ==
    /\ DhcpTypeOK
    /\ phy \in BOOLEAN /\ looping \in BOOLEAN
    /\ announced \in BOOLEAN /\ lost \in BOOLEAN
    /\ SR \in [Sock -> Status]
    /\ socket_initialized \in [Sock -> BOOLEAN]
    /\ last_link_status \in BOOLEAN /\ dhcp_active \in BOOLEAN
    /\ enter_sent \in BOOLEAN
    /\ polls \in 0 .. Polls
    /\ cpc \in {"tick", "restored", "dhcp", "spin", "poll", "recv", "ack",
                "toobusy", "flush", "drain", "pub", "down"}
    /\ sn \in Sock /\ (cpc # "down" => sn \in Polled)
    /\ closing \in Tcp \union {0}
    /\ owed \in [Whisper -> 0 .. 2 * MaxCmds] /\ ncmds \in 0 .. MaxCmds

\* While the device believes its lease active the chip has its address,
\* through any sequence of link losses and failed or interrupted exchanges.
ActiveHasAddress == dhcp_active => SIPR # NoAddr /\ dhcp_state = "LEASED"

\* Each loss of the link costs at most one lease: while the device uses an
\* address, tick() gives it up only for a loss it has not yet answered.
LeaseKept ==
    [][SIPR # NoAddr /\ SIPR' # SIPR => lost \/ ~dhcp_active]_vars

----------------------------------------------------------------------------
(* Liveness.                                                               *)

\* coms_task waits: for a peer that is silent, for the FIN of a peer it disconnects,
\* or for a tick of dhcp.c.  <>[]Stalled is a wait without end.
Stalled == cpc \in {"recv", "spin"} \/ \E s \in Tcp : SR[s] = "FIN_WAIT"

\* On a link that stays up the device gets an address, and keeps one,
\* whatever state earlier losses and failures left behind.
LeasesAgain == <>[]phy => []<>dhcp_active \/ <>[]Stalled

\* Peers learn the address: on a link that stays up each address the device gets is
\* announced, even when the link came and went while it asked for it.
AddressAnnounced ==
    <>[]phy => \/ dhcp_active /\ ~announced ~> announced \/ ~dhcp_active
               \/ <>[]Stalled

\* The PUB socket comes back after its subscriber left in any way.
PubListensAgain ==
    \/ SR[Pub] \in {"CLOSED", "CLOSE_WAIT"} /\ dhcp_active
         ~> SR[Pub] = "LISTEN" \/ ~dhcp_active
    \/ <>[]Stalled

----------------------------------------------------------------------------
(* What a comment says, and the code does not.                             *)

\* pico_zyre.cpp: the overflow socket is there to "handle latecomers": on a link
\* that stays up a WHISPER socket that serves nobody is available again.
WhisperListensAgain ==
    <>[]phy => \/ \A s \in Whisper :
                     SR[s] \in {"CLOSED", "CLOSE_WAIT"} /\ dhcp_active
                         ~> SR[s] = "LISTEN" \/ ~dhcp_active
               \/ <>[]Stalled
=============================================================================
