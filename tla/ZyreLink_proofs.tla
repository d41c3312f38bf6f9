-------------------------- MODULE ZyreLink_proofs --------------------------
(***************************************************************************)
(* TypeOK, ActiveHasAddress and LeaseKept, for any number of sockets,      *)
(* addresses, polls and commands; and that a socket lost to receive() is   *)
(* lost until the link is.                                                 *)
(*                                                                         *)
(* None is inductive.  LeaseInv adds what tick() relies on: a lease is     *)
(* looked for only while dhcp_active is false, DHCP_run answers            *)
(* DHCP_IP_LEASED only once the chip has the address, and a device whose   *)
(* link is down, or that remembers it so, or that is closing its sockets   *)
(* over it, has a loss still to answer; and a bound for the replies owed.  *)
(***************************************************************************)
EXTENDS ZyreLink, TLAPS

USE DhcpServiceAssumption, ZyreLinkAssumption

OwedBound    == \A s \in Whisper : owed[s] <= 2 * ncmds
LeasedHasIp  == dhcp_state = "LEASED" => SIPR # NoAddr
SeekInactive == cpc = "dhcp" => ~dhcp_active
DownInactive == cpc = "down" => ~dhcp_active
DownIsLost   == ~last_link_status \/ ~phy \/ cpc = "down" => lost

LeaseInv ==
    /\ TypeOK /\ OwedBound
    /\ ActiveHasAddress /\ LeasedHasIp /\ SeekInactive /\ DownInactive /\ DownIsLost

\* The sockets by their numbers.
LEMMA SocketSets ==
    /\ 0 \in Sock /\ 1 \in Polled /\ Overflow \in Polled /\ Pub \in Tcp
    /\ Whisper \subseteq Polled /\ Polled \subseteq Tcp /\ Tcp \subseteq Sock
    /\ \A s \in Polled : s # Overflow => s \in Whisper
BY DEF Sock, Polled, Overflow, Pub, Whisper, Tcp, ZyreLinkAssumption

LEMMA InitLeaseInv == Init => LeaseInv
<1>. SUFFICES ASSUME Init PROVE LeaseInv
  OBVIOUS
<1>. USE DEF Init
<1>1. DhcpTypeOK
  BY DEF DhcpPowerUp, DhcpTypeOK
<1>2. /\ phy \in BOOLEAN /\ looping \in BOOLEAN /\ lost \in BOOLEAN /\ announced \in BOOLEAN
      /\ last_link_status \in BOOLEAN /\ dhcp_active \in BOOLEAN /\ enter_sent \in BOOLEAN
  OBVIOUS
<1>3. SR \in [Sock -> Status]
  BY DEF Status
<1>4. socket_initialized \in [Sock -> BOOLEAN]
  OBVIOUS
<1>5. /\ polls \in 0 .. Polls /\ ncmds \in 0 .. MaxCmds
      /\ sn \in Sock /\ sn \in Polled
  BY SocketSets DEF ZyreLinkAssumption
<1>6. owed \in [Whisper -> 0 .. 2 * MaxCmds]
  <2>1. 0 \in 0 .. 2 * MaxCmds
    BY DEF ZyreLinkAssumption
  <2>. QED  BY <2>1
<1>7. cpc = "tick" /\ closing \in Tcp \union {0}
  OBVIOUS
<1>8. TypeOK
  BY <1>1, <1>2, <1>3, <1>4, <1>5, <1>6, <1>7 DEF TypeOK
<1>9. OwedBound
  BY DEF OwedBound
<1>10. ActiveHasAddress /\ LeasedHasIp /\ SeekInactive /\ DownInactive /\ DownIsLost
  BY DEF DhcpPowerUp, ActiveHasAddress, LeasedHasIp, SeekInactive, DownInactive, DownIsLost
<1>. QED  BY <1>8, <1>9, <1>10 DEF LeaseInv

----------------------------------------------------------------------------
(* Cable, server and peers.                                                *)

LEMMA EnvironmentKeeps ==
    ASSUME LeaseInv, Environment
    PROVE  LeaseInv'
<1>. USE DEF LeaseInv, TypeOK, DhcpTypeOK, OwedBound, ActiveHasAddress, LeasedHasIp,
             SeekInactive, DownInactive, DownIsLost, dhcp, socks, link, ctl, work, hist
<1>1. CASE LinkDrop
  <2>1. phy' \in BOOLEAN /\ lost'
    BY <1>1 DEF LinkDrop
  <2>2. UNCHANGED <<dhcp, socks, link, ctl, work, announced>>
    BY <1>1 DEF LinkDrop
  <2>. QED  BY <2>1, <2>2
<1>2. CASE LinkRise
  BY <1>2 DEF LinkRise
<1>3. CASE ServerAnswers
  BY <1>3 DEF ServerAnswers, ServerAcks
<1>4. ASSUME NEW s \in Tcp, PeerConnects(s) \/ PeerFin(s) \/ ConnectionEnds(s)
      PROVE  LeaseInv'
  <2>1. SR' \in [Sock -> Status]
    BY <1>4 DEF PeerConnects, PeerFin, ConnectionEnds, Status
  <2>. QED  BY <1>4, <2>1 DEF PeerConnects, PeerFin, ConnectionEnds
<1>. QED  BY <1>1, <1>2, <1>3, <1>4 DEF Environment

----------------------------------------------------------------------------
(* tick().                                                                 *)

\* What the socket operations leave in Sn_SR.
LEMMA SocketTypes ==
    ASSUME LeaseInv, NEW s, Listen(s) \/ Reopen(s) \/ disconnect(s) \/ SendReply(s)
    PROVE  SR' \in [Sock -> Status]
BY DEF Listen, Reopen, disconnect, SendReply, Status, LeaseInv, TypeOK

LEMMA TickKeeps ==
    ASSUME LeaseInv, Tick
    PROVE  LeaseInv'
<1>. USE DEF LeaseInv, TypeOK, DhcpTypeOK, OwedBound, ActiveHasAddress, LeasedHasIp,
             SeekInactive, DownInactive, DownIsLost, dhcp, socks, link, ctl, work, hist
<1>0. 1 \in Polled /\ Udp \in Sock /\ 0 \in Sock /\ 1 \in Sock
  BY SocketSets DEF Udp
<1>1. CASE TickDown
  <2>1. lost /\ UNCHANGED <<dhcp, phy, socks, last_link_status, polls, closing, work, hist>>
    BY <1>1, Zenon DEF TickDown
  <2>2. CASE last_link_status
    <3>1. /\ enter_sent' = FALSE /\ dhcp_active' = FALSE /\ cpc' = "down" /\ sn' = 0
          /\ UNCHANGED looping
      BY <1>1, <2>2, Zenon DEF TickDown
    <3>. QED  BY <1>0, <2>1, <3>1
  <2>3. CASE ~last_link_status
    BY <1>0, <1>1, <2>1, <2>3 DEF TickDown, AfterTick
  <2>. QED  BY <2>2, <2>3
<1>1a. CASE DownDisconnect
  BY <1>1a, SocketTypes DEF DownDisconnect
<1>1b. CASE DownClose
  <2>1. /\ SR' \in [Sock -> Status] /\ socket_initialized' \in [Sock -> BOOLEAN]
        /\ lost' = lost /\ lost /\ ~dhcp_active
        /\ UNCHANGED <<phy, dhcp_active, enter_sent, polls, closing, work, hist>>
    <3>1. /\ SR' = [SR EXCEPT ![sn] = "CLOSED"] /\ cpc = "down"
          /\ socket_initialized' = [socket_initialized EXCEPT ![sn] = FALSE]
          /\ UNCHANGED <<phy, dhcp_active, enter_sent, polls, closing, work, hist>>
      BY <1>1b DEF DownClose
    <3>. QED  BY <3>1 DEF Status
  <2>2. CASE sn < Pub
    <3>1. /\ cpc' = "down" /\ sn' = sn + 1
          /\ UNCHANGED <<looping, last_link_status, dhcp>>
      BY <1>1b, <2>2 DEF DownClose
    <3>2. sn' \in Sock
      BY <1>1b, <2>2, <3>1 DEF DownClose, Sock, Pub, ZyreLinkAssumption
    <3>. QED  BY <2>1, <3>1, <3>2
  <2>3. CASE ~(sn < Pub)
    <3>1. /\ dhcp_state' = "STOP" /\ offered' = NoAddr /\ SIPR' = SIPR
          /\ last_link_status' = FALSE
          /\ cpc' \in {"poll", "tick"} /\ looping' = TRUE /\ sn' = 1
      BY <1>1b, <2>3 DEF DownClose, DHCP_stop, AfterTick
    <3>2. dhcp_active' = FALSE /\ cpc' # "down" /\ cpc' # "dhcp"
      BY <2>1, <3>1
    <3>3. DhcpTypeOK' /\ sn' \in Sock /\ sn' \in Polled
      BY <1>0, <3>1
    <3>4. TypeOK'
      BY <2>1, <3>1, <3>3
    <3>5. LeasedHasIp' /\ ActiveHasAddress' /\ SeekInactive' /\ DownInactive' /\ DownIsLost'
      BY <2>1, <3>1, <3>2
    <3>6. OwedBound'
      BY <2>1
    <3>. QED  BY <3>4, <3>5, <3>6
  <2>. QED  BY <2>2, <2>3
<1>2. CASE TickUp
  <2>1. /\ cpc = "tick" /\ cpc' = "restored"
        /\ UNCHANGED <<dhcp, phy, socks, link, polls, looping, sn, closing, work, hist>>
    BY <1>2 DEF TickUp
  <2>. QED  BY <2>1
<1>3. CASE StartDhcp
  <2>1. /\ dhcp_active' = FALSE /\ dhcp_state' = "BUSY" /\ SIPR' = NoAddr
        /\ offered' = NoAddr /\ polls' = 0 /\ cpc' = "dhcp" /\ cpc = "restored"
        /\ announced' = FALSE
        /\ UNCHANGED <<phy, socks, enter_sent, looping, sn, closing, work>>
    BY <1>3 DEF StartDhcp, DHCP_init
  <2>2. last_link_status' \in BOOLEAN /\ lost' \in BOOLEAN
    BY <1>3, Zenon DEF StartDhcp
  <2>3. ~last_link_status' \/ ~phy' => lost'
    BY <1>3, Zenon DEF StartDhcp, Restored
  <2>4. polls' \in 0 .. Polls
    BY <2>1 DEF ZyreLinkAssumption
  <2>. QED  BY <2>1, <2>2, <2>3, <2>4
<1>4. CASE SendEnter
  BY <1>0, <1>4 DEF SendEnter, AfterTick, Active, Status
<1>5. CASE SkipEnter
  BY <1>0, <1>5 DEF SkipEnter, AfterTick, Active
<1>6. CASE DhcpLeased
  BY <1>0, <1>6 DEF DhcpLeased, AfterTick
<1>7. CASE DhcpPoll
  <2>1. polls + 1 \in 0 .. Polls
    BY <1>7 DEF DhcpPoll
  <2>. QED  BY <1>7, <2>1 DEF DhcpPoll, Wait, Assign
<1>8. CASE DhcpGiveUp
  BY <1>0, <1>8 DEF DhcpGiveUp, DHCP_stop, AfterTick
<1>9. CASE DhcpConflict
  BY <1>9 DEF DhcpConflict, Conflict
<1>. QED  BY <1>1, <1>1a, <1>1b, <1>2, <1>3, <1>4, <1>5, <1>6, <1>7, <1>8, <1>9 DEF Tick

----------------------------------------------------------------------------
(* The rest of the loop touches neither the lease nor the link.            *)

\* Where NextSocket and AfterReceive leave coms_task.
LEMMA Onwards ==
    ASSUME LeaseInv, cpc # "down", NextSocket \/ AfterReceive
    PROVE  sn' \in Polled /\ sn' \in Sock /\ cpc' \in {"poll", "drain", "flush"}
<1>1. sn' \in Polled /\ cpc' \in {"poll", "drain", "flush"}
  BY DEF NextSocket, AfterReceive, LeaseInv, TypeOK, Polled, Overflow
<1>. QED  BY <1>1, SocketSets

LEMMA LoopKeeps ==
    ASSUME LeaseInv, Reopened \/ Receive \/ Acknowledge \/ Drain \/ SendPub \/ NoPub
    PROVE  LeaseInv'
<1>. USE DEF LeaseInv, TypeOK, DhcpTypeOK, OwedBound, ActiveHasAddress, LeasedHasIp,
             SeekInactive, DownInactive, DownIsLost, dhcp, socks, link, ctl, work, hist
<1>0. /\ 1 \in Polled /\ 1 \in Sock /\ Pub \in Tcp /\ Whisper \subseteq Tcp
      /\ cpc # "down" => sn \in Tcp /\ (sn # Overflow => sn \in Whisper)
  BY SocketSets
<1>a. ASSUME NEW s \in Tcp, SendReply(s)
      PROVE  SR' \in [Sock -> Status] /\ closing' \in Tcp \union {0}
  BY <1>a, SocketTypes DEF SendReply
<1>b. CASE Reopened
  BY <1>b, SocketTypes DEF Reopened
<1>1. CASE OpenSocket
  BY <1>1, SocketTypes DEF OpenSocket
<1>2. CASE SkipSocket
  <2>1. /\ cpc = "poll" /\ NextSocket
        /\ UNCHANGED <<dhcp, phy, socks, link, polls, looping, closing, work, hist>>
    BY <1>2 DEF SkipSocket
  <2>2. sn' \in Polled /\ sn' \in Sock /\ cpc' \in {"poll", "drain", "flush"}
    BY <2>1, Onwards
  <2>. QED  BY <2>1, <2>2
<1>3. CASE EnterRecv
  BY <1>3 DEF EnterRecv
<1>4. CASE RecvCommand
  <2>1. ncmds' \in 0 .. MaxCmds /\ ncmds' = ncmds + 1
    BY <1>4 DEF RecvCommand
  <2>2. CASE sn = Overflow
    <3>1. /\ cpc = "recv" /\ cpc' = "toobusy"
          /\ UNCHANGED <<dhcp, phy, socks, link, polls, looping, sn, closing, hist, owed>>
      BY <1>4, <2>2 DEF RecvCommand, RecvHasData
    <3>2. \A s \in Whisper : owed[s] <= 2 * ncmds'
      BY <2>1
    <3>. QED  BY <2>1, <3>1, <3>2
  <2>3. CASE sn # Overflow
    <3>0. cpc = "recv" /\ cpc' = "ack"
      BY <1>4, <2>3 DEF RecvCommand, RecvHasData
    <3>1. owed' = [owed EXCEPT ![sn] = owed[sn] + 2] /\ sn \in Whisper
      BY <1>0, <1>4, <2>3, <3>0, Zenon DEF RecvCommand
    <3>2. \A s \in Whisper : owed'[s] \in Nat /\ owed'[s] <= 2 * ncmds'
      BY <2>1, <3>1
    <3>3. owed' \in [Whisper -> 0 .. 2 * MaxCmds]
      BY <2>1, <3>1, <3>2
    <3>4. UNCHANGED <<dhcp, phy, socks, link, polls, looping, sn, closing, hist>>
      BY <1>4 DEF RecvCommand
    <3>. QED  BY <2>1, <3>0, <3>2, <3>3, <3>4
  <2>. QED  BY <2>2, <2>3
<1>5. CASE RecvFragment
  <2>1. /\ cpc = "recv" /\ AfterReceive
        /\ UNCHANGED <<dhcp, phy, socks, link, polls, looping, closing, work, hist>>
    BY <1>5 DEF RecvFragment, RecvHasData
  <2>2. sn' \in Polled /\ sn' \in Sock /\ cpc' \in {"poll", "drain", "flush"}
    BY <2>1, Onwards
  <2>. QED  BY <2>1, <2>2
<1>6. CASE RecvClosed
  <2>1. /\ cpc = "recv" /\ AfterReceive
        /\ SR' = [SR EXCEPT ![sn] = "CLOSED"]
        /\ socket_initialized' = [socket_initialized EXCEPT ![sn] = FALSE]
        /\ UNCHANGED <<dhcp, phy, link, polls, looping, closing, work, hist>>
    BY <1>6 DEF RecvClosed
  <2>2. SR' \in [Sock -> Status]
    BY <2>1 DEF Status
  <2>3. sn' \in Polled /\ sn' \in Sock /\ cpc' \in {"poll", "drain", "flush"}
    BY <2>1, Onwards
  <2>. QED  BY <2>1, <2>2, <2>3
<1>7. CASE Refuse
  <2>1. /\ cpc = "toobusy" /\ cpc' = "flush" /\ SendReply(sn)
        /\ UNCHANGED <<dhcp, phy, socket_initialized, link, polls, looping, sn, work, hist>>
    BY <1>7 DEF Refuse
  <2>2. SR' \in [Sock -> Status] /\ closing' \in Tcp \union {0}
    BY <1>0, <1>a, <2>1
  <2>. QED  BY <2>1, <2>2
<1>7a. CASE OverflowDisconnect
  BY <1>7a, SocketTypes DEF OverflowDisconnect
<1>7b. CASE OverflowClose
  <2>1. /\ cpc = "flush" /\ NextSocket
        /\ socket_initialized' = [socket_initialized EXCEPT ![sn] = FALSE]
        /\ UNCHANGED <<dhcp, phy, SR, link, polls, looping, closing, work, hist>>
    BY <1>7b DEF OverflowClose
  <2>2. sn' \in Polled /\ sn' \in Sock /\ cpc' \in {"poll", "drain", "flush"}
    BY <2>1, Onwards
  <2>. QED  BY <2>1, <2>2
<1>8. CASE Acknowledge
  BY <1>0, <1>8, <1>a DEF Acknowledge
<1>9. CASE Drain
  <2>1. CASE UNCHANGED <<SR, closing, owed>>
    BY <1>9, <2>1 DEF Drain
  <2>2. ASSUME NEW s \in Whisper, owed[s] > 0,
               owed' = [owed EXCEPT ![s] = @ - 1], SendReply(s)
        PROVE  LeaseInv'
    <3>1. SR' \in [Sock -> Status] /\ closing' \in Tcp \union {0}
      BY <1>0, <1>a, <2>2
    <3>2. owed' \in [Whisper -> 0 .. 2 * MaxCmds]
      BY <2>2
    <3>3. \A t \in Whisper : owed'[t] <= 2 * ncmds
      BY <2>2
    <3>. QED  BY <1>9, <3>1, <3>2, <3>3 DEF Drain
  <2>. QED  BY <1>9, <2>1, <2>2 DEF Drain
<1>10. CASE SendPub
  <2>1. SR' \in [Sock -> Status] /\ closing' \in Tcp \union {0}
    BY <1>0, <1>10, SocketTypes DEF SendPub
  <2>. QED  BY <1>10, <2>1 DEF SendPub
<1>11. CASE NoPub
  BY <1>11 DEF NoPub
<1>. QED  BY <1>b, <1>1, <1>2, <1>3, <1>4, <1>5, <1>6, <1>7, <1>7a, <1>7b, <1>8, <1>9, <1>10,
             <1>11 DEF Receive

LEMMA NextLeaseInv == LeaseInv /\ [Next]_vars => LeaseInv'
<1>1. CASE Next
  BY <1>1, EnvironmentKeeps, TickKeeps, LoopKeeps DEF Next, ComsTask
<1>2. CASE UNCHANGED vars
  BY <1>2 DEF vars, dhcp, socks, link, ctl, work, hist, LeaseInv, TypeOK, DhcpTypeOK,
              OwedBound, ActiveHasAddress, LeasedHasIp, SeekInactive, DownInactive, DownIsLost
<1>. QED  BY <1>1, <1>2

LEMMA LeaseInvHolds == Spec => []LeaseInv
BY InitLeaseInv, NextLeaseInv, PTL DEF Spec

----------------------------------------------------------------------------
\* Every variable keeps its type; the replies owed stay within two for each
\* command that was received.
THEOREM LinkTypeCorrect == Spec => []TypeOK
<1>1. LeaseInv => TypeOK
  BY DEF LeaseInv
<1>. QED  BY <1>1, LeaseInvHolds, PTL

\* While tick() believes its lease active, the chip has an address: through
\* any sequence of link losses and of DHCP exchanges that fail, are cut off
\* or succeed on their last poll.
THEOREM ActiveHasAddressHolds == Spec => []ActiveHasAddress
<1>1. LeaseInv => ActiveHasAddress
  BY DEF LeaseInv
<1>. QED  BY <1>1, LeaseInvHolds, PTL

\* A device using an address gives it up only for a link loss it has not yet
\* answered: one loss, one new lease.
THEOREM LeaseKeptHolds == Spec => LeaseKept
<1>1. LeaseInv /\ [Next]_vars => [SIPR # NoAddr /\ SIPR' # SIPR => lost \/ ~dhcp_active]_vars
  <2>. SUFFICES ASSUME LeaseInv, Next, SIPR' # SIPR
                PROVE  lost \/ ~dhcp_active
    OBVIOUS
  <2>. USE DEF dhcp, socks, link, ctl, work, hist
  <2>1. CASE Environment
    BY <2>1 DEF Environment, LinkDrop, LinkRise, ServerAnswers, ServerAcks,
                PeerConnects, PeerFin, ConnectionEnds
  <2>2. CASE StartDhcp
    BY <2>2 DEF StartDhcp, Active, Restored, LeaseInv, DownIsLost, TypeOK
  <2>3. CASE DhcpPoll
    BY <2>3 DEF DhcpPoll, LeaseInv, SeekInactive
  <2>4. CASE Tick /\ ~StartDhcp /\ ~DhcpPoll
    BY <2>4 DEF Tick, TickDown, DownDisconnect, DownClose, TickUp, SendEnter, SkipEnter, DhcpLeased, DhcpGiveUp,
                DhcpConflict, Conflict, DHCP_stop
  <2>5. CASE Receive
    BY <2>5 DEF Receive, OpenSocket, SkipSocket, EnterRecv, RecvCommand, RecvFragment,
                RecvClosed, Refuse, OverflowDisconnect, OverflowClose
  <2>6. CASE Reopened \/ Acknowledge \/ Drain \/ SendPub \/ NoPub
    BY <2>6 DEF Reopened, Acknowledge, Drain, SendPub, NoPub
  <2>. QED  BY <2>1, <2>2, <2>3, <2>4, <2>5, <2>6 DEF Next, ComsTask
<1>. QED  BY <1>1, LeaseInvHolds, PTL DEF Spec, LeaseKept

----------------------------------------------------------------------------
(* Sockets that receive() has given up without knowing.                    *)

\* A WHISPER socket that is closed or half closed, counts as initialized, is not
\* being read, answered or reopened, and is owed no reply.
Abandoned(s) ==
    /\ socket_initialized[s] /\ SR[s] \in {"CLOSED", "CLOSE_WAIT"} /\ owed[s] = 0
    /\ closing # s
    /\ sn = s => cpc \notin {"recv", "ack"}

\* tick() has noticed a loss of the link and is closing the sockets over it.
HandlesLoss == cpc = "down"

\* Only the overflow socket has its command refused, and only it is closed after its
\* first receive.
FlushIsOverflow == cpc \in {"toobusy", "flush"} => sn = Overflow

AbandonedForGood ==
    [][\A s \in Whisper : Abandoned(s) => Abandoned(s)' \/ HandlesLoss]_vars

LEMMA FlushStep == LeaseInv /\ FlushIsOverflow /\ [Next]_vars => FlushIsOverflow'
<1>. SUFFICES ASSUME LeaseInv, FlushIsOverflow, [Next]_vars
              PROVE  FlushIsOverflow'
  OBVIOUS
<1>. USE DEF FlushIsOverflow, dhcp, socks, link, ctl, work, hist
<1>1. CASE Environment
  BY <1>1 DEF Environment, LinkDrop, LinkRise, ServerAnswers, PeerConnects, PeerFin,
              ConnectionEnds
<1>2. CASE Tick
  BY <1>2 DEF Tick, TickDown, DownDisconnect, DownClose, TickUp, StartDhcp, SendEnter, SkipEnter,
              DhcpLeased, DhcpPoll, DhcpGiveUp, DhcpConflict, AfterTick
<1>3. CASE Receive
  <2>1. CASE OpenSocket
    BY <2>1 DEF OpenSocket
  <2>2. CASE RecvCommand
    BY <2>2 DEF RecvCommand
  <2>3. CASE SkipSocket \/ EnterRecv \/ Refuse \/ OverflowDisconnect \/ OverflowClose
    BY <2>3 DEF SkipSocket, EnterRecv, Refuse, OverflowDisconnect, OverflowClose, NextSocket
  <2>4. CASE RecvFragment \/ RecvClosed
    BY <2>4 DEF RecvFragment, RecvClosed, AfterReceive, NextSocket
  <2>. QED  BY <1>3, <2>1, <2>2, <2>3, <2>4 DEF Receive
<1>4. CASE Reopened \/ Acknowledge \/ Drain \/ SendPub \/ NoPub
  BY <1>4 DEF Reopened, Acknowledge, Drain, SendPub, NoPub
<1>5. CASE UNCHANGED vars
  BY <1>5 DEF vars
<1>. QED  BY <1>1, <1>2, <1>3, <1>4, <1>5 DEF Next, ComsTask

LEMMA AbandonedStep ==
    ASSUME LeaseInv, FlushIsOverflow, Next, NEW s \in Whisper, Abandoned(s), ~HandlesLoss
    PROVE  Abandoned(s)'
<1>. USE DEF Abandoned, HandlesLoss, dhcp, socks, link, ctl, work, hist
<1>0. /\ s \in Sock /\ s # Udp /\ s # Pub /\ s # Overflow /\ s # 0 /\ NWhisper \in Nat
      /\ SR \in [Sock -> Status]
      /\ socket_initialized \in [Sock -> BOOLEAN]
      /\ owed \in [Whisper -> 0 .. 2 * MaxCmds]
  BY DEF Sock, Whisper, Udp, Pub, Overflow, ZyreLinkAssumption, LeaseInv, TypeOK
<1>1. CASE LinkDrop \/ LinkRise \/ ServerAnswers
  BY <1>1 DEF LinkDrop, LinkRise, ServerAnswers
<1>2. ASSUME NEW t \in Tcp, PeerConnects(t) \/ PeerFin(t) \/ ConnectionEnds(t)
      PROVE  Abandoned(s)'
  BY <1>0, <1>2 DEF PeerConnects, PeerFin, ConnectionEnds
<1>a. CASE Reopened
  <2>1. SR'[s] = SR[s]
    BY <1>0, <1>a DEF Reopened, Reopen
  <2>. QED  BY <1>0, <1>a, <2>1 DEF Reopened
<1>3. CASE TickDown
  BY <1>3 DEF TickDown, AfterTick
<1>4. CASE SendEnter
  <2>1. SR'[s] = SR[s] /\ socket_initialized'[s] = socket_initialized[s]
    BY <1>0, <1>4 DEF SendEnter
  <2>. QED  BY <1>4, <2>1 DEF SendEnter, AfterTick
<1>5. CASE Tick /\ ~TickDown /\ ~SendEnter
  BY <1>5 DEF Tick, DownDisconnect, DownClose, TickUp, StartDhcp, SkipEnter, DhcpLeased,
              DhcpPoll, DhcpGiveUp, DhcpConflict, AfterTick
<1>6. CASE OpenSocket
  <2>1. sn # s
    BY <1>6 DEF OpenSocket
  <2>2. SR'[s] = SR[s] /\ socket_initialized'[s] = socket_initialized[s]
    BY <1>0, <1>6, <2>1 DEF OpenSocket, Listen
  <2>. QED  BY <1>6, <2>2 DEF OpenSocket
<1>7. CASE SkipSocket
  BY <1>7 DEF SkipSocket, NextSocket
<1>8. CASE EnterRecv
  BY <1>8 DEF EnterRecv
<1>9. CASE RecvCommand
  <2>1. sn # s
    BY <1>9 DEF RecvCommand, RecvHasData
  <2>2. owed'[s] = owed[s]
    BY <1>0, <1>9, <2>1 DEF RecvCommand
  <2>. QED  BY <1>9, <2>1, <2>2 DEF RecvCommand
<1>10. CASE RecvFragment
  BY <1>10 DEF RecvFragment, AfterReceive, NextSocket
<1>11. CASE RecvClosed
  <2>1. sn # s
    BY <1>11 DEF RecvClosed
  <2>2. SR'[s] = SR[s] /\ socket_initialized'[s] = socket_initialized[s]
    BY <1>0, <1>11, <2>1 DEF RecvClosed
  <2>. QED  BY <1>11, <2>2 DEF RecvClosed, AfterReceive, NextSocket
<1>12. CASE Refuse
  <2>1. sn # s
    BY <1>0, <1>12 DEF Refuse, FlushIsOverflow
  <2>2. SR'[s] = SR[s] /\ closing' # s
    BY <1>0, <1>12, <2>1 DEF Refuse, SendReply, Reopen, disconnect
  <2>. QED  BY <1>12, <2>2 DEF Refuse
<1>13. CASE OverflowDisconnect
  <2>1. sn # s
    BY <1>0, <1>13 DEF OverflowDisconnect, FlushIsOverflow
  <2>2. SR'[s] = SR[s]
    BY <1>0, <1>13, <2>1 DEF OverflowDisconnect, disconnect
  <2>. QED  BY <1>13, <2>2 DEF OverflowDisconnect
<1>14. CASE OverflowClose
  <2>1. sn # s
    BY <1>0, <1>14 DEF OverflowClose, FlushIsOverflow
  <2>2. socket_initialized'[s] = socket_initialized[s]
    BY <1>0, <1>14, <2>1 DEF OverflowClose
  <2>. QED  BY <1>14, <2>2 DEF OverflowClose, NextSocket
<1>15. ASSUME NEW t, t # s, SendReply(t)
       PROVE  SR'[s] = SR[s] /\ closing' # s
  BY <1>0, <1>15 DEF SendReply, Reopen, disconnect
<1>16. CASE Acknowledge
  <2>1. sn # s
    BY <1>16 DEF Acknowledge
  <2>. QED  BY <1>15, <1>16, <2>1 DEF Acknowledge
<1>17. CASE Drain
  <2>1. CASE UNCHANGED <<SR, closing, owed>>
    BY <1>17, <2>1 DEF Drain
  <2>2. ASSUME NEW t \in Whisper, owed[t] > 0, owed' = [owed EXCEPT ![t] = @ - 1],
               SendReply(t)
        PROVE  Abandoned(s)'
    <3>1. t # s
      BY <2>2
    <3>2. owed'[s] = owed[s] /\ SR'[s] = SR[s] /\ closing' # s
      BY <1>0, <1>15, <2>2, <3>1
    <3>. QED  BY <1>17, <3>2 DEF Drain
  <2>. QED  BY <1>17, <2>1, <2>2 DEF Drain
<1>18. CASE SendPub
  <2>1. SR'[s] = SR[s] /\ closing' # s
    BY <1>0, <1>18 DEF SendPub, Reopen, disconnect
  <2>. QED  BY <1>18, <2>1 DEF SendPub
<1>19. CASE NoPub
  BY <1>19 DEF NoPub
<1>. QED  BY <1>1, <1>2, <1>a, <1>3, <1>4, <1>5, <1>6, <1>7, <1>8, <1>9, <1>10, <1>11, <1>12,
             <1>13, <1>14, <1>16, <1>17, <1>18, <1>19 DEF Next, Environment, ComsTask, Receive

\* What a peer that goes away between two polls costs (pico_zyre.cpp:293-299), for any
\* number of sockets: its socket is never opened again, by receive() or by peers,
\* until tick() closes every socket over a loss of the link.
THEOREM AbandonedForGoodHolds == Spec => AbandonedForGood
<1>1. Init => FlushIsOverflow
  BY DEF Init, FlushIsOverflow
<1>2. LeaseInv /\ FlushIsOverflow /\ [Next]_vars
        => [\A s \in Whisper : Abandoned(s) => Abandoned(s)' \/ HandlesLoss]_vars
  BY AbandonedStep
<1>. QED  BY <1>1, <1>2, FlushStep, LeaseInvHolds, PTL DEF Spec, AbandonedForGood
=============================================================================
