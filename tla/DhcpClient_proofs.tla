------------------------- MODULE DhcpClient_proofs --------------------------
(***************************************************************************)
(* TypeOK, AddressFromItsServer and LeasedUsesIt, for any servers, pools,  *)
(* lease times and retry limits, with or without a timer, and whatever the *)
(* program calls.                                                          *)
(*                                                                         *)
(* They hold together or not at all: that a request is well formed rests   *)
(* on AddressFromItsServer, and what the client takes from the socket on   *)
(* RxSaid, that only what a server has said is in it.                      *)
(*                                                                         *)
(* Then that a renewal changes no address; the client without a timer, as  *)
(* an implementation of DhcpService; and start_dhcp() over it.             *)
(***************************************************************************)
EXTENDS TibDhcp, TLAPS

USE DhcpClientAssumption

RxSaid == \A i \in DOMAIN rx : rx[i] \in said

DhcpInv == TypeOK /\ RxSaid /\ AddressFromItsServer /\ LeasedUsesIt

LEMMA InitDhcpInv == Init => DhcpInv
BY DEF Init, DhcpInv, TypeOK, RxSaid, AddressFromItsServer, LeasedUsesIt, Answer, Asking

----------------------------------------------------------------------------
(* Servers, network and timer leave the client alone.                      *)

LEMMA EnvironmentKeeps ==
    ASSUME DhcpInv, Environment
    PROVE  DhcpInv'
<1>. USE DEF DhcpInv, TypeOK, RxSaid, AddressFromItsServer, LeasedUsesIt, clock, ips, wire
<1>1. ASSUME NEW s \in Server, ServerNaks(s)
      PROVE  DhcpInv'
  <2>1. Msg("NAK", s, NoAddr) \in Answer
    BY DEF Msg, Answer
  <2>. QED  BY <1>1, <2>1 DEF ServerNaks
<1>2. ASSUME NEW s \in Server, NEW a \in Pool[s], ServerOffers(s, a) \/ ServerAcks(s, a)
      PROVE  DhcpInv'
  <2>1. a \in Addr
    OBVIOUS
  <2>2. Msg("OFFER", s, a) \in Answer /\ Msg("ACK", s, a) \in Answer
    BY <2>1 DEF Msg, Answer
  <2>. QED  BY <1>2, <2>2 DEF ServerOffers, ServerAcks
<1>3. ASSUME NEW m \in said, Deliver(m)
      PROVE  DhcpInv'
  <2>1. rx' = Append(rx, m) /\ m \in Answer /\ Len(rx) < RxMax /\ SR = "UDP"
    BY <1>3 DEF Deliver
  <2>2. rx' \in Seq(Answer) /\ Len(rx') = Len(rx) + 1
    BY <2>1
  <2>3. \A i \in DOMAIN rx' : rx'[i] \in said
    BY <2>1, <2>2
  <2>4. Len(rx') <= RxMax
    BY <2>1, <2>2
  <2>. QED  BY <1>3, <2>1, <2>2, <2>3, <2>4 DEF Deliver
<1>4. ASSUME NEW r \in asked, Lose(r)
      PROVE  DhcpInv'
  BY <1>4 DEF Lose
<1>5. CASE DHCP_time_handler
  BY <1>5 DEF DHCP_time_handler
<1>. QED  BY <1>1, <1>2, <1>3, <1>4, <1>5 DEF Environment

----------------------------------------------------------------------------
(* DHCP_run.                                                               *)

\* What is left in the socket once a message is parsed.
LEMMA ParseKeeps ==
    ASSUME DhcpInv, parseDHCPMSG
    PROVE  /\ rx' \in Seq(Answer) /\ Len(rx') <= RxMax
           /\ \A i \in DOMAIN rx' : rx'[i] \in said
           /\ dhcp_lease_time' \in Leases \union {Infinite}
           /\ said' = said
<1>. USE DEF DhcpInv, TypeOK, RxSaid, parseDHCPMSG
<1>1. CASE rx = << >>
  BY <1>1
<1>2. CASE rx # << >>
  <2>1. rx' = Tail(rx)
    BY <1>2
  <2>2. rx' \in Seq(Answer) /\ Len(rx') = Len(rx) - 1
    BY <1>2, <2>1
  <2>3. ASSUME NEW i \in DOMAIN rx'
        PROVE  rx'[i] \in said
    <3>1. i + 1 \in DOMAIN rx /\ rx'[i] = rx[i + 1]
      BY <1>2, <2>1, <2>2
    <3>. QED  BY <3>1
  <2>. QED  BY <2>2, <2>3
<1>. QED  BY <1>1, <1>2

\* A message at the head is one a server has sent.
LEMMA HeadSaid ==
    ASSUME DhcpInv, Heeded
    PROVE  Head(rx) \in said /\ Head(rx) \in Answer
<1>1. rx # << >> /\ rx \in Seq(Answer) /\ Head(rx) = rx[1] /\ 1 \in DOMAIN rx
  BY DEF DhcpInv, TypeOK, Heeded
<1>. QED  BY <1>1 DEF DhcpInv, TypeOK, RxSaid

LEMMA ParsedSIPType ==
    ASSUME DhcpInv
    PROVE  ParsedSIP \in Server \union {NoServer}
<1>1. CASE Heeded
  BY <1>1, HeadSaid DEF ParsedSIP, Answer
<1>2. CASE ~Heeded
  BY <1>2 DEF ParsedSIP, DhcpInv, TypeOK
<1>. QED  BY <1>1, <1>2

\* From REQUEST on the client heeds one server, and keeps its address.
LEMMA Settled ==
    ASSUME DhcpInv, dhcp_state \in {"REQUEST", "LEASED", "REREQUEST"}
    PROVE  /\ DHCP_SIP \in Server /\ DHCP_allocated_ip \in Addr
           /\ ParsedSIP = DHCP_SIP
<1>1. Msg("OFFER", DHCP_SIP, DHCP_allocated_ip) \in Answer
  BY DEF DhcpInv, TypeOK, AddressFromItsServer
<1>2. DHCP_SIP \in Server /\ DHCP_allocated_ip \in Addr
  BY <1>1 DEF Msg, Answer
<1>. QED  BY <1>2 DEF ParsedSIP, Heeded

LEMMA RunKeeps ==
    ASSUME DhcpInv, DHCP_run
    PROVE  DhcpInv'
<1>. USE DEF DhcpInv, TypeOK, RxSaid, AddressFromItsServer, LeasedUsesIt, clock, ips,
             Run, Quiet, reset_DHCP_timeout
<1>a. Discover \in Asking
  BY DEF Discover, Msg, Asking
<1>b. ASSUME NEW s \in Server, NEW a \in Addr
      PROVE  Msg("REQUEST", s, a) \in Asking /\ Msg("RENEW", s, a) \in Asking
  BY DEF Msg, Asking
<1>1. CASE StartDiscover
  BY <1>1, <1>a, ParseKeeps DEF StartDiscover, send_DHCP_DISCOVER
<1>2. CASE TakeOffer
  <2>1. /\ Head(rx) \in said /\ Head(rx).type = "OFFER"
        /\ Head(rx).srv \in Server /\ Head(rx).ip \in Addr
        /\ ParsedSIP = Head(rx).srv
    BY <1>2, HeadSaid DEF TakeOffer, Got, Answer, ParsedSIP
  <2>2. Msg("OFFER", Head(rx).srv, Head(rx).ip) \in said
    <3>1. Head(rx) = Msg("OFFER", Head(rx).srv, Head(rx).ip)
      BY <1>2, <2>1, HeadSaid DEF TakeOffer, Got, Answer, Msg
    <3>. QED  BY <2>1, <3>1
  <2>3. asked' \subseteq Asking
    BY <1>2, <1>b, <2>1 DEF TakeOffer, send_DHCP_REQUEST
  <2>. QED  BY <1>2, <2>1, <2>2, <2>3, ParseKeeps DEF TakeOffer, send_DHCP_REQUEST
<1>3. CASE TakeAck
  BY <1>3, ParseKeeps, Settled DEF TakeAck
<1>4. CASE FindConflict
  BY <1>4, ParseKeeps, Settled DEF FindConflict
<1>5. CASE EndConflict
  BY <1>5 DEF EndConflict
<1>6. CASE TakeNak
  BY <1>6, ParseKeeps, Settled DEF TakeNak
<1>7. CASE KeepLease
  BY <1>7, ParseKeeps, Settled DEF KeepLease
<1>8. CASE Renew
  <2>1. asked' \subseteq Asking
    BY <1>8, <1>b, Settled DEF Renew, send_DHCP_REQUEST
  <2>. QED  BY <1>8, <2>1, ParseKeeps, Settled DEF Renew, send_DHCP_REQUEST
<1>9. CASE TakeRenewal
  BY <1>9, ParseKeeps, Settled DEF TakeRenewal
<1>10. CASE KeepWaiting
  <2>1. DHCP_SIP' \in Server \union {NoServer}
    BY <1>10, ParsedSIPType DEF KeepWaiting
  <2>. QED  BY <1>10, <2>1, ParseKeeps, Settled DEF KeepWaiting, Unanswered
<1>11. CASE Resend
  <2>1. dhcp_retry_count < MAX_DHCP_RETRY
    BY <1>11 DEF Resend, Unanswered
  <2>2. CASE dhcp_state = "DISCOVER"
    BY <1>11, <1>a, <2>1, <2>2, ParseKeeps DEF Resend, Unanswered, send_DHCP_DISCOVER
  <2>3. CASE dhcp_state # "DISCOVER"
    <3>1. asked' \subseteq Asking
      BY <1>11, <1>b, <2>3, Settled DEF Resend, Unanswered, send_DHCP_REQUEST
    <3>. QED
      BY <1>11, <2>1, <2>3, <3>1, ParseKeeps, Settled DEF Resend, Unanswered, send_DHCP_REQUEST
  <2>. QED  BY <2>2, <2>3
<1>12. CASE GiveUp
  BY <1>12, <1>a, ParseKeeps, ParsedSIPType DEF GiveUp, Unanswered, send_DHCP_DISCOVER
<1>13. CASE RunStopped
  BY <1>13 DEF RunStopped, wire
<1>. QED
  BY <1>1, <1>2, <1>3, <1>4, <1>5, <1>6, <1>7, <1>8, <1>9, <1>10, <1>11, <1>12, <1>13
     DEF DHCP_run

----------------------------------------------------------------------------
LEMMA NextDhcpInv == DhcpInv /\ [Next]_vars => DhcpInv'
<1>. SUFFICES ASSUME DhcpInv, [Next]_vars
              PROVE  DhcpInv'
  OBVIOUS
<1>. USE DEF DhcpInv, TypeOK, RxSaid, AddressFromItsServer, LeasedUsesIt, clock, ips, wire
<1>1. CASE DHCP_init
  BY <1>1 DEF DHCP_init, reset_DHCP_timeout
<1>2. CASE DHCP_stop
  BY <1>2 DEF DHCP_stop
<1>3. CASE UNCHANGED vars
  BY <1>3 DEF vars
<1>. QED  BY <1>1, <1>2, <1>3, EnvironmentKeeps, RunKeeps DEF Next

\* The invariant of every program that uses dhcp.c.
LEMMA DhcpInvHolds == Spec => []DhcpInv
<1>1. Spec => Init /\ [][Next]_vars
  BY DEF Spec
<1>. QED  BY <1>1, InitDhcpInv, NextDhcpInv, PTL

\* Every variable of dhcp.c has its type, retries and ticks their bounds, and
\* every request is well formed, in any program that uses the client.
THEOREM ClientTypeCorrect == Spec => []TypeOK
<1>1. DhcpInv => TypeOK
  BY DEF DhcpInv
<1>. QED  BY <1>1, DhcpInvHolds, PTL

\* The address asked for or used was offered by the server the client heeds,
\* whatever late or repeated messages of other servers arrive.
THEOREM AddressFromItsServerHolds == Spec => []AddressFromItsServer
<1>1. DhcpInv => AddressFromItsServer
  BY DEF DhcpInv
<1>. QED  BY <1>1, DhcpInvHolds, PTL

\* While the lease stands the chip has its address.
THEOREM LeasedUsesItHolds == Spec => []LeasedUsesIt
<1>1. DhcpInv => LeasedUsesIt
  BY DEF DhcpInv
<1>. QED  BY <1>1, DhcpInvHolds, PTL

----------------------------------------------------------------------------
(* Renewal.                                                                *)

\* While a renewal is asked for the two addresses that DHCP_run compares when it is
\* granted are the same.
SameAddress ==
    /\ ret # "CHANGED"
    /\ dhcp_state = "REREQUEST" => OLD_allocated_ip = DHCP_allocated_ip

Holds(state) == state \in {"LEASED", "REREQUEST"}

\* DHCP_run never answers DHCP_IP_CHANGED, and the chip's address stays what it is as
\* long as the lease.
RenewalChangesNothing ==
    /\ [](ret # "CHANGED")
    /\ [][Holds(dhcp_state) /\ Holds(dhcp_state') => UNCHANGED SIPR]_vars

LEMMA SameAddressStep ==
    ASSUME SameAddress, [Next]_vars
    PROVE  /\ SameAddress'
           /\ Holds(dhcp_state) /\ Holds(dhcp_state') => UNCHANGED SIPR
<1>. USE DEF SameAddress, Holds, clock, ips, wire
<1>1. CASE Environment
  BY <1>1 DEF Environment, ServerNaks, ServerOffers, ServerAcks, Deliver, Lose, DHCP_time_handler
<1>2. CASE StartDiscover \/ TakeOffer \/ TakeAck \/ FindConflict \/ EndConflict
  BY <1>2 DEF StartDiscover, TakeOffer, TakeAck, FindConflict, EndConflict, Run
<1>3. CASE TakeNak \/ KeepLease
  BY <1>3 DEF TakeNak, KeepLease, Run
<1>4. CASE Renew
  BY <1>4 DEF Renew, Run
<1>5. CASE TakeRenewal
  BY <1>5 DEF TakeRenewal, Run
<1>6. CASE KeepWaiting \/ Resend \/ GiveUp
  <2>1. UNCHANGED ips /\ dhcp_state' \in {dhcp_state, "INIT", "DISCOVER"}
          /\ ret' \in {"RUNNING", "FAILED"}
    BY <1>6 DEF KeepWaiting, Resend, GiveUp, Unanswered
  <2>. QED  BY <2>1
<1>7. CASE RunStopped \/ DHCP_init \/ DHCP_stop
  BY <1>7 DEF RunStopped, DHCP_init, DHCP_stop
<1>8. CASE UNCHANGED vars
  BY <1>8 DEF vars
<1>. QED  BY <1>1, <1>2, <1>3, <1>4, <1>5, <1>6, <1>7, <1>8 DEF Next, DHCP_run

\* The address of a renewal's ACK is never copied (dhcp.c:849, 868): whatever servers
\* grant, no lease changes its address and dhcp_ip_update() is never called.
THEOREM RenewalChangesNothingHolds == Spec => RenewalChangesNothing
<1>1. Init => SameAddress
  BY DEF Init, SameAddress
<1>2. SameAddress /\ [Next]_vars => SameAddress'
  BY SameAddressStep
<1>3. SameAddress => ret # "CHANGED"
  BY DEF SameAddress
<1>4. SameAddress /\ [Next]_vars => [Holds(dhcp_state) /\ Holds(dhcp_state') => UNCHANGED SIPR]_vars
  BY SameAddressStep
<1>. QED  BY <1>1, <1>2, <1>3, <1>4, PTL DEF Spec, RenewalChangesNothing

----------------------------------------------------------------------------
(* A client without a timer does no more than DhcpService says.            *)
(*                                                                         *)
(* Its ticks stay at 0, so no lease is ever half over and no request is    *)
(* repeated: the renewal is never reached, and up to the ACK the chip has  *)
(* no address.  What DhcpService calls an ACK waiting in the socket is one *)
(* at the head of the receive memory, from the server that is heeded,      *)
(* while a request is under way and no conflict has been found.            *)

UntimedInv ==
    /\ DhcpInv
    /\ dhcp_tick_1s = 0
    /\ dhcp_state # "REREQUEST"
    /\ dhcp_state \in {"INIT", "DISCOVER", "REQUEST"} => SIPR = NoAddr

LEMMA InitUntimed == Init => UntimedInv
BY InitDhcpInv DEF Init, UntimedInv

\* Half of no lease is over at tick 0.
LEMMA NeverHalfOver ==
    ASSUME DhcpInv, parseDHCPMSG, dhcp_tick_1s = 0
    PROVE  ~HalfOver(dhcp_lease_time')
<1>1. dhcp_lease_time' \in Nat \union {Infinite}
  BY ParseKeeps
<1>2. \A t \in Nat : ~(t \div 2 < 0)
  OBVIOUS
<1>. QED  BY <1>1, <1>2 DEF HalfOver

LEMMA NextUntimed ==
    ASSUME ~Timer, UntimedInv, [Next]_vars
    PROVE  UntimedInv'
<1>1. DhcpInv'
  BY NextDhcpInv DEF UntimedInv
<1>. USE DEF UntimedInv, clock, ips, wire, Run, Quiet, reset_DHCP_timeout
<1>2. CASE Environment
  BY <1>1, <1>2 DEF Environment, ServerNaks, ServerOffers, ServerAcks, Deliver, Lose,
                    DHCP_time_handler
<1>3. CASE StartDiscover \/ TakeOffer \/ TakeAck \/ FindConflict \/ EndConflict \/ TakeNak
  BY <1>1, <1>3 DEF StartDiscover, TakeOffer, TakeAck, FindConflict, EndConflict, TakeNak
<1>4. CASE KeepLease \/ Renew \/ TakeRenewal
  BY <1>1, <1>4, NeverHalfOver DEF KeepLease, Renew, TakeRenewal
<1>5. CASE KeepWaiting \/ Resend \/ GiveUp \/ RunStopped
  BY <1>1, <1>5 DEF KeepWaiting, Resend, GiveUp, RunStopped, Unanswered
<1>6. CASE DHCP_init \/ DHCP_stop
  BY <1>1, <1>6 DEF DHCP_init, DHCP_stop, DhcpInv, TypeOK
<1>7. CASE UNCHANGED vars
  BY <1>1, <1>7 DEF vars
<1>. QED  BY <1>2, <1>3, <1>4, <1>5, <1>6, <1>7 DEF Next, DHCP_run

\* The client's state, and the ACK it would take next, as DhcpService sees them.
Waits == dhcp_state = "REQUEST" /\ spin = 0 /\ Got("ACK")

Mapped == CASE dhcp_state = "LEASED" -> "LEASED"
            [] dhcp_state = "STOP"   -> "STOP"
            [] OTHER                 -> "BUSY"

Offered == IF Waits THEN DHCP_allocated_ip ELSE NoAddr

LEMMA ServiceInit == Init => Service!DhcpPowerUp
BY DEF Init, Service!DhcpPowerUp

\* What the service sees of a step that keeps the client's state, the chip's
\* address and what is allocated: an ACK may have become the next message.
LEMMA AckArrives ==
    ASSUME UntimedInv, UntimedInv', ~Waits, dhcp_state \notin {"LEASED", "STOP"},
           dhcp_state' \notin {"LEASED", "STOP"}, UNCHANGED SIPR
    PROVE  [Service!DhcpNext]_Service!dhcp
<1>1. Mapped = "BUSY" /\ Mapped' = "BUSY" /\ Offered = NoAddr
  BY DEF Mapped, Offered
<1>2. CASE Waits'
  <2>1. DHCP_allocated_ip' \in Addr
    <3>1. Msg("OFFER", DHCP_SIP, DHCP_allocated_ip)' \in Answer
      BY <1>2 DEF UntimedInv, DhcpInv, TypeOK, AddressFromItsServer, Waits
    <3>. QED  BY <3>1 DEF Msg, Answer
  <2>2. Offered' = DHCP_allocated_ip'
    BY <1>2 DEF Offered
  <2>3. Service!ServerAcks(DHCP_allocated_ip')
    BY <1>1, <2>2 DEF Service!ServerAcks, Mapped, Offered, Waits
  <2>. QED  BY <2>1, <2>3 DEF Service!DhcpNext
<1>3. CASE ~Waits'
  <2>1. Offered' = NoAddr
    BY <1>3 DEF Offered
  <2>. QED  BY <1>1, <2>1 DEF Service!dhcp, Mapped, Offered, Waits
<1>. QED  BY <1>2, <1>3

\* A step that changes nothing the service is about.
LEMMA NothingSeen ==
    ASSUME UNCHANGED <<dhcp_state, SIPR, DHCP_allocated_ip>>, Waits' = Waits
    PROVE  UNCHANGED Service!dhcp
BY DEF Service!dhcp, Waits

\* A message that comes behind another leaves the head as it is.
LEMMA DeliveredBehind ==
    ASSUME TypeOK, NEW m \in said, Deliver(m), rx # << >>
    PROVE  Waits' = Waits
<1>1. rx' = Append(rx, m) /\ rx \in Seq(Answer) /\ m \in Answer
  BY DEF Deliver, TypeOK
<1>2. Head(rx') = Head(rx) /\ rx' # << >>
  BY <1>1
<1>. QED  BY <1>2 DEF Waits, Got, Heeded, Deliver

LEMMA EnvironmentServes ==
    ASSUME ~Timer, UntimedInv, UntimedInv', Environment
    PROVE  [Service!DhcpNext]_Service!dhcp
<1>1. ASSUME NEW m \in said, Deliver(m)
      PROVE  [Service!DhcpNext]_Service!dhcp
  <2>. UNCHANGED <<dhcp_state, SIPR, DHCP_allocated_ip, DHCP_SIP, spin>>
    BY <1>1 DEF Deliver, ips
  <2>1. CASE rx # << >> \/ dhcp_state # "REQUEST"
    <3>1. Waits' = Waits
      BY <1>1, <2>1, DeliveredBehind DEF UntimedInv, DhcpInv, Waits
    <3>. QED  BY <3>1, NothingSeen
  <2>2. CASE rx = << >> /\ dhcp_state = "REQUEST"
    <3>1. ~Waits
      BY <2>2 DEF Waits, Got, Heeded
    <3>. QED  BY <2>2, <3>1, AckArrives
  <2>. QED  BY <2>1, <2>2
<1>2. ASSUME UNCHANGED <<dhcp_state, ips, DHCP_SIP, spin, rx>>
      PROVE  [Service!DhcpNext]_Service!dhcp
  BY <1>2, NothingSeen DEF Waits, Got, Heeded, ips
<1>. QED
  BY <1>1, <1>2 DEF Environment, ServerNaks, ServerOffers, ServerAcks, Lose, DHCP_time_handler,
                    wire

LEMMA NextServes ==
    ASSUME ~Timer, UntimedInv, UntimedInv', [Next]_vars
    PROVE  [Service!DhcpNext]_Service!dhcp
<1>. USE DEF Run, Quiet, reset_DHCP_timeout
<1>1. CASE StartDiscover \/ TakeOffer \/ TakeNak \/ KeepWaiting \/ GiveUp
  <2>1. /\ ~Waits /\ UNCHANGED SIPR
        /\ dhcp_state \notin {"LEASED", "STOP"} /\ dhcp_state' \notin {"LEASED", "STOP"}
    BY <1>1 DEF StartDiscover, TakeOffer, TakeNak, KeepWaiting, GiveUp, Unanswered, Answered,
                Waits, Got, UntimedInv, ips
  <2>. QED  BY <2>1, AckArrives
<1>2. CASE TakeAck
  <2>1. Waits /\ ~Waits' /\ DHCP_allocated_ip \in Addr
    BY <1>2, Settled DEF TakeAck, Waits, UntimedInv
  <2>2. Service!Assign
    BY <1>2, <2>1 DEF TakeAck, Service!Assign, Waits
  <2>. QED  BY <2>2 DEF Service!DhcpNext
<1>3. CASE FindConflict \/ EndConflict \/ DHCP_init
  <2>1. dhcp_state' \notin {"LEASED", "STOP"} /\ ~Waits' /\ SIPR' = NoAddr
    BY <1>3 DEF FindConflict, EndConflict, DHCP_init, Waits, UntimedInv, ips
  <2>2. Service!DHCP_init
    BY <2>1 DEF Service!DHCP_init, Waits
  <2>. QED  BY <2>2 DEF Service!DhcpNext
<1>4. CASE DHCP_stop
  <2>1. ~Waits' /\ dhcp_state' = "STOP" /\ UNCHANGED SIPR
    BY <1>4 DEF DHCP_stop, Waits, ips
  <2>2. Service!DHCP_stop
    BY <2>1 DEF Service!DHCP_stop, Waits
  <2>. QED  BY <2>1, <2>2 DEF Service!DhcpNext
<1>5. CASE KeepLease \/ RunStopped
  <2>1. UNCHANGED <<dhcp_state, SIPR, DHCP_allocated_ip>> /\ Waits' = Waits
    BY <1>5 DEF KeepLease, RunStopped, Waits, ips
  <2>. QED  BY <2>1, NothingSeen
<1>6. ~(Renew \/ TakeRenewal \/ Resend)
  <2>1. ~Renew
    BY NeverHalfOver DEF Renew, UntimedInv
  <2>2. ~TakeRenewal
    BY DEF TakeRenewal, UntimedInv
  <2>3. ~Resend
    <3>1. ~(dhcp_tick_1s > DHCP_WAIT_TIME)
      BY DEF UntimedInv
    <3>. QED  BY <3>1 DEF Resend
  <2>. QED  BY <2>1, <2>2, <2>3
<1>7. CASE UNCHANGED vars
  BY <1>7, NothingSeen DEF vars, ips, wire, Waits, Got, Heeded
<1>. QED  BY <1>1, <1>2, <1>3, <1>4, <1>5, <1>6, <1>7, EnvironmentServes DEF Next, DHCP_run

\* dhcp.c in a program that never calls DHCP_time_handler, as tib-pico2 does,
\* with all the losses, repetitions and late answers of the exchange: the chip
\* gets an address only with the ACK the client waits for, and nothing but
\* DHCP_init or DHCP_stop ends a lease.
THEOREM UntimedImplementsService == ~Timer => (Spec => ServiceSpec)
<1>. SUFFICES ASSUME ~Timer
              PROVE  Spec => ServiceSpec
  OBVIOUS
<1>1. Spec => Init /\ [][Next]_vars
  BY DEF Spec
<1>2. Init => Service!DhcpPowerUp
  BY ServiceInit
<1>3. UntimedInv /\ [Next]_vars => UntimedInv'
  BY NextUntimed
<1>4. UntimedInv /\ UntimedInv' /\ [Next]_vars => [Service!DhcpNext]_Service!dhcp
  BY NextServes
<1>5. Service!DhcpPowerUp /\ [][Service!DhcpNext]_Service!dhcp => ServiceSpec
  BY DEF ServiceSpec, Service!DhcpSpec
<1>. QED  BY <1>1, <1>2, <1>3, <1>4, <1>5, InitUntimed, PTL

----------------------------------------------------------------------------
(* tib-pico2 as a user of dhcp.c: what start_dhcp() and handle_link_down() *)
(* believe of the lease is so, for any number of polls, any servers and    *)
(* any retry limit.                                                        *)
(*                                                                         *)
(* The steps of the program are steps of DhcpClient, so what is proved of  *)
(* an untimed client above holds here.  What is added is that a device     *)
(* with a lease is outside start_dhcp(), and that the answer               *)
(* DHCP_IP_LEASED of an untimed client comes only with a lease: with a     *)
(* timer it also comes with a refused renewal, when the exchange starts    *)
(* anew.                                                                   *)

USE TibDhcpAssumption

TibInv ==
    /\ dhcp_active \in BOOLEAN /\ polls \in 0 .. Polls + 1
    /\ dhcp_active => dhcp_state = "LEASED" /\ polls = Polls + 1

\* The program does no step of dhcp.c that the client does not have.
LEMMA StepsOfTheClient == [TibNext]_tibVars => [Next]_vars
BY DEF TibNext, tibVars, ComsTask, StartDhcp, Poll, NoLease, LinkDown, Next

LEMMA TibUntimed == TibSpec => []UntimedInv
<1>1. TibInit => UntimedInv
  BY InitUntimed DEF TibInit
<1>2. UntimedInv /\ [Next]_vars => UntimedInv'
  BY NextUntimed
<1>. QED  BY <1>1, <1>2, StepsOfTheClient, PTL DEF TibSpec

\* What start_dhcp() takes for a lease is one.
LEMMA LeasedAnswer ==
    ASSUME UntimedInv, DHCP_run, spin' = 0, ret' = "LEASED", ~dhcp_active
    PROVE  dhcp_state' = "LEASED"
<1>. USE DEF UntimedInv, Run
<1>1. ~FindConflict
  BY DEF FindConflict
<1>2. ~(StartDiscover \/ TakeOffer \/ TakeAck \/ EndConflict \/ TakeNak)
  BY DEF StartDiscover, TakeOffer, TakeAck, EndConflict, TakeNak
<1>3. ~(KeepWaiting \/ Resend \/ GiveUp \/ RunStopped)
  BY DEF KeepWaiting, Resend, GiveUp, RunStopped
<1>4. ~Renew
  BY NeverHalfOver DEF Renew
<1>5. KeepLease \/ TakeRenewal => dhcp_state' = "LEASED"
  BY DEF KeepLease, TakeRenewal
<1>. QED  BY <1>1, <1>2, <1>3, <1>4, <1>5 DEF DHCP_run

LEMMA NextTibInv ==
    ASSUME UntimedInv, TibInv, [TibNext]_tibVars
    PROVE  TibInv'
<1>. USE DEF TibInv
<1>1. CASE StartDhcp
  BY <1>1 DEF StartDhcp
<1>2. CASE Poll
  BY <1>2, LeasedAnswer DEF Poll
<1>3. CASE NoLease
  BY <1>3 DEF NoLease
<1>4. CASE LinkDown
  BY <1>4 DEF LinkDown
<1>5. CASE Environment /\ UNCHANGED tib
  BY <1>5 DEF tib, Environment, ServerNaks, ServerOffers, ServerAcks, Deliver, Lose,
              DHCP_time_handler
<1>6. CASE UNCHANGED tibVars
  BY <1>6 DEF tibVars, tib, vars
<1>. QED  BY <1>1, <1>2, <1>3, <1>4, <1>5, <1>6 DEF TibNext, ComsTask

\* A device that believes its lease active has one, and the chip its address,
\* after any number of rounds of start_dhcp(), link losses and late answers.
THEOREM ActiveIsLeasedHolds == TibSpec => []ActiveIsLeased
<1>1. TibInit => TibInv
  <2>. SUFFICES ASSUME TibInit
                PROVE  TibInv
    OBVIOUS
  <2>1. Polls + 1 \in 0 .. Polls + 1
    OBVIOUS
  <2>. QED  BY <2>1, Zenon DEF TibInit, TibInv
<1>2. UntimedInv /\ TibInv /\ [TibNext]_tibVars => TibInv'
  BY NextTibInv
<1>3. UntimedInv /\ TibInv => ActiveIsLeased
  BY DEF UntimedInv, DhcpInv, LeasedUsesIt, TibInv, ActiveIsLeased
<1>. QED  BY <1>1, <1>2, <1>3, TibUntimed, PTL DEF TibSpec

\* dhcp.c as tib-pico2 drives it is the DhcpService that ZyreLink is composed
\* with: the link and lease supervision may be read with one step for every
\* exchange with the servers.
THEOREM TibImplementsService == TibSpec => ServiceSpec
<1>1. TibSpec => Spec
  <2>1. TibInit => Init
    BY DEF TibInit
  <2>. QED  BY <2>1, StepsOfTheClient, PTL DEF TibSpec, Spec
<1>2. Spec => ServiceSpec
  BY UntimedImplementsService
<1>. QED  BY <1>1, <1>2, PTL
=============================================================================
