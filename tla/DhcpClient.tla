----------------------------- MODULE DhcpClient -----------------------------
(***************************************************************************)
(* The DHCP client of the WIZnet library, dhcp.c: one exchange with the    *)
(* servers of the network, its retransmissions, its lease and its renewal. *)
(*                                                                         *)
(* The program calls DHCP_init, DHCP_run and DHCP_stop when it likes.      *)
(* DHCP_time_handler is called from a timer interrupt, between any two     *)
(* steps, in a program that has one (Timer).  A message of a server may be *)
(* delivered late, repeatedly or never: no transaction id is compared.     *)
(***************************************************************************)
EXTENDS Integers, Sequences

CONSTANTS
    Server, NoServer,   \* servers; 0.0.0.0 as a server
    Addr, NoAddr,       \* addresses; 0.0.0.0
    Pool,               \* the addresses each server leases
    Leases,             \* lease times a message may carry, Infinite possible
    Infinite,           \* INFINITE_LEASETIME
    MAX_DHCP_RETRY,     \* 2 in the code
    DHCP_WAIT_TIME,     \* 10 in the code
    MaxTick,            \* bound: dhcp_tick_1s is not followed beyond
    RxMax,              \* messages the receive memory of the socket holds
    Timer               \* the program calls DHCP_time_handler every second

ASSUME DhcpClientAssumption ==
    /\ NoServer \notin Server /\ NoAddr \notin Addr
    /\ Pool \in [Server -> SUBSET Addr]
    /\ Infinite \notin Nat /\ Leases \subseteq Nat \union {Infinite}
    /\ MAX_DHCP_RETRY \in Nat /\ DHCP_WAIT_TIME \in Nat
    /\ MaxTick \in Nat /\ DHCP_WAIT_TIME < MaxTick
    /\ \A t \in Leases \ {Infinite} : t \div 2 < MaxTick
    /\ RxMax \in Nat \ {0}
    /\ Timer \in BOOLEAN

\* What servers send, and what the client sends.
Answer  == [type : {"OFFER", "ACK"}, srv : Server, ip : Addr]
           \union [type : {"NAK"}, srv : Server, ip : {NoAddr}]
Asking  == [type : {"DISCOVER"}, srv : {NoServer}, ip : {NoAddr}]
           \union [type : {"REQUEST", "RENEW"}, srv : Server, ip : Addr]

Msg(type, srv, ip) == [type |-> type, srv |-> srv, ip |-> ip]
Discover == Msg("DISCOVER", NoServer, NoAddr)

VARIABLES
    dhcp_state, dhcp_retry_count, dhcp_tick_1s, dhcp_lease_time,
    DHCP_allocated_ip, OLD_allocated_ip,
    DHCP_SIP,      \* the server whose messages are heeded
    SIPR,          \* the chip's address
    ret,           \* what the last DHCP_run answered
    spin,          \* check_DHCP_leasedIP after a conflict: 0, or 1 + ticks seen
    SR, rx,        \* the DHCP socket: Sn_SR and receive memory
    asked,         \* requests of the client on their way
    said           \* every message a server has sent

clock == <<dhcp_retry_count, dhcp_tick_1s>>
ips   == <<DHCP_allocated_ip, OLD_allocated_ip, SIPR>>
wire  == <<SR, rx, asked, said>>
vars  == <<dhcp_state, clock, dhcp_lease_time, ips, DHCP_SIP, ret, spin, wire>>

Init ==
    /\ dhcp_state = "INIT" /\ dhcp_retry_count = 0 /\ dhcp_tick_1s = 0
    /\ dhcp_lease_time = Infinite
    /\ DHCP_allocated_ip = NoAddr /\ OLD_allocated_ip = NoAddr /\ SIPR = NoAddr
    /\ DHCP_SIP = NoServer
    /\ ret = "RUNNING" /\ spin = 0
    /\ SR = "CLOSED" /\ rx = << >> /\ asked = {} /\ said = {}

----------------------------------------------------------------------------
(* Servers, network, timer.                                                *)

ServerOffers(s, a) ==
    /\ Discover \in asked
    /\ said' = said \union {Msg("OFFER", s, a)}
    /\ UNCHANGED <<dhcp_state, clock, dhcp_lease_time, ips, DHCP_SIP, ret, spin, SR, rx, asked>>

\* A renewal may be granted with another address.
ServerAcks(s, a) ==
    /\ \/ Msg("REQUEST", s, a) \in asked
       \/ \E r \in asked : r.type = "RENEW" /\ r.srv = s
    /\ said' = said \union {Msg("ACK", s, a)}
    /\ UNCHANGED <<dhcp_state, clock, dhcp_lease_time, ips, DHCP_SIP, ret, spin, SR, rx, asked>>

ServerNaks(s) ==
    /\ \E r \in asked : r.srv = s
    /\ said' = said \union {Msg("NAK", s, NoAddr)}
    /\ UNCHANGED <<dhcp_state, clock, dhcp_lease_time, ips, DHCP_SIP, ret, spin, SR, rx, asked>>

Deliver(m) ==
    /\ m \in said /\ SR = "UDP" /\ Len(rx) < RxMax
    /\ rx' = Append(rx, m)
    /\ UNCHANGED <<dhcp_state, clock, dhcp_lease_time, ips, DHCP_SIP, ret, spin, SR, asked, said>>

Lose(r) ==
    /\ r \in asked
    /\ asked' = asked \ {r}
    /\ UNCHANGED <<dhcp_state, clock, dhcp_lease_time, ips, DHCP_SIP, ret, spin, SR, rx, said>>

DHCP_time_handler ==
    /\ Timer
    /\ dhcp_tick_1s < MaxTick \/ spin \in {1, 2}
    /\ dhcp_tick_1s' = IF dhcp_tick_1s < MaxTick THEN dhcp_tick_1s + 1 ELSE dhcp_tick_1s
    /\ spin' = IF spin \in {1, 2} THEN spin + 1 ELSE spin
    /\ UNCHANGED <<dhcp_state, dhcp_retry_count, dhcp_lease_time, ips, DHCP_SIP, ret, wire>>

Environment ==
    \/ \E s \in Server : ServerNaks(s) \/ \E a \in Pool[s] : ServerOffers(s, a) \/ ServerAcks(s, a)
    \/ \E m \in said : Deliver(m)
    \/ \E r \in asked : Lose(r)
    \/ DHCP_time_handler

----------------------------------------------------------------------------
(* What every DHCP_run begins with, and its parts.                         *)

reset_DHCP_timeout == dhcp_tick_1s' = 0 /\ dhcp_retry_count' = 0

\* Mutant: a message of any server is heeded.
HeededAny == rx # << >>

\* parseDHCPMSG(): a message of another server than DHCP_SIP is dropped; one
\* that is heeded sets DHCP_SIP and, unless a NAK, the lease time.
Heeded    == rx # << >> /\ (DHCP_SIP = NoServer \/ Head(rx).srv = DHCP_SIP)
Got(type) == Heeded /\ Head(rx).type = type
ParsedSIP == IF Heeded THEN Head(rx).srv ELSE DHCP_SIP

parseDHCPMSG ==
    /\ rx' = IF rx = << >> THEN rx ELSE Tail(rx)
    /\ IF Got("OFFER") \/ Got("ACK") THEN dhcp_lease_time' \in Leases
                                     ELSE UNCHANGED dhcp_lease_time
    /\ UNCHANGED said

\* What DHCP_run has parsed stays, and nothing is sent.
Quiet == DHCP_SIP' = ParsedSIP /\ UNCHANGED asked

send_DHCP_DISCOVER == DHCP_SIP' = NoServer /\ asked' = asked \union {Discover}

send_DHCP_REQUEST(ip) ==
    /\ DHCP_SIP' = ParsedSIP
    /\ asked' = asked \union
           {Msg(IF dhcp_state \in {"LEASED", "REREQUEST"} THEN "RENEW" ELSE "REQUEST",
                ParsedSIP, ip)}

\* DHCP_run is called and finds the client in one of these states.
Run(states) ==
    /\ spin = 0 /\ dhcp_state \in states
    /\ SR' = "UDP"
    /\ parseDHCPMSG

\* The answer the client waits for in this state is there.
Answered ==
    \/ dhcp_state = "DISCOVER" /\ Got("OFFER")
    \/ dhcp_state \in {"REQUEST", "REREQUEST"} /\ (Got("ACK") \/ Got("NAK"))

----------------------------------------------------------------------------
(* DHCP_run.                                                               *)

StartDiscover ==
    /\ Run({"INIT"})
    /\ DHCP_allocated_ip' = NoAddr
    /\ send_DHCP_DISCOVER
    /\ dhcp_state' = "DISCOVER" /\ ret' = "RUNNING"
    /\ UNCHANGED <<clock, OLD_allocated_ip, SIPR, spin>>

TakeOffer ==
    /\ Run({"DISCOVER"}) /\ Got("OFFER")
    /\ DHCP_allocated_ip' = Head(rx).ip
    /\ send_DHCP_REQUEST(Head(rx).ip)
    /\ dhcp_state' = "REQUEST" /\ ret' = "RUNNING"
    /\ UNCHANGED <<clock, OLD_allocated_ip, SIPR, spin>>

\* Mutant: the server of the ACK is not compared.
TakeAckOfAny ==
    /\ Run({"REQUEST"}) /\ rx # << >> /\ Head(rx).type = "ACK"
    /\ SIPR' = DHCP_allocated_ip
    /\ reset_DHCP_timeout
    /\ Quiet
    /\ dhcp_state' = "LEASED" /\ ret' = "RUNNING"
    /\ UNCHANGED <<DHCP_allocated_ip, OLD_allocated_ip, spin>>

\* Nobody else answers to the address: dhcp_ip_assign().
TakeAck ==
    /\ Run({"REQUEST"}) /\ Got("ACK")
    /\ SIPR' = DHCP_allocated_ip
    /\ reset_DHCP_timeout
    /\ Quiet
    /\ dhcp_state' = "LEASED" /\ ret' = "RUNNING"
    /\ UNCHANGED <<DHCP_allocated_ip, OLD_allocated_ip, spin>>

\* Somebody does: DECLINE is sent, and the call waits for two ticks.
FindConflict ==
    /\ Run({"REQUEST"}) /\ Got("ACK")
    /\ spin' = 1
    /\ Quiet
    /\ UNCHANGED <<dhcp_state, clock, ips, ret>>

\* default_ip_conflict(): the chip is reset.
EndConflict ==
    /\ spin = 3
    /\ spin' = 0
    /\ reset_DHCP_timeout
    /\ SIPR' = NoAddr /\ SR' = "CLOSED" /\ rx' = << >>
    /\ dhcp_state' = "INIT" /\ ret' = "RUNNING"
    /\ UNCHANGED <<dhcp_lease_time, DHCP_allocated_ip, OLD_allocated_ip, DHCP_SIP, asked, said>>

\* The exchange starts over, but nothing is sent before the next timeout.
TakeNak ==
    /\ Run({"REQUEST", "REREQUEST"}) /\ Got("NAK")
    /\ reset_DHCP_timeout
    /\ Quiet
    /\ dhcp_state' = "DISCOVER"
    /\ ret' = IF dhcp_state = "REQUEST" THEN "RUNNING" ELSE "LEASED"
    /\ UNCHANGED <<ips, spin>>

\* Mutant: the comparison with INFINITE_LEASETIME is inverted.
HalfOverInverted(lease) == lease = Infinite /\ lease \div 2 < dhcp_tick_1s

\* Half of the lease time, as just parsed, is over.
HalfOver(lease) == lease # Infinite /\ lease \div 2 < dhcp_tick_1s

KeepLease ==
    /\ Run({"LEASED"}) /\ ~HalfOver(dhcp_lease_time')
    /\ Quiet
    /\ ret' = "LEASED"
    /\ UNCHANGED <<dhcp_state, clock, ips, spin>>

Renew ==
    /\ Run({"LEASED"}) /\ HalfOver(dhcp_lease_time')
    /\ OLD_allocated_ip' = DHCP_allocated_ip
    /\ send_DHCP_REQUEST(DHCP_allocated_ip)
    /\ reset_DHCP_timeout
    /\ dhcp_state' = "REREQUEST" /\ ret' = "LEASED"
    /\ UNCHANGED <<DHCP_allocated_ip, SIPR, spin>>

\* The address of the ACK is not copied: the two compared are always equal.
TakeRenewal ==
    /\ Run({"REREQUEST"}) /\ Got("ACK")
    /\ IF OLD_allocated_ip # DHCP_allocated_ip
         THEN SIPR' = DHCP_allocated_ip /\ ret' = "CHANGED"
         ELSE UNCHANGED SIPR /\ ret' = "LEASED"
    /\ reset_DHCP_timeout
    /\ Quiet
    /\ dhcp_state' = "LEASED"
    /\ UNCHANGED <<DHCP_allocated_ip, OLD_allocated_ip, spin>>

\* Mutant: the retries are not counted.
UnansweredAlways(more) ==
    /\ Run({"DISCOVER", "REQUEST", "REREQUEST"}) /\ ~Answered
    /\ UNCHANGED <<ips, spin>>

\* check_DHCP_timeout() is reached, with retries left or without.
Unanswered(more) ==
    /\ Run({"DISCOVER", "REQUEST", "REREQUEST"}) /\ ~Answered
    /\ more = (dhcp_retry_count < MAX_DHCP_RETRY)
    /\ UNCHANGED <<ips, spin>>

KeepWaiting ==
    /\ Unanswered(TRUE) /\ dhcp_tick_1s <= DHCP_WAIT_TIME
    /\ Quiet
    /\ ret' = "RUNNING"
    /\ UNCHANGED <<dhcp_state, clock>>

Resend ==
    /\ Unanswered(TRUE) /\ dhcp_tick_1s > DHCP_WAIT_TIME
    /\ IF dhcp_state = "DISCOVER" THEN send_DHCP_DISCOVER
                                  ELSE send_DHCP_REQUEST(DHCP_allocated_ip)
    /\ dhcp_tick_1s' = 0 /\ dhcp_retry_count' = dhcp_retry_count + 1
    /\ ret' = "RUNNING"
    /\ UNCHANGED dhcp_state

\* Mutant: without a retry left, the client stays in DISCOVER.
GiveUpStays ==
    /\ Unanswered(FALSE)
    /\ IF dhcp_state = "DISCOVER"
         THEN ret' = "FAILED" /\ Quiet /\ UNCHANGED dhcp_state
         ELSE dhcp_state' = "DISCOVER" /\ ret' = "RUNNING" /\ send_DHCP_DISCOVER
    /\ UNCHANGED clock

\* No retry is left: from DISCOVER the exchange has failed, otherwise it
\* starts over.
GiveUp ==
    /\ Unanswered(FALSE)
    /\ IF dhcp_state = "DISCOVER"
         THEN dhcp_state' = "INIT" /\ ret' = "FAILED" /\ Quiet
         ELSE dhcp_state' = "DISCOVER" /\ ret' = "RUNNING" /\ send_DHCP_DISCOVER
    /\ reset_DHCP_timeout

RunStopped ==
    /\ dhcp_state = "STOP"
    /\ ret' = "STOPPED"
    /\ UNCHANGED <<dhcp_state, clock, dhcp_lease_time, ips, DHCP_SIP, spin, wire>>

DHCP_run ==
    \/ StartDiscover \/ TakeOffer \/ TakeAck \/ FindConflict \/ EndConflict \/ TakeNak
    \/ KeepLease \/ Renew \/ TakeRenewal
    \/ KeepWaiting \/ Resend \/ GiveUp \/ RunStopped

\* Mutant: the state machine goes on where it was.
DHCP_init_GoesOn ==
    /\ spin = 0
    /\ SIPR' = NoAddr
    /\ reset_DHCP_timeout
    /\ UNCHANGED <<dhcp_state, dhcp_lease_time, DHCP_allocated_ip, OLD_allocated_ip, DHCP_SIP,
                   ret, spin, wire>>

DHCP_init ==
    /\ spin = 0
    /\ SIPR' = NoAddr
    /\ reset_DHCP_timeout
    /\ dhcp_state' = "INIT"
    /\ UNCHANGED <<dhcp_lease_time, DHCP_allocated_ip, OLD_allocated_ip, DHCP_SIP, ret, spin, wire>>

DHCP_stop ==
    /\ spin = 0
    /\ SR' = "CLOSED" /\ rx' = << >>
    /\ dhcp_state' = "STOP"
    /\ UNCHANGED <<clock, dhcp_lease_time, ips, DHCP_SIP, ret, spin, asked, said>>

----------------------------------------------------------------------------
Next == Environment \/ DHCP_run \/ DHCP_init \/ DHCP_stop

\* Safety: the program calls what it likes.
Spec == Init /\ [][Next]_vars

\* Liveness: it calls DHCP_run over and over, with a running timer, and
\* DHCP_init and DHCP_stop when it likes.
FairSpec == Spec /\ WF_vars(DHCP_run) /\ WF_vars(DHCP_time_handler)

----------------------------------------------------------------------------
(* Properties.                                                             *)

TypeOK ==
    /\ dhcp_state \in {"INIT", "DISCOVER", "REQUEST", "LEASED", "REREQUEST", "STOP"}
    /\ dhcp_retry_count \in 0 .. MAX_DHCP_RETRY
    /\ dhcp_tick_1s \in 0 .. MaxTick
    /\ dhcp_lease_time \in Leases \union {Infinite}
    /\ {DHCP_allocated_ip, OLD_allocated_ip, SIPR} \subseteq Addr \union {NoAddr}
    /\ DHCP_SIP \in Server \union {NoServer}
    /\ ret \in {"RUNNING", "LEASED", "CHANGED", "FAILED", "STOPPED"}
    /\ spin \in 0 .. 3 /\ (spin # 0 => dhcp_state = "REQUEST")
    /\ SR \in {"CLOSED", "UDP"}
    /\ rx \in Seq(Answer) /\ Len(rx) <= RxMax /\ (SR = "CLOSED" => rx = << >>)
    /\ asked \subseteq Asking /\ said \subseteq Answer

\* The address the client asks for or uses and the server it heeds belong
\* together: no late message of another server changes one without the other.
AddressFromItsServer ==
    dhcp_state \in {"REQUEST", "LEASED", "REREQUEST"}
        => Msg("OFFER", DHCP_SIP, DHCP_allocated_ip) \in said

\* While the lease stands, through any renewal, the chip has its address.
LeasedUsesIt ==
    dhcp_state \in {"LEASED", "REREQUEST"}
        => SIPR = DHCP_allocated_ip /\ SIPR # NoAddr

\* Without a timer the client does no more than DhcpService says.
Service == INSTANCE DhcpService WITH
    dhcp_state <- CASE dhcp_state = "LEASED" -> "LEASED"
                    [] dhcp_state = "STOP"   -> "STOP"
                    [] OTHER                 -> "BUSY",
    offered    <- IF dhcp_state = "REQUEST" /\ spin = 0 /\ Got("ACK")
                    THEN DHCP_allocated_ip ELSE NoAddr
ServiceSpec == Service!DhcpSpec

\* Whatever the servers send or do not send, a client whose messages are all
\* lost asks again, until it has a lease.
AsksAgain ==
    (dhcp_state \in {"DISCOVER", "REQUEST", "REREQUEST"} /\ asked = {})
        ~> (asked # {} \/ dhcp_state \in {"LEASED", "STOP"})

\* A lease that ends is renewed.
LeaseRenewed ==
    (dhcp_state = "LEASED" /\ dhcp_lease_time # Infinite) ~> dhcp_state # "LEASED"

----------------------------------------------------------------------------
(* What a comment says, and the code does not.                             *)

\* dhcp.c: dhcp_ip_assign and dhcp_ip_update are called when "the IP address from
\* DHCP server" is assigned and updated: the address used is the one the server
\* acknowledges, at first and at every renewal.
AckedIsUsed ==
    [][TakeAck \/ TakeRenewal => SIPR' = Head(rx).ip]_vars
=============================================================================
