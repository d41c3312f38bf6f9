----------------------------- MODULE DnsClient -----------------------------
(***************************************************************************)
(* dns.c and the program written around it, wizchip_dhcp_dns.c: DHCP_run   *)
(* until an address is leased, then DNS_run until the name is resolved or  *)
(* the retries are used up.  The millisecond timer of timer.c interrupts   *)
(* the program and counts the seconds of dns.c.                            *)
(*                                                                         *)
(* An answer is late, repeated or lost as the network likes.  The address  *)
(* it carries is named after the query it answers, which is named after    *)
(* the local port of its socket.                                           *)
(***************************************************************************)
EXTENDS Integers, Sequences

CONSTANTS
    MAX_DNS_RETRY, DNS_WAIT_TIME,        \* 2 and 3 in dns.h
    DHCP_RETRY_COUNT, DNS_RETRY_COUNT,   \* 5 and 5 in the program
    NETINFO_DHCP,    \* g_net_info.dhcp; FALSE is what the W5500 build compiles
    Garbage,         \* an address read where no address is
    Replies          \* rcode and resource records of the replies considered

\* "LONG" has a name, its own or the question's, that parse_name() has no room for.
RRs    == {"A", "CNAME", "HINFO", "MX", "SOA", "TXT", "OTHER", "LONG"}
Ports  == 1 .. DNS_RETRY_COUNT + 1
NoIp   == 0

ASSUME DnsAssumption ==
    /\ MAX_DNS_RETRY \in Nat /\ DNS_WAIT_TIME \in Nat \ {0}
    /\ DHCP_RETRY_COUNT \in Nat /\ DNS_RETRY_COUNT \in Nat
    /\ NETINFO_DHCP \in BOOLEAN /\ Garbage \notin Nat
    /\ Replies \subseteq [rcode : {0, 3}, rrs : Seq(RRs)]

VARIABLES
    dns_pc,      \* "main", "ask" (before DNS_run), "wait" (in its loop), "halt"
    retval,      \* what DHCP_run answered last
    dhcp_retry, dns_retry,
    g_dns_get_ip_flag, g_dns_target_ip,
    retry_count, dns_1s_tick,
    len,         \* of the query to send: all of it or nothing
    sent,        \* queries this DNS_run has handed to the chip
    dns_port,    \* local port of the socket of the last DNS_run
    dns_rx,      \* what the socket has received, none when it is closed
    dns_said,    \* replies on their way
    timer        \* the repeating timer is still scheduled

main    == <<retval, dhcp_retry, dns_retry, g_dns_get_ip_flag>>
lookup  == <<retry_count, len, sent, dns_port>>
dnsVars == <<dns_pc, main, g_dns_target_ip, lookup, dns_1s_tick, dns_rx, dns_said, timer>>

DnsInit ==
    /\ dns_pc = "main" /\ retval = "FAILED"
    /\ dhcp_retry = 0 /\ dns_retry = 0
    /\ g_dns_get_ip_flag = FALSE /\ g_dns_target_ip = NoIp
    /\ retry_count = 0 /\ dns_1s_tick = 0 /\ len = 0 /\ sent = 0
    /\ dns_port = 0 /\ dns_rx = << >> /\ dns_said = {}
    /\ timer = TRUE

----------------------------------------------------------------------------
(* Timer and network.                                                      *)

\* wizchip_1ms_timer_callback() ends without a return statement: what the SDK
\* reads keeps the timer or cancels it.
wizchip_1ms_timer_callback == timer /\ timer' \in BOOLEAN

\* The count is not followed beyond DNS_WAIT_TIME.
DNS_time_handler ==
    dns_1s_tick' = IF dns_1s_tick < DNS_WAIT_TIME THEN dns_1s_tick + 1 ELSE dns_1s_tick

\* The program's repeating_timer_callback() counts a second.
Second ==
    /\ wizchip_1ms_timer_callback
    /\ DNS_time_handler
    /\ UNCHANGED <<dns_pc, main, g_dns_target_ip, lookup, dns_rx, dns_said>>

\* The server answers a query it has seen, now or much later.  Bound: one reply
\* is on its way at a time.
DnsReplies(port, reply) ==
    /\ port <= dns_port /\ (port = dns_port => sent > 0)
    /\ dns_said' = {[port |-> port, reply |-> reply]}
    /\ UNCHANGED <<dns_pc, main, g_dns_target_ip, lookup, dns_1s_tick, dns_rx, timer>>

DnsDeliver(m) ==
    /\ m \in dns_said /\ dns_rx = << >>
    /\ dns_pc = "wait" /\ m.port = dns_port
    /\ dns_rx' = <<m>>
    /\ UNCHANGED <<dns_pc, main, g_dns_target_ip, lookup, dns_1s_tick, dns_said, timer>>

----------------------------------------------------------------------------
(* parseDNSMSG.                                                            *)

\* dns_answer() leaves the data of these records unread: the next record is
\* looked for in the middle of it.
Unread == {"TXT", "OTHER"}

Astray(rrs)  == \E i \in DOMAIN rrs : rrs[i] \in Unread /\ i < Len(rrs)
TooLong(rrs) == \E i \in DOMAIN rrs : rrs[i] = "LONG"

\* Records parsed: all before the first whose name does not fit.
Parsed(rrs) ==
    IF TooLong(rrs)
      THEN 1 .. (CHOOSE i \in DOMAIN rrs :
                    rrs[i] = "LONG" /\ \A j \in 1 .. i - 1 : rrs[j] # "LONG") - 1
      ELSE DOMAIN rrs

\* Result and address of parseDNSMSG(): neither the id of the message nor the
\* question is compared with the query.
parseDNSMSG(m, ip) ==
    LET rrs  == m.reply.rrs
        code == IF m.reply.rcode = 0 THEN 1 ELSE 0
    IN  IF Astray(rrs)
          THEN {[ret |-> r, ip |-> a] : r \in {-1, code}, a \in {ip, m.port, Garbage}}
          ELSE {[ret |-> IF TooLong(rrs) THEN -1 ELSE code,
                 ip  |-> IF \E i \in Parsed(rrs) : rrs[i] = "A" THEN m.port ELSE ip]}

----------------------------------------------------------------------------
(* DNS_run.                                                                *)

\* What dns_makequery() answers: the length of a query, 0 for none.
QueryLen == 1

\* Mutant: the socket is opened on a port of its own choice.
DNS_run_FixedPort ==
    /\ dns_pc = "ask"
    /\ retry_count' = 0 /\ dns_1s_tick' = 0
    /\ len' = QueryLen /\ sent' = 1
    /\ dns_port' = 1
    /\ dns_pc' = "wait"
    /\ UNCHANGED <<main, g_dns_target_ip, dns_rx, dns_said, timer>>

\* The socket is opened on the next free port and the query sent.
DNS_run ==
    /\ dns_pc = "ask"
    /\ retry_count' = 0 /\ dns_1s_tick' = 0
    /\ len' = QueryLen /\ sent' = 1
    /\ dns_port' = dns_port + 1
    /\ dns_pc' = "wait"
    /\ UNCHANGED <<main, g_dns_target_ip, dns_rx, dns_said, timer>>

\* DNS_run has answered the main program, which counts its failures.
Returns(success) ==
    /\ dns_rx' = << >>
    /\ IF success
         THEN g_dns_get_ip_flag' = TRUE /\ dns_pc' = "main" /\ UNCHANGED dns_retry
         ELSE /\ dns_retry' = dns_retry + 1
              /\ dns_pc' = IF dns_retry' > DNS_RETRY_COUNT THEN "halt" ELSE "ask"
              /\ UNCHANGED g_dns_get_ip_flag
    /\ UNCHANGED <<retval, dhcp_retry>>

TakeReply ==
    /\ dns_pc = "wait" /\ dns_rx # << >>
    /\ \E p \in parseDNSMSG(Head(dns_rx), g_dns_target_ip) :
           /\ g_dns_target_ip' = p.ip
           /\ Returns(p.ret = 1)
    /\ len' = QueryLen
    /\ UNCHANGED <<retry_count, sent, dns_port, dns_1s_tick, dns_said, timer>>

\* Mutant: a retry is not counted.
NextRetry_Same == retry_count

NextRetry == (retry_count + 1) % 256

\* Mutant: one retry too many.
check_DNS_timeout_Gt ==
    IF dns_1s_tick < DNS_WAIT_TIME
      THEN "WAIT" ELSE IF retry_count > MAX_DNS_RETRY THEN "TIMEOUT" ELSE "RETRY"

check_DNS_timeout ==
    IF dns_1s_tick < DNS_WAIT_TIME
      THEN "WAIT" ELSE IF retry_count >= MAX_DNS_RETRY THEN "TIMEOUT" ELSE "RETRY"

\* Nothing received: len is now the 0 that getSn_RX_RSR() answered, and
\* sendto() refuses to send a query of that length.
PollAgain ==
    /\ dns_pc = "wait" /\ dns_rx = << >>
    /\ len' = 0
    /\ CASE check_DNS_timeout = "WAIT" ->
                UNCHANGED <<dns_pc, main, dns_rx, dns_1s_tick, retry_count, sent>>
         [] check_DNS_timeout = "RETRY" ->
                /\ dns_1s_tick' = 0 /\ retry_count' = NextRetry
                /\ sent' = IF len' = 0 THEN sent ELSE sent + 1
                /\ UNCHANGED <<dns_pc, main, dns_rx>>
         [] check_DNS_timeout = "TIMEOUT" ->
                /\ dns_1s_tick' = 0 /\ retry_count' = 0
                /\ Returns(FALSE)
                /\ UNCHANGED sent
    /\ UNCHANGED <<g_dns_target_ip, dns_port, dns_said, timer>>

----------------------------------------------------------------------------
(* main() of wizchip_dhcp_dns.c.                                           *)

WantsLookup(answer) == ~g_dns_get_ip_flag /\ answer = "LEASED"

\* Once round the loop; the failures of DHCP_run are counted, never forgotten.
MainLoop(answer) ==
    /\ dns_pc = "main"
    /\ IF NETINFO_DHCP THEN retval' = answer ELSE UNCHANGED retval
    /\ dhcp_retry' = IF NETINFO_DHCP /\ answer = "FAILED" THEN dhcp_retry + 1 ELSE dhcp_retry
    /\ dns_pc' = IF dhcp_retry' > DHCP_RETRY_COUNT THEN "halt"
                 ELSE IF WantsLookup(retval') THEN "ask" ELSE "main"
    /\ UNCHANGED <<dns_retry, g_dns_get_ip_flag, g_dns_target_ip, lookup,
                   dns_1s_tick, dns_rx, dns_said, timer>>

\* wizchip_dhcp_conflict() never returns to DHCP_run.
DhcpConflict ==
    /\ dns_pc = "main" /\ NETINFO_DHCP
    /\ dns_pc' = "halt"
    /\ UNCHANGED <<main, g_dns_target_ip, lookup, dns_1s_tick, dns_rx, dns_said, timer>>

DhcpAnswers == {"FAILED", "RUNNING", "CHANGED", "LEASED"}

Lookup == DNS_run \/ TakeReply \/ PollAgain

DnsNext ==
    \/ Lookup
    \/ \E answer \in DhcpAnswers : MainLoop(answer)
    \/ DhcpConflict
    \/ Second
    \/ \E port \in Ports, reply \in Replies : DnsReplies(port, reply)
    \/ \E m \in dns_said : DnsDeliver(m)

\* The program runs, and so do the seconds while the timer is scheduled.
DnsFair == WF_dnsVars(Lookup) /\ WF_dnsVars(Second)
DnsSpec == DnsInit /\ [][DnsNext]_dnsVars /\ DnsFair

----------------------------------------------------------------------------
(* Properties.                                                             *)

DnsTypeOK ==
    /\ dns_pc \in {"main", "ask", "wait", "halt"}
    /\ retval \in DhcpAnswers
    /\ dhcp_retry \in 0 .. DHCP_RETRY_COUNT + 1 /\ dns_retry \in 0 .. DNS_RETRY_COUNT + 1
    /\ g_dns_get_ip_flag \in BOOLEAN /\ timer \in BOOLEAN
    /\ g_dns_target_ip \in Ports \union {NoIp, Garbage}
    /\ retry_count \in 0 .. MAX_DNS_RETRY /\ dns_1s_tick \in 0 .. DNS_WAIT_TIME
    /\ len \in {0, QueryLen} /\ sent \in 0 .. MAX_DNS_RETRY + 1
    /\ dns_port \in Ports \union {0}
    /\ dns_said \subseteq [port : Ports, reply : Replies]
    /\ dns_rx \in {<< >>} \union {<<m>> : m \in [port : Ports, reply : Replies]}

\* dns.c compares no id: that a reply to an earlier query, given up long ago, is
\* never taken for the reply to this one rests on the port of the socket alone.
OnlyOwnReplies == dns_rx # << >> => Head(dns_rx).port = dns_retry + 1

\* A lookup ends, with an address or for good, whatever the server sends or
\* does not send, unless the timer is lost.
LookupEnds == dns_pc = "ask" ~> (g_dns_get_ip_flag \/ dns_pc = "halt" \/ ~timer)
=============================================================================
