---------------------------- MODULE AutoConfig6 ----------------------------
(***************************************************************************)
(* The IPv6 configuration of a W6100 board: AddressAutoConfig_Init, with   *)
(* its duplicate address detection, its wait for a router and, when the    *)
(* router asks for it, the stateless half of the DHCPv6 client.            *)
(*                                                                         *)
(* An address is its two halves: a prefix, named by the router it belongs  *)
(* to, and an interface identifier.                                        *)
(*                                                                         *)
(* recvfrom of socket.c refuses the modes IPRAW6 and UDP6 of the sockets   *)
(* that this code opens: recvfrom6 = FALSE.  The rest of the code runs     *)
(* only over a socket layer that serves them: recvfrom6 = TRUE.            *)
(***************************************************************************)
EXTENDS Integers, Sequences

CONSTANTS
    Routers, Hosts,      \* neighbours, by their link-local addresses
    NoAddr,              \* the unspecified half of an address
    IcmpMax              \* bound: packets waiting in the socket

Ours     == "EUI-64"     \* the identifier that Generate_EUI64 makes of the MAC

ASSUME AutoConfigAssumption ==
    /\ NoAddr \notin Routers \union Hosts \union {Ours} /\ Routers \intersect Hosts = {}
    /\ IcmpMax \in Nat

MOFlags  == 0 .. 3       \* RA_flag >> 6
SLAAC_RDNSS == 0
SLAAC_DHCP6 == 1
SFAAC_DHCP6 == 3

\* What the ICMPv6 socket receives: router advertisements and other packets.  An
\* advertisement may carry a prefix of its router, and a name server.
RA(r, mo, prefix, dns) == [type |-> "RA", src |-> r, mo |-> mo, prefix |-> prefix, dns |-> dns]
Other(h) == [type |-> "other", src |-> h, mo |-> 0, prefix |-> NoAddr, dns |-> NoAddr]

VARIABLES
    recvfrom6,
    aac_pc,
    netinfo,     \* the caller's wiz_NetInfo
    chip6,       \* the chip's registers of the same names
    SLCR, SLIR,  \* command and interrupts of the chip's own ICMPv6 requests
    answered,    \* a neighbour answered that the tentative address is its own
    icmp_rx,     \* packets in the socket
    dhcp6_state, dhcp6_rx,   \* of the DHCPv6 client, and what its socket holds
    asked6,      \* its INFORMATION-REQUEST was sent
    DNS6_Address,
    result_aac

aacVars == <<recvfrom6, aac_pc, netinfo, chip6, SLCR, SLIR, answered, icmp_rx, dhcp6_state, dhcp6_rx,
             asked6, DNS6_Address, result_aac>>

Unset == [lla |-> NoAddr, prefix |-> NoAddr, iid |-> NoAddr, gw6 |-> NoAddr]

AacInit ==
    /\ recvfrom6 \in BOOLEAN
    /\ aac_pc = "begin" /\ netinfo = Unset /\ chip6 = Unset
    /\ SLCR = "" /\ SLIR = {} /\ answered = FALSE
    /\ icmp_rx = << >> /\ dhcp6_state = "STOP" /\ dhcp6_rx = << >> /\ asked6 = FALSE
    /\ DNS6_Address = NoAddr /\ result_aac = 0

----------------------------------------------------------------------------
(* Duplicate_Address_Detection.                                            *)

DadAsks ==
    /\ aac_pc = "begin" /\ SLCR = ""
    /\ SLCR' = "NS" /\ aac_pc' = "dad"
    /\ UNCHANGED <<netinfo, chip6, SLIR, answered, icmp_rx, dhcp6_state, dhcp6_rx,
                   asked6, DNS6_Address, result_aac>>

\* A timeout means that nobody has the address.
LinkLocal == IF "TOUT" \in SLIR THEN Ours ELSE netinfo.lla

\* What it returns is not looked at: either way the configuration goes on.
Duplicate_Address_Detection ==
    /\ aac_pc = "dad" /\ SLIR \intersect {"TOUT", "NS"} # {}
    /\ netinfo' = [netinfo EXCEPT !.lla = LinkLocal]
    /\ chip6' = netinfo'
    /\ SLIR' = {} /\ aac_pc' = "ask router"
    /\ UNCHANGED <<SLCR, answered, icmp_rx, dhcp6_state, dhcp6_rx, asked6, DNS6_Address, result_aac>>

\* The chip repeats its request until it is answered or given up.
ChipAnswers ==
    /\ SLCR # "" /\ SLCR' = ""
    /\ \E irq \in {SLCR, "TOUT"} :
           /\ SLIR' = SLIR \union {irq}
           /\ answered' = (answered \/ irq = "NS")
    /\ UNCHANGED <<aac_pc, netinfo, chip6, icmp_rx, dhcp6_state, dhcp6_rx, asked6, DNS6_Address,
                   result_aac>>

----------------------------------------------------------------------------
(* Address_Auto_Config_RA.                                                 *)

\* The solicitation is sent once; neither its end nor its timeout is read.
SolicitsRouter ==
    /\ aac_pc = "ask router" /\ SLCR = ""
    /\ SLCR' = "RS" /\ aac_pc' = "wait RA" /\ icmp_rx' = << >>
    /\ UNCHANGED <<netinfo, chip6, SLIR, answered, dhcp6_state, dhcp6_rx, asked6, DNS6_Address,
                   result_aac>>

Arrives(p) ==
    /\ aac_pc = "wait RA" /\ Len(icmp_rx) < IcmpMax
    /\ icmp_rx' = Append(icmp_rx, p)
    /\ UNCHANGED <<aac_pc, netinfo, chip6, SLCR, SLIR, answered, dhcp6_state, dhcp6_rx,
                   asked6, DNS6_Address, result_aac>>

\* Mutant: the gateway is the first neighbour heard.
Gateway_First(p) == IF netinfo.gw6 = NoAddr THEN p.src ELSE netinfo.gw6

\* Whoever sent the packet, router or not.
Gateway(p) == p.src

\* The options: a prefix completes the chip's link-local address to a global one.
RaOptions(p) ==
    /\ netinfo' = [netinfo EXCEPT !.gw6 = Gateway(p),
                                  !.prefix = IF p.prefix = NoAddr THEN @ ELSE p.prefix,
                                  !.iid = IF p.prefix = NoAddr THEN @ ELSE chip6.lla]
    /\ DNS6_Address' = IF p.dns = NoAddr THEN DNS6_Address ELSE p.dns

\* The loop ends with the first advertisement, whatever came before it.
Address_Auto_Config_RA ==
    /\ recvfrom6 /\ aac_pc = "wait RA" /\ icmp_rx # << >>
    /\ LET p == Head(icmp_rx) IN
       \/ /\ p.type = "other"
          /\ netinfo' = [netinfo EXCEPT !.gw6 = Gateway(p)]
          /\ icmp_rx' = Tail(icmp_rx)
          /\ UNCHANGED <<aac_pc, chip6, dhcp6_state, DNS6_Address, result_aac>>
       \/ /\ p.type = "RA"
          /\ RaOptions(p) /\ chip6' = netinfo' /\ icmp_rx' = << >>
          /\ aac_pc' = CASE p.mo = SLAAC_DHCP6 -> "stateless" [] p.mo = SFAAC_DHCP6 -> "stateful"
                         [] OTHER -> "close"
          /\ result_aac' = IF p.mo = SLAAC_RDNSS THEN 1 ELSE 0
          /\ dhcp6_state' = IF p.mo = SLAAC_DHCP6 THEN "INIT" ELSE dhcp6_state
    /\ UNCHANGED <<SLCR, SLIR, answered, dhcp6_rx, asked6>>

\* SOCKERR_SOCKMODE, and the error is not looked at: nothing is taken, the gateway
\* is whatever lies in the uninitialised address, and the wait goes on.
RefusedRead ==
    /\ ~recvfrom6 /\ aac_pc = "wait RA" /\ icmp_rx # << >>
    /\ \E destip \in Routers \union Hosts \union {NoAddr} :
           netinfo' = [netinfo EXCEPT !.gw6 = destip]
    /\ UNCHANGED <<aac_pc, chip6, SLCR, SLIR, answered, icmp_rx, dhcp6_state, dhcp6_rx, asked6,
                   DNS6_Address, result_aac>>

----------------------------------------------------------------------------
(* The stateless client.                                                   *)

\* To all DHCPv6 servers, asking for their name server.
send_DHCP_INFOREQ == asked6' = TRUE

\* Of the options of a message only the name server is kept.
NameServer(msg) == IF msg = NoAddr THEN DNS6_Address ELSE msg

\* An ADVERTISE or a REPLY, whoever it was meant for: the transaction is not compared.
parseDHCP6MSG ==
    /\ dhcp6_rx' = << >>
    /\ DNS6_Address' = IF dhcp6_rx = << >> THEN DNS6_Address ELSE NameServer(Head(dhcp6_rx))

\* The first call asks; the second succeeds, whether an answer has come or not.
DHCP6_run2 ==
    /\ parseDHCP6MSG
    /\ \/ dhcp6_state = "INIT" /\ send_DHCP_INFOREQ /\ dhcp6_state' = "RELEASE"
       \/ dhcp6_state = "RELEASE" /\ UNCHANGED <<dhcp6_state, asked6>>

\* Until the answer is DHCP6_IP_LEASED; no other that DHCP6_run2 gives ends it.
Address_Auto_Config_SLDHCP ==
    /\ aac_pc = "stateless" /\ DHCP6_run2
    /\ IF dhcp6_state = "RELEASE" THEN result_aac' = 1 /\ aac_pc' = "close"
                                  ELSE UNCHANGED <<aac_pc, result_aac>>
    /\ UNCHANGED <<netinfo, chip6, SLCR, SLIR, answered, icmp_rx>>

\* A DHCPv6 server answers INFORMATION-REQUEST, with a name server or without.
ServerAnswers(dns) ==
    /\ aac_pc = "stateless" /\ asked6 /\ dhcp6_rx = << >>
    /\ dhcp6_rx' = <<dns>>
    /\ UNCHANGED <<aac_pc, netinfo, chip6, SLCR, SLIR, answered, icmp_rx, dhcp6_state,
                   asked6, DNS6_Address, result_aac>>

CloseAac ==
    /\ aac_pc = "close" /\ aac_pc' = "done" /\ dhcp6_rx' = << >>
    /\ UNCHANGED <<netinfo, chip6, SLCR, SLIR, answered, icmp_rx, dhcp6_state, asked6,
                   DNS6_Address, result_aac>>

AacSteps ==
    \/ DadAsks \/ Duplicate_Address_Detection \/ SolicitsRouter \/ Address_Auto_Config_RA
    \/ RefusedRead \/ Address_Auto_Config_SLDHCP \/ CloseAac

Neighbours ==
    \/ \E h \in Hosts : Arrives(Other(h))
    \/ \E r \in Routers, mo \in MOFlags :
           \E prefix, dns \in {NoAddr, r} : Arrives(RA(r, mo, prefix, dns))
    \/ \E dns \in Routers \union {NoAddr} : ServerAnswers(dns)

AacNext == UNCHANGED recvfrom6 /\ (AacSteps \/ ChipAnswers \/ Neighbours)

AacSpec == AacInit /\ [][AacNext]_aacVars

----------------------------------------------------------------------------

AacTypeOK ==
    /\ recvfrom6 \in BOOLEAN
    /\ aac_pc \in {"begin", "dad", "ask router", "wait RA", "stateless", "stateful", "close", "done"}
    /\ {netinfo, chip6} \subseteq [lla : {NoAddr, Ours}, prefix : Routers \union {NoAddr},
                                   iid : {NoAddr, Ours}, gw6 : Routers \union Hosts \union {NoAddr}]
    /\ SLCR \in {"", "NS", "RS"} /\ SLIR \subseteq {"NS", "RS", "TOUT"}
    /\ Len(icmp_rx) <= IcmpMax /\ Len(dhcp6_rx) <= 1
    /\ dhcp6_state \in {"STOP", "INIT", "RELEASE"} /\ asked6 \in BOOLEAN /\ result_aac \in {0, 1}

\* The chip never uses an identifier that a neighbour said is its own, neither on
\* the link nor in the global address; and the gateway is the router that
\* advertised the prefix, whatever other packets came while it waited for it.
AddressesAreOurs ==
    /\ Ours \in {chip6.lla, chip6.iid} => ~answered
    /\ chip6.prefix # NoAddr => chip6.gw6 = chip6.prefix
=============================================================================
