---------------------------- MODULE MCNetClients ----------------------------
(***************************************************************************)
(* The WIZnet library, one user of it at a time: the programs of DnsClient *)
(* and SntpClient, the servers of EchoServers, the IPv6 configuration, and *)
(* the memory of a socket under them all.                                  *)
(***************************************************************************)
EXTENDS DnsClient, SntpClient, EchoServers, AutoConfig6, SocketMemory

Reply(rcode, rrs) == [rcode |-> rcode, rrs |-> rrs]

\* An answer, one behind an alias, one behind text, an alias alone, a name that
\* does not fit, and an error.
SomeReplies == {Reply(0, <<"A">>), Reply(0, <<"CNAME", "A">>), Reply(0, <<"TXT", "A">>),
                Reply(0, <<"CNAME">>), Reply(0, <<"A", "LONG">>), Reply(3, << >>)}

\* Around the ends of January, February and December: of 1900, which is no leap
\* year, of 1904 and of 2000, which are.
SomeStamps == {30, 31, 58, 59, 364, 365, 1460, 1519, 1520, 1825, 36583, 36584, 36889, 36890, 46021}
                  \X {0, 95}

VARIABLE program

vars == <<program, dnsVars, sntpVars, echoVars, aacVars, memVars>>

\* What does not run stays as it is at the start.
Init ==
    /\ program \in {"dhcp_dns", "sntp", "echo", "autoconf", "memory"}
    /\ DnsInit /\ SntpInit /\ EchoInit /\ AacInit /\ MemInit
    /\ program # "echo" => w6x00 = FALSE /\ role = "tcps"
    /\ program # "sntp" => time_zone = 40
    /\ program # "memory" => receives
    /\ program # "autoconf" => recvfrom6

Next ==
    /\ UNCHANGED program
    /\ \/ /\ program = "dhcp_dns" /\ DnsNext
          /\ UNCHANGED <<sntpVars, echoVars, aacVars, memVars>>
       \/ program = "sntp" /\ SntpNext /\ UNCHANGED <<dnsVars, echoVars, aacVars, memVars>>
       \/ program = "echo" /\ EchoNext /\ UNCHANGED <<dnsVars, sntpVars, aacVars, memVars>>
       \/ program = "autoconf" /\ AacNext /\ UNCHANGED <<dnsVars, sntpVars, echoVars, memVars>>
       \/ program = "memory" /\ MemNext /\ UNCHANGED <<dnsVars, sntpVars, echoVars, aacVars>>

\* The fairness of DnsSpec and of EchoSpec, for the program that runs.
Fair ==
    /\ WF_dnsVars(program = "dhcp_dns" /\ Lookup) /\ WF_dnsVars(program = "dhcp_dns" /\ Second)
    /\ WF_echoVars(program = "echo" /\ Program)
    /\ WF_echoVars(program = "echo" /\ Calls /\ Idle)
    /\ \A sn \in Socks :
           /\ WF_sockVars(program = "echo" /\ Acknowledged(sn))
           /\ WF_sockVars(program = "echo" /\ Transmitted(sn))
           /\ WF_sockVars(program = "echo" /\ HandshakeEnds(sn))

Spec == Init /\ [][Next]_vars /\ Fair

\* The values that the five parts' variables take.
NetTypeOK == DnsTypeOK /\ SntpTypeOK /\ EchoTypeOK /\ AacTypeOK /\ MemTypeOK
=============================================================================
