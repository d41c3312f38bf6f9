---------------------------- MODULE EchoServers ----------------------------
(***************************************************************************)
(* The servers and clients of loopback.c and multicast.c, and the examples *)
(* that call them for ever.  Each call looks at the status of one socket   *)
(* and does what that status asks for, in the functions of WizSocket.      *)
(*                                                                         *)
(* The TCP functions exist twice: for the W5500, with blocking sockets,    *)
(* and for the W6x00, with sockets in non-blocking mode.                   *)
(***************************************************************************)
EXTENDS WizSocket

CONSTANTS
    DATA_BUF_SIZE,   \* of a caller's buffer
    Roles,           \* the programs considered
    PORT, FirstAnyPort     \* the server's port, and 50000

RoleNames == {"tcps", "multi", "tcpc", "udps", "udpc", "multicast_loopback", "multicast_recv"}

ASSUME EchoAssumption ==
    /\ DATA_BUF_SIZE \in Nat \ {0} /\ Roles \subseteq RoleNames
    /\ PORT \in 1 .. PortMax /\ FirstAnyPort \in 1 .. PortMax

VARIABLES
    role,        \* which function the program calls
    at,          \* where that function, or the program, is
    cur,         \* the socket it is called for
    any_port

echoVars == <<sockVars, role, at, cur, any_port>>

Udp == role \in {"udps", "udpc", "multicast_loopback", "multicast_recv"}

EchoInit ==
    /\ SockInit /\ role \in Roles
    /\ Udp => ~w6x00
    /\ role = "multi" => ~w6x00
    /\ at = "poll" /\ cur = 0 /\ any_port = FirstAnyPort

----------------------------------------------------------------------------

Begin(c, place) == call' = c /\ at' = place

\* The function returns 1, or an error; its locals are gone.  udp_server and
\* udp_client stop at an error; tcp_server_multi_socket stays with the socket.  It
\* also polls one socket number past the last, whose status is a byte of a port.
NextSocket == IF role # "multi" THEN cur ELSE IF cur \in Socks THEN cur + 1 ELSE 0
Finishes(place) == at' = place /\ ret' = SOCK_OK /\ buf' = << >>
Done     == Finishes("poll") /\ cur' = NextSocket
Error(r) == /\ Finishes(IF r < 0 /\ role \in {"udps", "udpc"} THEN "halt" ELSE "poll")
            /\ UNCHANGED cur

Smaller(a, b) == IF a < b THEN a ELSE b

\* Data to read: all of it, up to the size of the buffer.
Read(fn, place) ==
    /\ getSn_RX_RSR(cur) > 0
    /\ Begin(Call(fn, cur, Smaller(getSn_RX_RSR(cur), DATA_BUF_SIZE)), place)

Polls(sr) == at = "poll" /\ call = None /\ cur \in Socks /\ Sn_SR[cur] = sr

ClearCon == Sn_IR' = [Sn_IR EXCEPT ![cur] = @ \ {"CON"}]

Established ==
    /\ Polls("ESTABLISHED") /\ ~Udp
    /\ ClearCon
    /\ \/ Read("recv", "received") /\ UNCHANGED <<cur, ret, buf>>
       \/ getSn_RX_RSR(cur) = 0 /\ Done /\ UNCHANGED call
    /\ UNCHANGED <<w6x00, Sn_SR, Sn_PORT, Sn_DIPR, rx, tx, sending, lib, destip,
                   peers, role, any_port>>

\* The W5500 version closes at once: what came with the FIN is not read.
CloseWait ==
    /\ Polls("CLOSE_WAIT") /\ ~w6x00
    /\ Begin(Call("disconnect", cur, 0), "last")
    /\ UNCHANGED <<w6x00, chip, lib, ret, caller, peers, role, cur, any_port>>

\* The W6x00 version reads and echoes it first.
CloseWait_W6x00 ==
    /\ Polls("CLOSE_WAIT") /\ w6x00
    /\ \/ Read("recv", "received in CLOSE_WAIT")
       \/ getSn_RX_RSR(cur) = 0 /\ Begin(Call("disconnect", cur, 0), "last")
    /\ UNCHANGED <<w6x00, chip, lib, ret, caller, peers, role, cur, any_port>>

\* Servers listen; clients connect.
Initialised ==
    /\ Polls("INIT")
    /\ Begin(Call(IF role = "tcpc" THEN "connect" ELSE "listen", cur, 0), "last")
    /\ UNCHANGED <<w6x00, chip, lib, ret, caller, peers, role, cur, any_port>>

\* The next port of a client: a 16-bit count.  The W5500 version starts again
\* at 50000 only if socket() fails on the last port, which it does not.
NextPort == (any_port + 1) % (PortMax + 1)

NewPort == CASE role = "tcpc" -> any_port [] role = "udpc" -> FirstAnyPort [] OTHER -> PORT

Reopen ==
    /\ Polls("CLOSED")
    /\ Begin([Call("socket", cur, NewPort) EXCEPT !.st = IF Udp THEN "UDP" ELSE "TCP"], "last")
    /\ any_port' = IF role = "tcpc" THEN NextPort ELSE any_port
    /\ UNCHANGED <<w6x00, chip, lib, ret, caller, peers, role, cur>>

Waits ==
    /\ at = "poll" /\ call = None
    /\ \/ cur \notin Socks
       \/ cur \in Socks /\ Sn_SR[cur] \in {"LISTEN", "SYNSENT", "LAST_ACK"}
       \/ Polls("UDP") /\ getSn_RX_RSR(cur) = 0
    /\ Done
    /\ UNCHANGED <<w6x00, chip, lib, call, destip, peers, role, any_port>>

\* The sender's address is read into a local variable that holds garbage before.
UdpRead ==
    /\ Polls("UDP") /\ Read("recvfrom", "received")
    /\ destip' = Garbage0
    /\ UNCHANGED <<w6x00, chip, lib, ret, buf, peers, role, cur, any_port>>

----------------------------------------------------------------------------
(* Reading and echoing, once the status has been looked at.                *)

Sending == IF Udp THEN "sendto" ELSE "send"
EchoAt  == IF at = "received in CLOSE_WAIT" THEN "echo in CLOSE_WAIT" ELSE "echo"

Received ==
    /\ at \in {"received", "received in CLOSE_WAIT"} /\ call = None
    /\ IF ret <= 0 THEN Error(ret) /\ UNCHANGED call
       ELSE IF role = "multicast_recv" THEN Done /\ UNCHANGED call
       ELSE Begin(Call(Sending, cur, 0), EchoAt) /\ UNCHANGED <<cur, ret, buf>>
    /\ UNCHANGED <<w6x00, chip, lib, destip, peers, role, any_port>>

\* Mutant: a busy send counts as done.
Unsent_Busy == IF Udp THEN << >> ELSE SubSeq(buf, (IF ret = 0 THEN 1 ELSE ret) + 1, Len(buf))

\* What is left of the data after ret bytes: buf + sentsize.
Unsent == IF Udp THEN << >> ELSE SubSeq(buf, ret + 1, Len(buf))

\* The loop ends when everything is sent; SOCK_BUSY is zero bytes.
Echo ==
    /\ at \in {"echo", "echo in CLOSE_WAIT"} /\ call = None
    /\ \/ ret < 0 /\ Udp /\ Error(ret) /\ UNCHANGED call
       \/ ret < 0 /\ ~Udp /\ Begin(Call("close", cur, 0), "failed") /\ UNCHANGED <<cur, ret, buf>>
       \/ /\ ret >= 0 /\ Unsent # << >>
          /\ buf' = Unsent /\ call' = Call(Sending, cur, 0) /\ UNCHANGED <<at, cur, ret>>
       \/ ret >= 0 /\ Unsent = << >> /\ at = "echo" /\ Done /\ UNCHANGED call
       \/ /\ ret >= 0 /\ Unsent = << >> /\ at = "echo in CLOSE_WAIT"
          /\ Begin(Call("disconnect", cur, 0), "last") /\ UNCHANGED <<cur, ret, buf>>
    /\ UNCHANGED <<w6x00, chip, lib, destip, peers, role, any_port>>

\* The last call decides: anything but SOCK_OK is returned to the program.
Returned ==
    /\ at \in {"last", "failed"} /\ call = None
    /\ IF at = "last" /\ ret = SOCK_OK THEN Done ELSE Error(SOCK_BUSY)
    /\ UNCHANGED <<w6x00, chip, lib, call, destip, peers, role, any_port>>

\* A call answers the status of its socket.
Tcp_W5500 == Established \/ CloseWait \/ Initialised \/ Reopen \/ Waits \/ Received \/ Echo \/ Returned
Tcp_W6x00 == Established \/ CloseWait_W6x00 \/ Initialised \/ Reopen \/ Waits \/ Received \/ Echo \/ Returned
UdpCall   == UdpRead \/ Reopen \/ Waits \/ Received \/ Returned

loopback_tcps       == role = "tcps" /\ ~w6x00 /\ Tcp_W5500
loopback_tcpc       == role = "tcpc" /\ ~w6x00 /\ Tcp_W5500
loopback_tcps_W6x00 == role = "tcps" /\ w6x00 /\ Tcp_W6x00
loopback_tcpc_W6x00 == role = "tcpc" /\ w6x00 /\ Tcp_W6x00
loopback_udps       == role = "udps" /\ (UdpCall \/ Echo)
loopback_udpc       == role = "udpc" /\ (UdpCall \/ Echo)
multicast_loopback  == role = "multicast_loopback" /\ (UdpCall \/ Echo)
multicast_recv      == role = "multicast_recv" /\ UdpCall
tcp_server_multi_socket == role = "multi" /\ Tcp_W5500

Program ==
    \/ loopback_tcps \/ loopback_tcpc \/ loopback_tcps_W6x00 \/ loopback_tcpc_W6x00
    \/ loopback_udps \/ loopback_udpc \/ multicast_loopback \/ multicast_recv
    \/ tcp_server_multi_socket

Idle == UNCHANGED <<role, at, cur, any_port>>

EchoNext == Program \/ (Calls /\ Idle) \/ (Network /\ Idle)

\* The program is a loop that never sleeps.
EchoFair == WF_echoVars(Program) /\ WF_echoVars(Calls /\ Idle) /\ ChipFair
EchoSpec == EchoInit /\ [][EchoNext]_echoVars /\ EchoFair

----------------------------------------------------------------------------

Bytes == [who : {0, 1} \union Clients, n : 0 .. MaxSay + MTU]
Statuses == {"CLOSED", "INIT", "LISTEN", "SYNSENT", "ESTABLISHED", "CLOSE_WAIT", "LAST_ACK", "UDP"}

EchoTypeOK ==
    /\ role \in Roles /\ cur \in Socks \union {c + 1 : c \in Socks}
    /\ at \in {"poll", "received", "received in CLOSE_WAIT", "echo", "echo in CLOSE_WAIT",
               "last", "failed", "halt"}
    /\ Sn_SR \in [Socks -> Statuses]
    /\ Sn_IR \in [Socks -> SUBSET {"CON", "DISCON", "TIMEOUT", "SENDOK"}]
    /\ sock_any_port \in SOCK_ANY_PORT_NUM .. SOCK_ANY_PORT_END - 1
    /\ \A s \in Socks : Len(tx[s]) <= TxMAX /\ getSn_RX_RSR(s) <= RxMAX
    /\ Len(buf) <= DATA_BUF_SIZE /\ sock_remained_size \in [Socks -> 0 .. MTU]
    /\ any_port \in 0 .. PortMax /\ Sn_PORT \in [Socks -> 0 .. PortMax]

\* What a TCP peer hears is what it said, from its first byte, on the same
\* connection, in order and once; what a UDP client receives is its own data:
\* whatever connections ended, failed or were cut off on the way.  Of the W6x00
\* version only the connection is claimed: it repeats data when send() is busy.
EchoIsOwn ==
    /\ \A s \in Socks : \A i \in DOMAIN heard[s] :
           heard[s][i].who = conn[s] /\ (~w6x00 => heard[s][i].n = i)
    /\ \A e \in echoed : e[1] = e[2]

\* A server whose client has closed listens again, whatever call it was in.
ListensAgain ==
    \A s \in Socks :
        Sn_SR[s] = "CLOSE_WAIT" /\ role \in {"tcps", "multi"} ~> Sn_SR[s] = "LISTEN"
============================================================================
