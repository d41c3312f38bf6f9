---------------------------- MODULE DhcpService ----------------------------
(***************************************************************************)
(* dhcp.c as pico_zyre.cpp sees it: DHCP_init, DHCP_run, DHCP_stop and the *)
(* address they give the chip.  The exchange with the server (DISCOVER,    *)
(* OFFER, REQUEST, ACK) is one step here.                                  *)
(***************************************************************************)
EXTENDS Integers

CONSTANTS
    Addr,     \* addresses a server may lease
    NoAddr    \* 0.0.0.0

ASSUME DhcpServiceAssumption == NoAddr \notin Addr

VARIABLES
    dhcp_state,   \* "BUSY" from STATE_DHCP_INIT up to the ACK
    offered,      \* the address of an ACK waiting in the DHCP socket
    SIPR          \* the chip's source address

dhcp == <<dhcp_state, offered, SIPR>>

DhcpTypeOK ==
    /\ dhcp_state \in {"BUSY", "LEASED", "STOP"}
    /\ offered \in Addr \union {NoAddr}
    /\ SIPR \in Addr \union {NoAddr}

\* Power-up: no address until the first lease.
DhcpPowerUp == dhcp_state = "BUSY" /\ offered = NoAddr /\ SIPR = NoAddr

\* The server completes the exchange: the ACK of address a is the next message
\* in the socket.
ServerAcks(a) ==
    /\ dhcp_state = "BUSY" /\ offered = NoAddr
    /\ offered' = a
    /\ UNCHANGED <<dhcp_state, SIPR>>

\* Mutant: the state machine is not started anew.
DHCP_init_Stopped ==
    /\ SIPR' = NoAddr /\ offered' = NoAddr
    /\ UNCHANGED dhcp_state

\* DHCP_init(): the chip's address is cleared, and an ACK still in the socket
\* is not what the client now waits for.
DHCP_init ==
    /\ dhcp_state' = "BUSY"
    /\ SIPR' = NoAddr
    /\ offered' = NoAddr

\* DHCP_stop(): the socket is closed, what it held is lost.
DHCP_stop == dhcp_state' = "STOP" /\ offered' = NoAddr

\* DHCP_run() finds the ACK: the address is assigned.  It answers
\* DHCP_RUNNING: only the next call answers DHCP_IP_LEASED.
Assign ==
    /\ dhcp_state = "BUSY" /\ offered # NoAddr
    /\ SIPR' = offered
    /\ offered' = NoAddr
    /\ dhcp_state' = "LEASED"

\* DHCP_run() with nothing to act upon.
Wait == dhcp_state = "BUSY" /\ offered = NoAddr /\ UNCHANGED dhcp

\* DHCP_run() finds the ACK and another host answers to the address:
\* check_DHCP_leasedIP() waits for ticks of DHCP_time_handler, which nothing
\* calls in this program.
Conflict == dhcp_state = "BUSY" /\ offered # NoAddr /\ UNCHANGED dhcp

DhcpNext ==
    \/ \E a \in Addr : ServerAcks(a)
    \/ DHCP_init
    \/ DHCP_stop /\ UNCHANGED SIPR
    \/ Assign

DhcpSpec == DhcpPowerUp /\ [][DhcpNext]_dhcp
============================================================================
