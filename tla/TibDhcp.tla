------------------------------ MODULE TibDhcp ------------------------------
(***************************************************************************)
(* dhcp.c as tib-pico2 drives it: coms_task calls DHCP_run only inside     *)
(* start_dhcp(), up to DHCP_IP_LEASED and never after it, and nothing      *)
(* calls DHCP_time_handler: there is no Timer.                             *)
(***************************************************************************)
EXTENDS DhcpClient

CONSTANT Polls   \* calls of DHCP_run in start_dhcp (100 in the code)

ASSUME TibDhcpAssumption == Polls \in Nat \ {0} /\ ~Timer

VARIABLES
    dhcp_active,
    polls         \* i of start_dhcp, or Polls + 1 outside it

tib == <<dhcp_active, polls>>
tibVars == <<vars, tib>>

TibInit == Init /\ dhcp_active = FALSE /\ polls = Polls + 1

\* tick() without a lease calls start_dhcp().
StartDhcp ==
    /\ polls = Polls + 1 /\ ~dhcp_active
    /\ DHCP_init
    /\ polls' = 0 /\ UNCHANGED dhcp_active

\* Mutant: any answer but DHCP_STOPPED is taken for a lease.
PollAnyAnswer ==
    /\ polls < Polls
    /\ DHCP_run
    /\ dhcp_active' = (spin' = 0 /\ ret' # "STOPPED")
    /\ polls' = IF dhcp_active' THEN Polls + 1 ELSE polls + 1

Poll ==
    /\ polls < Polls
    /\ DHCP_run
    /\ dhcp_active' = (spin' = 0 /\ ret' = "LEASED")
    /\ polls' = IF dhcp_active' THEN Polls + 1 ELSE polls + 1

NoLease ==
    /\ polls = Polls
    /\ DHCP_stop
    /\ polls' = Polls + 1 /\ UNCHANGED dhcp_active

\* handle_link_down().
LinkDown ==
    /\ polls = Polls + 1
    /\ DHCP_stop
    /\ dhcp_active' = FALSE /\ UNCHANGED polls

ComsTask == StartDhcp \/ Poll \/ NoLease

TibNext ==
    \/ ComsTask \/ LinkDown
    \/ Environment /\ UNCHANGED tib

\* The scheduler runs coms_task.
TibSpec == TibInit /\ [][TibNext]_tibVars /\ WF_tibVars(ComsTask)

\* A device that believes its lease active has one, and the chip its address,
\* whatever the last round left in dhcp.c.
ActiveIsLeased ==
    dhcp_active => dhcp_state = "LEASED" /\ SIPR = DHCP_allocated_ip /\ SIPR # NoAddr

\* Without the timer nothing is sent twice in a round, but round after round
\* the device asks again, until it has a lease or waits in a conflict.
TibAsksAgain ==
    (~dhcp_active /\ asked = {}) ~> (dhcp_active \/ asked # {} \/ spin # 0)
============================================================================
