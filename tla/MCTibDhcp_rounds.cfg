SPECIFICATION TibSpec
CONSTANTS
    Server = {s1, s2}
    NoServer = NoServer
    Addr = {a1, a2}
    NoAddr = NoAddr
    Pool <- Disjoint
    Leases = {1}
    Infinite <- Forever
    MAX_DHCP_RETRY = 1
    DHCP_WAIT_TIME = 0
    MaxTick = 1
    RxMax = 2
    Timer = FALSE
    Polls = 4
INVARIANT ActiveIsLeased
PROPERTY TibAsksAgain
PROPERTY ServiceSpec
CHECK_DEADLOCK FALSE
