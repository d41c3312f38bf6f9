SPECIFICATION Spec
CONSTANTS
    Server = {s1}
    NoServer = NoServer
    Addr = {a1, a2}
    NoAddr = NoAddr
    Pool <- Shared
    Leases = {1}
    Infinite <- Forever
    MAX_DHCP_RETRY = 1
    DHCP_WAIT_TIME = 0
    MaxTick = 1
    RxMax = 1
    Timer = TRUE
PROPERTY AckedIsUsed
CHECK_DEADLOCK FALSE
