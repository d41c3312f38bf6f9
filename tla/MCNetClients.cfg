SPECIFICATION Spec
CONSTANTS
    MAX_DNS_RETRY = 2
    DNS_WAIT_TIME = 2
    DHCP_RETRY_COUNT = 1
    DNS_RETRY_COUNT = 1
    NETINFO_DHCP = TRUE
    Garbage = Garbage
    Replies <- SomeReplies
    RetryGap = 3
    RetryMax = 7
    TimeZones = {3, 22, 40, 49}
    Stamps <- SomeStamps
    Socks = {0, 1}
    RxMAX = 4
    TxMAX = 1
    MTU = 2
    MaxSay = 3
    MaxTalk = 2
    Clients = {1, 2}
    PortMax = 3
    SOCK_ANY_PORT_NUM = 2
    SOCK_ANY_PORT_END = 3
    DATA_BUF_SIZE = 4
    Roles = {"tcps", "multi", "tcpc", "udps", "udpc", "multicast_loopback", "multicast_recv"}
    PORT = 1
    FirstAnyPort = 2
    Routers = {r1, r2}
    Hosts = {h1}
    NoAddr = NoAddr
    IcmpMax = 2
    BYTE = 4
    SIZE = 4
INVARIANT NetTypeOK
INVARIANT OnlyOwnReplies
INVARIANT DateIsTheStamp
INVARIANT EchoIsOwn
INVARIANT AddressesAreOurs
PROPERTY LookupEnds
PROPERTY ListensAgain
PROPERTY PipeSpec
CHECK_DEADLOCK FALSE
