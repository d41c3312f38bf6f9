SPECIFICATION FairSpec
CONSTANTS
    NWhisper = 1
    Conn = {k1, k2}
    NoConn = NoConn
    MaxCmds = 1
    QLen = 1
    RxMax = 3
    TxMax = 2
INVARIANT StrangersOnlyAfterGone
PROPERTY AcceptedIsExecuted
PROPERTY OnlyPeersStall
CHECK_DEADLOCK FALSE
