SPECIFICATION Spec
CONSTANTS
    NWhisper = 1
    Conn = {k1, k2}
    NoConn = NoConn
    MaxCmds = 2
    QLen = 1
    RxMax = 4
    TxMax = 2
PROPERTY CommandFromActivePeer
CHECK_DEADLOCK FALSE
