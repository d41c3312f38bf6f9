SPECIFICATION Spec
CONSTANTS
    NWhisper = 1
    Conn = {k1}
    NoConn = NoConn
    MaxCmds = 3
    QLen = 2
    RxMax = 3
    TxMax = 2
INVARIANT TypeOK
INVARIANT Fifo
INVARIANT AckFirst
INVARIANT RepliesInOrder
PROPERTY ServiceSpec
CHECK_DEADLOCK FALSE
