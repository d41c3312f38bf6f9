SPECIFICATION FairSpec
CONSTANTS
    NWhisper = 1
    Addr = {a1}
    NoAddr = NoAddr
    Polls = 4
    MaxCmds = 0
PROPERTY WhisperListensAgain
CHECK_DEADLOCK FALSE
