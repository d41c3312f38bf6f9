SPECIFICATION Spec
CONSTANTS
    Switches <- SomeSwitches
    Routes <- SomeRoutes
    Lasers = {0, 1, 2}
    Channels = {0}
    RawMax = 1
    Volts = {2000, 5000}
    MaxLate = 2
    NoArg = NoArg
    KnowsSet = TRUE
    MaxPoor = 1
    PubLen = 2
    Channel <- DiodeChannel
    ByteMax = 3
    BufMax = 14
    ReqIdLen = 1
    Json <- SomeJson
    Messages <- SomeMessages
    MaxSent = 2
    KeysSent <- SomeKeys
    LocalCap = 2
    CommandLen = 2
    MaxParsed = 3
    Junk = Junk
INVARIANT ActsOnWhatWasAccepted
CHECK_DEADLOCK FALSE
