SPECIFICATION FairSpec
CONSTANTS
    NWhisper = 1
    Addr = {a1}
    NoAddr = NoAddr
    Polls = 4
    MaxCmds = 1
INVARIANT TypeOK
INVARIANT ActiveHasAddress
PROPERTY LeaseKept
PROPERTY LeasesAgain
PROPERTY AddressAnnounced
PROPERTY PubListensAgain
CHECK_DEADLOCK FALSE
