\* One connection in full: every request, both directions, resets, shutdown.
SPECIFICATION FairSpec
CONSTANTS
    None = None
    c1 = c1   good = good   evil = evil   six = six
    Conns = {c1}
    HostNames = {good, evil, six}
    V6 = {six}
    Listed <- ListedEndpoints
    Requests <- AllRequests
    MaxBytes = 2
INVARIANTS TypeOK OnlyListedReached ListedNotForbidden Transparent
PROPERTIES EverythingArrives Answered ShutdownEnds
CHECK_DEADLOCK FALSE
