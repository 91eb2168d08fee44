SPECIFICATION LiveSpec
CONSTANTS
    Hosts = {a, b, c, d}
    NoThread = NoThread
INVARIANTS
    ListersLive
PROPERTIES
    ForwardKeepsPromise
    WaitReturns
CHECK_DEADLOCK FALSE
