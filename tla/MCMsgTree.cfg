SPECIFICATION TreeLiveSpec
CONSTANTS
    Hosts = {a, b, c, d}
    NoThread = NoThread
INVARIANTS
    HeadLast
PROPERTIES
    TreeKeepsPromise
    TreeReturns
CHECK_DEADLOCK FALSE
