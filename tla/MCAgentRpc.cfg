SPECIFICATION LiveSpec
CONSTANTS
    n1 = n1
    n2 = n2
    n3 = n3
    n4 = n4
    Nodes <- MCNodes
    AGENT_THREAD_COUNT = 2
    MaxGroups = 4
    Requests <- MCRequests
INVARIANTS
    NotifiesAll
    Reported
    RetryExact
PROPERTY
    Terminates
