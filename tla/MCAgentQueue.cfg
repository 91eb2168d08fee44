SPECIFICATION LiveSpec
CONSTANTS
    signal = signal
    launch = launch
    stop = stop
    Requests = {signal, launch, stop}
    kind <- MCkind
    node_count <- MCnode_count
    MAX_SERVER_THREADS = 5
    AGENT_THREAD_COUNT = 2
    MaxMail = 2
    MaxTries = 2
INVARIANTS
    BudgetExact
    OneOwner
PROPERTIES
    QueueDrains
    EndedLaunchLeaves
CHECK_DEADLOCK FALSE
