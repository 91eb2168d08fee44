SPECIFICATION LiveSpec
CONSTANTS
    Callers = {c1}
    max_agent_queue = 2
    handle_agent_count = 1
    MaxMsgs = 3
    Kinds <- MCKinds
    MaxCalls = 1
    MaxOpens = 2
INVARIANTS
    
    AckedOnce
PROPERTIES
    Delivered
    CloseReturns
CHECK_DEADLOCK FALSE
