CONSTANTS
    Threads = {t1, t2, t3}
    Entity <- MCEntity
    Requests <- MCRequests
SPECIFICATION Spec
INVARIANTS
    Exclusion
    NoCircularWait
PROPERTIES
    
    CallsReturn
CHECK_DEADLOCK FALSE
