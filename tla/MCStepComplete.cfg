SPECIFICATION LiveSpec
CONSTANTS
    nodes = 3
    REVERSE_TREE_WIDTH = 2
    nnodes <- nodes
    parent_rank <- parents
    children <- descendants
    task <- tasks
    REVERSE_TREE_PARENT_RETRY = 1
    MaxFailures = 1
    MaxNodes = 40
    Widths = {2, 3, 4, 5, 7}
INVARIANTS
    NoFalseCompletion
    NothingLost
    
    TreesExact
PROPERTY
    StepEnds
CHECK_DEADLOCK FALSE
