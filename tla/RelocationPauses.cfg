CONSTANTS
    Size = 13
    GroupSize = 4
    Target = 9
    Fixed <- MCFixed
    Extent <- MCExtent
    Workers = 2
    KeepsPlan = TRUE
    Failures <- MCNone
    MaxPauses = 2
    Remounts = TRUE
SPECIFICATION LiveSpec
INVARIANT OwnersAllocated
PROPERTY Completes
CHECK_DEADLOCK FALSE
