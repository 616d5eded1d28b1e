CONSTANTS
    Size = 13
    GroupSize = 4
    Target = 9
    Fixed <- MCFixed
    Extent <- MCExtent
    Workers = 2
    KeepsPlan = FALSE
    Failures <- MCNone
    MaxPauses = 0
    Remounts = TRUE
SPECIFICATION Spec
INVARIANT FilesIntact
CHECK_DEADLOCK FALSE
