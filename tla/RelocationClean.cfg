CONSTANTS
    Size = 13
    GroupSize = 4
    Target = 9
    Fixed <- MCFixed
    Extent <- MCExtent
    Workers = 2
    KeepsPlan = FALSE
    Failures <- MCBoth
    MaxPauses = 0
    Remounts = FALSE
SPECIFICATION Spec
INVARIANT CleanIsExact
CHECK_DEADLOCK FALSE
