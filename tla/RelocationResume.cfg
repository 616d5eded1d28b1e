CONSTANTS
    Size = 13
    GroupSize = 4
    Target = 9
    Fixed <- MCFixed
    Extent <- MCExtent
    Workers = 2
    KeepsPlan = FALSE
    Failures <- MCNone
    MaxPauses = 1
    Remounts = FALSE
SPECIFICATION Spec
INVARIANT CommitResumes
CHECK_DEADLOCK FALSE
