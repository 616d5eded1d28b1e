CONSTANTS
    Size = 13
    GroupSize = 4
    Target = 9
    Fixed <- MCFixed
    Extent <- MCExtent
    Workers = 2
    KeepsPlan = FALSE
    Failures <- MCFailures
    MaxPauses = 2
    Remounts = FALSE
SPECIFICATION Spec
INVARIANT TypeOK
INVARIANT JournalSound
INVARIANT FilesIntact
INVARIANT OwnersAllocated
INVARIANT CleanAfterOneKind
INVARIANT CompactedTail
PROPERTY ReleaseAfterSwitch
CHECK_DEADLOCK FALSE
