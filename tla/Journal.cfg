CONSTANTS
    p1 = p1
    p2 = p2
    Payloads <- MCPayloads
    Phases <- MCPhases
    FirstPhase = "prepared"
    Capacity = 3
    MaxBatch = 2
    NoPhase = NoPhase
    Torn = Torn
SPECIFICATION Spec
INVARIANT JournalInv
INVARIANT AckedSurvives
PROPERTY ImplementsLog
