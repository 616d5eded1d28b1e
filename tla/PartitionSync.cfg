SPECIFICATION Spec
CONSTANTS
  Parts <- MCParts
  LastUsable = 6
  First <- MCFirst
  Edits <- MCEdits
  None = None
  Part = 1
  Target = 2
  Worlds <- MCWorlds
INVARIANT TypeOK
INVARIANT NeverLost
INVARIANT AtomicTable
INVARIANT PartitionHoldsFilesystem
INVARIANT CompleteIsCut
CHECK_DEADLOCK FALSE
