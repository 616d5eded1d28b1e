SPECIFICATION Spec
CONSTANTS
  Parts <- MCParts
  LastUsable = 6
  First <- MCFirst
  Edits <- MCEdits
  None = None
  Part = 1
  Target = 2
  Worlds <- MCSync
INVARIANT SyncFinishesForward
CHECK_DEADLOCK FALSE
