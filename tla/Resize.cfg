SPECIFICATION Spec
CONSTANTS
  GroupEnd = 6
  Device = 5
  Size = 4
  Target = 2
  Fixed <- MCFixed
  Backups = 1
  MaxMounts = 2
  Worlds <- MCWorlds
INVARIANT TypeOK
INVARIANT CleanIsExact
INVARIANT FilesFit
INVARIANT DurablySmaller
INVARIANT CleanCopiesAgree
