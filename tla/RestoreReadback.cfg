CONSTANTS
    Image = "image"
    Mbr = "mbr"
    Procs = {"image", "mbr"}
    Paths = {p, q}
    MaxAttempts = 2
    Limits <- MCLimits
    Torn = Torn
    Empty = Empty
    None = None
    Chunks = 2
    Sources <- MCSources
    MaxDamage = 1
    Entries = {1, 2, 3}
    DiskSectors = 8
    Tables <- MCTables
    Edits <- MCEdits
SYMMETRY PathSymmetry
SPECIFICATION Spec
CHECK_DEADLOCK FALSE
INVARIANT RestoredOnMedium
