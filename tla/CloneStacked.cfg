CONSTANTS
    w1 = w1
    w2 = w2
    Workers <- MCWorkers
    QueueLimit = 1
    Tasks <- MCTasks
    None = None
    Devices <- MCDevices
    File = "file"
    Disk <- MCDisk
    Slaves <- MCSlavesPartition
    Bytes = 5
    TargetBytes = 6
    Chunk = 2
    Requests <- MCRequests
    MaxFaults = 2
    MaxRewrites = 1
SPECIFICATION Spec
CHECK_DEADLOCK FALSE
PROPERTY AdmittedIsSafe
