CONSTANTS
    w1 = w1
    w2 = w2
    main = main
    rival = rival
    stopper = stopper
    None = None
    Workers <- MCWorkers
    QueueDepth = 2
    Clients <- MCClients
    Tasks <- MCTasks
    Main = main
    Stopper = stopper
    Chunks = 3
    Passes = 2
    MaxInflight = 2
    MaxFaults = 1
SPECIFICATION Spec
CHECK_DEADLOCK FALSE
INVARIANT TypeOK
INVARIANT NoLostWakeup
INVARIANT Accounted
INVARIANT StoppedIsQuiet
INVARIANT ScrubSound
PROPERTY FuturesReady
PROPERTY Returns
