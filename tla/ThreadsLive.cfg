CONSTANTS
    main = main
    init = init
    u1 = u1
    u2 = u2
    idle = idle
    NoThread = NoThread
    NoLock = NoLock
    Main = main
    Idle = idle
    KThreads = {main}
    UThreads = {u1, u2}
    Locks = {"channel", "ioq"}
    Uses <- DeviceLocks
    Priority <- SleeperTick
    BootOrder <- BootU
    MaxRepeat = 1
    Sleepers = {u1, u2}
    Yielders = {}
SPECIFICATION FairSpec
PROPERTIES
    ReadyRuns
    ContendedLockIsReleased
