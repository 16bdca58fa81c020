CONSTANTS
    main = main
    init = init
    u1 = u1
    u2 = u2
    idle = idle
    NoThread = NoThread
    NoLock = NoLock
    Main = main
    Idle = idle
    KThreads = {main, init}
    UThreads = {u1}
    Locks = {"pool"}
    Uses <- AnyLock
    Priority <- OneTick
    BootOrder <- Boot
    MaxRepeat = 2
    Sleepers = {init, u1}
    Yielders = {init}
SPECIFICATION Spec
INVARIANTS
    TypeOK
    MutualExclusion
    HolderIsOwner
    OneListPerThread
    NoLostWakeup
    OnlyYieldPanics
PROPERTIES
    FullSlice
    ImplementsLock
