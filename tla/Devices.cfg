CONSTANTS
    Readers = {r1, r2, r3}
    NoReader = NoReader
    Chars = {"a", "b"}
    bufsize = 4
    Threads = {main, u1, u2}
    KThreads = {main}
    NoThread = NoThread
    MaxOp = 2
    MaxSectors = 3
SPECIFICATION MCSpec
INVARIANTS
    NoPanic
    SleeperIsRegistered
    DiskDoneIsBinary
    TransferWhenReady
    CommandOnIdleDisk
PROPERTIES
    ImplementsQueue
    BufferedCharIsRead
    RequestEnds
