CONSTANTS
    Procs = {p1, p2}
    First = p1
    NK = 14
    NU = 4
    NPages = 2
    MaxHeap = 1
    PerTable = 1
    PAGE_SIZE = 2
    vaddr_btmp_bytes_len = 3
    \* two processes, arenas of two blocks, two pages of heap each
    Progs = {p1, p2}
    FirstProg = p1
    Classes = {1}
    blocks_pre_arena <- MCBlocks
    MaxBlock = 2
    NHeap = 2
    MaxArea = 2
    \* a map of two bytes of four bits, runs of up to four
    ByteBits = 4
    btmp_bytes_len = 2
    MaxCnt = 4
SPECIFICATION MCSpec
INVARIANTS
    OneOwnerUnlessStale
    LeakIsOnePagePerExit
    BitmapIsMapping
    FreeListSound
    ArenaCounts
    ScanIsFirstFit
