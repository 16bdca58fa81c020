\* OpenFiles: three processes, two files and inode numbers, two slots, two
\* descriptors each.  FileData: two files of at most four blocks, two of them
\* direct, on a partition of five.
CONSTANTS
    file1 = file1
    file2 = file2
    Procs = {shell, child, other}
    First = shell
    OnDisk <- MCOnDisk
    Files = {file1, file2}
    NInodes = 2
    NSlots = 2
    NFds = 2
    NObjs = 3
    Regular = {file1, file2}
    Watched = file1
    Deleted = {file2}
    BlockSize = 2
    Direct = 2
    Indirect = 2
    NBlocks = 5
    SectorBits = 3
    Counts <- MCCounts
    PosBits = 4
SPECIFICATION MCSpec
INVARIANTS
    OpenCounts
    OpenFilesExist
    WritesSurvive
    BlocksOwned
