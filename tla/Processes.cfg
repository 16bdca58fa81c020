CONSTANTS
    InitPcb = initp
    MainPcb = mainp
    IdlePcb = idlep
    ShellPcb = shellp
    Spare = {p1, p2}
    Pcbs <- AllPcbs
    MaxPid = 6
SPECIFICATION Spec
SYMMETRY SparePages
INVARIANTS
    PidsAreUnique
    ZombieNeverRuns
    ExitWakesParent
    ParentExists
