CONSTANTS
    Procs = {p, q}
    Names = {a, b, c, d, e}
    Slots = 2
    Direct = 2
    Indirect = 2
    NBlocks = 6
SPECIFICATION Spec
SYMMETRY AnyNames
INVARIANTS
    ListingComplete
    
