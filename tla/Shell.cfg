CONSTANTS
    \* ctrl, shift and alt on both sides, caps lock, l, a, 1, keypad slash
    Keys = {29, 57373, 42, 54, 56, 57400, 58, 38, 30, 2, 57397}
    \* shell: one name in paths of two components, a line of three keys, two shells
    PathNames = {"a"}
    MaxPath = 2
    Count = 3
    MaxShells = 2
    \* tree: one process, four inodes, paths of three components; an open of
    \* each directory is left open
    Procs = {p}
    Names = {"a", "b"}
    NInodes = 4
    MaxDepth = 3
    MaxOpens = 1
SPECIFICATION MCSpec
INVARIANTS
    NoStuckModifier
    KeyTypesItsChar
    LineIsAsTyped
    PromptIsCwd
    GetcwdIsPath
