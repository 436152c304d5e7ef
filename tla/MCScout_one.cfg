SPECIFICATION Spec
CONSTANTS
    a = a
    b = b
    c = c
    Worker = {w1}
    Task = {a, b, c}
    RunId = {r1, r2, r3}
    None = None
    StaffListed = {a}
    BoardTask = {a, b}
    Rank <- RankABC
    Window = 3
    DryModes = {FALSE, TRUE}
    Fallback = TRUE
    OperatorTask = {c}
    LegacyRow = a
    Faults = {"mcp", "edi", "glow", "twin", "config", "start", "suspend", "assign", "dispatch", "crash"}
    MaxHumanActs = 1
    MaxCrashes = 1
SYMMETRY RunSymmetry
INVARIANTS
    TypeOK
    OneActiveRunPerTask
PROPERTIES
    NeverSuspendsPlayingTask
CHECK_DEADLOCK FALSE
