SPECIFICATION FairSpec
CONSTANTS
    a = a
    b = b
    c = c
    Worker = {w1}
    Task = {a, b, c}
    RunId = {r1, r2, r3}
    None = None
    StaffListed = {a, b}
    BoardTask = {a, b, c}
    Rank <- RankABC
    Window = 3
    DryModes = {FALSE}
    Fallback = TRUE
    OperatorTask = {}
    LegacyRow = None
    Faults = {"start", "suspend", "dispatch"}
    MaxHumanActs = 0
    MaxCrashes = 0
PROPERTIES
    EveryTaskServed
CHECK_DEADLOCK FALSE
