SPECIFICATION FairSpec
CONSTANTS
    a = a
    b = b
    c = c
    Worker = {w1}
    Task = {a, b}
    RunId = {r1, r2, r3}
    None = None
    StaffListed = {a}
    BoardTask = {a, b}
    Rank <- RankAB
    Window = 3
    DryModes = {FALSE}
    Fallback = TRUE
    OperatorTask = {}
    LegacyRow = None
    Faults = {}
    MaxHumanActs = 1
    MaxCrashes = 0
PROPERTIES
    EveryTaskServed
CHECK_DEADLOCK FALSE
