SPECIFICATION HSpec
CONSTANTS
    a = a
    b = b
    Worker = {w1, w2}
    Task = {a, b}
    RunId = {r1, r2}
    None = None
    StaffListed = {a}
    BoardTask = {a, b}
    Rank <- RankAB
    Window = 2
    DryModes = {FALSE}
    Fallback = TRUE
    OperatorTask = {}
    LegacyRow = None
    Faults = {"start", "crash", "config"}
    MaxHumanActs = 1
    MaxCrashes = 1
SYMMETRY RunSymmetry
INVARIANTS
    GuardsHold
    NoMutationIsTrue
    StartIsRecordedFirst
    ClaimedWasStarted
PROPERTIES
    ImplementsLedger
CHECK_DEADLOCK FALSE
