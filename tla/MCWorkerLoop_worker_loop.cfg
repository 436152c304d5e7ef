SPECIFICATION SpecBounded
CONSTANTS
    Process = {"a", "b"}
    Host = {"h1"}
    Portal = "portal"
    HostOf <- OneHost
    REQUIRED_MCPS <- Mcps
    DryRun = FALSE
    Stale = 0
    JobLimit = 1
    ReportLimit = 2
    Requests <- TwoRequests
    Conditions <- FourConditions
    MaxFaults = 1
    MaxChanges = 2
    MaxJobs = 2
    MaxVersion = 2
    MaxUploads = 2
    MaxEvents = 2
INVARIANTS
    InventoryIsCurrent
    VerdictsAreTrue
PROPERTIES
    DashboardSettles
    EveryJobEnds
CHECK_DEADLOCK FALSE
