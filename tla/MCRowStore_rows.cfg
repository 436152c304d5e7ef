\* Every mix of requests on one row, in every repository.
CONSTANTS
    p1 = p1
    p2 = p2
    a1 = a1
    a2 = a2
    None = None
    Patch = {p1, p2}
    Append = {a1, a2}
    Backend = {"sqlite", "postgres", "sqlserver", "sqlserver_rcsi"}
SPECIFICATION FairSpec
INVARIANTS
    AloneStands
    NewestStands
    LogIsEvents
PROPERTIES
    EveryRequestAnswered
CHECK_DEADLOCK FALSE
