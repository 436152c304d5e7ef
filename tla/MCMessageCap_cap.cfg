SPECIFICATION CapFairSpec
CONSTANTS
    r1 = r1
    r2 = r2
    r3 = r3
    r4 = r4
    u1 = u1
    Request = {r1, r2, r3, r4}
    Sender = {u1}
    Owner <- OwnerOne
    Cap = 2
    Hours = 2
    MaxClock = 3
    Nobody = Nobody
INVARIANTS
    CapHolds
PROPERTIES
    RefusalsAreRight
    EverySendAnswered
CHECK_DEADLOCK FALSE
