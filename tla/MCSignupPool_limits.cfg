SPECIFICATION FairSpec
CONSTANTS
    a1 = a1
    a2 = a2
    a3 = a3
    a4 = a4
    o1 = o1
    i1 = i1
    i2 = i2
    i3 = i3
    e1 = e1
    e2 = e2
    e3 = e3
    Attempt = {a1, a2, a3}
    IpOf <- Ips
    EmailOf <- Emails
    Other = {o1}
    PoolSize = 4
    PerIpLimit = 1
    PerIpWindow = 3
    GlobalLimit = 1
    GlobalWindow = 2
    MaxClock = 3
    Nobody = Nobody
INVARIANTS
    LimitsHold
    Audited
PROPERTIES
    EverySignupAnswered
CHECK_DEADLOCK FALSE
