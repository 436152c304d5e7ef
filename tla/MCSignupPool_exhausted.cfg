SPECIFICATION FairSpec
CONSTANTS
    a1 = a1
    a2 = a2
    a3 = a3
    a4 = a4
    o1 = o1
    i1 = i1
    i2 = i2
    i3 = i3
    e1 = e1
    e2 = e2
    e3 = e3
    Attempt = {a2, a3, a4}
    IpOf <- Ips
    EmailOf <- Emails
    Other = {}
    PoolSize = 2
    PerIpLimit = 1
    PerIpWindow = 2
    GlobalLimit = 3
    GlobalWindow = 2
    MaxClock = 1
    Nobody = Nobody
PROPERTIES
    DuplicateLands
CHECK_DEADLOCK FALSE
