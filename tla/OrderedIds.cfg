SPECIFICATION Spec
CONSTANTS
    p1 = p1
    p2 = p2
    s3 = s3
    Source = {s1, s2, s3}
    Process = {p1, p2}
    HostOf <- MCHostOf
    Random <- MCRandom
    Counters = 2
    ClockError = 1
    MaxNow = 8
    MaxCalls = 2
INVARIANTS TypeOK SourceOrdered CrossSourceOrder IdsUnique
PROPERTY CallsReturn
CHECK_DEADLOCK FALSE
