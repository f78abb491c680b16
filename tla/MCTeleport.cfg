SPECIFICATION FairSpec
CONSTANTS
    s1 = s1
    s2 = s2
    v1 = v1
    t1 = t1
    t2 = t2
    Teleports = {s1, s2}
    Vms = {v1}
    Targets = {t1, t2}
    Jobs <- MCJobs
    None = None
    MaxCancels = 1
INVARIANTS TypeOK HandedOver
PROPERTIES Settles
CHECK_DEADLOCK FALSE
