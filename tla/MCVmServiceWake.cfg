SPECIFICATION Spec
CONSTANTS
    v1 = v1
    r1 = r1
    r2 = r2
    NoVM = NoVM
    VMs = {v1}
    Reqs = {r1}
    MaxMem = 2
    Stuck = {}
    DataDirIsHome = FALSE
    Faults = {}
PROPERTY WakeContinuesGuest
