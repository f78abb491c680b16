SPECIFICATION Spec
CONSTANTS
    v1 = v1
    r1 = r1
    r2 = r2
    NoVM = NoVM
    VMs = {v1}
    Reqs = {r1}
    MaxMem = 1
    Stuck = {}
    DataDirIsHome = FALSE
    Faults = {}
INVARIANT RunningOnlyIfAttested
