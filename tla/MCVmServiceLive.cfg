SPECIFICATION FairSpec
CONSTANTS
    v1 = v1
    r1 = r1
    r2 = r2
    NoVM = NoVM
    VMs = {v1}
    Reqs = {r1, r2}
    MaxMem = 1
    Stuck = {}
    DataDirIsHome = FALSE
    Faults = {"vtpm", "save", "spawn", "restore"}
PROPERTIES
    RemovedVmDies
    FailedAttestationEvicts
