SPECIFICATION Spec
CONSTANTS
    v1 = v1
    r1 = r1
    r2 = r2
    NoVM = NoVM
    VMs = {v1}
    Reqs = {r1, r2}
    MaxMem = 2
    Stuck = {"cow", "tap", "dir"}
    DataDirIsHome = TRUE
    Faults = {"image", "qcow2", "dm", "agent", "boot", "vtpm", "save", "crash", "api", "hibdir", "snapshot", "spawn", "restore", "virtiofsd"}
SYMMETRY Symmetry
INVARIANTS
    TypeOK
    ProcessHasOwner
    RegisteredKeepsDisk
    HibernatedHasNoHypervisor
    StoppedReleasesAll
    LateQuoteTouchesNothing
