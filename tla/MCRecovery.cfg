SPECIFICATION FairSpec
CONSTANTS
    Vms = {v1, v2}
    None = None
    MaxRestarts = 2
INVARIANTS TypeOK  NoOrphanAfterShutdown
PROPERTIES RecoverySparesLive RestartServes
CHECK_DEADLOCK FALSE
