SPECIFICATION FairSpec
CONSTANTS
    Vms = {v1, v2}
    Booted = {v1}
    Labels = {auto, manual}
    AutoLabel = auto
    None = None
    Retain = 2
    Tasks = {l1, l2}
    MaxSnaps = 4
    Volumes = {v1}
    Tags = {t1}
    NoTag = NoTag
    NoNode = NoNode
    MaxNodes = 3
    MaxThreads = 2
    Calls = {c1, c2}
    PodVms = {p1}
    Names = {n1}
    NoCall = NoCall
INVARIANTS TypeOK Ancestry PodsAccountForVms
PROPERTIES TasksAgree KubeletCallsEnd
CHECK_DEADLOCK FALSE
