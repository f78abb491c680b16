SPECIFICATION Spec
CONSTANTS
    Self = 1
    SelfAddr = a1
    MaxId = 300
    NodeIds = {1, 2, 256}
    a1 = a1
    a2 = a2
    a3 = a3
    k1 = k1
    k2 = k2
    k3 = k3
    v1 = v1
    s1 = s1
    Addrs = {a1, a2, a3}
    NoAddr = NoAddr
    BareAddrs = {a3}
    Keys = {k1, k2, k3}
    NoKey = NoKey
    Vms = {v1}
    NoHost = NoHost
    Services = {s1}
    Commands <- MCCommands
    MaxLog = 3
    MaxDone = 4
    Window = 2
    Drain = 1
    Outcomes <- MCOutcomes
INVARIANTS
    TypeOK
    
    MembersReachable
    RecentRemembered
PROPERTY
    MembershipRepairsMesh
