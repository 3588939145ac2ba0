SPECIFICATION Spec
CONSTANTS
    p1 = p1
    p2 = p2
    c1 = c1
    c2 = c2
    c3 = c3
    Pods = {p1, p2}
    Selected = {p1, p2}
    Containers = {c1, c2, c3}
    PodOf <- MCPodOf
    Conns = {o1, o2, o3}
    None = None
    Concurrency = 1
    MaxFaults = 1
    MaxClock = 2
SYMMETRY ConnSymmetry
INVARIANTS
    TypeOK
    OneConnectionPerPod
    NoDuplicateSeries
    NoConnectionLeak
PROPERTIES
    ReconcileHeals
    PublishAccounts
    ImplementsVMExport
