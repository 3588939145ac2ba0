SPECIFICATION FairSpec
CONSTANTS
    p1 = p1
    p2 = p2
    c1 = c1
    c2 = c2
    c3 = c3
    Pods = {p1}
    Selected = {p1}
    Containers = {c1, c2}
    PodOf <- MCPodOf
    Conns = {o1, o2}
    None = None
    Concurrency = 1
    MaxFaults = 2
    MaxClock = 1
PROPERTIES
    HealthyVMExported
    DeadVMDropped
    ShutdownCompletes
