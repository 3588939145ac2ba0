SPECIFICATION FairSpec
CONSTANTS
    p1 = p1
    p2 = p2
    fs = fs
    blk = blk
    d1 = d1
    d2 = d2
    Pods = {p1, p2}
    Volumes = {fs, blk}
    BlockVolumes = {blk}
    Devices = {d1, d2}
    Major <- MCMajor
    Minor <- MCMinor
    StartNodes <- MCStartNodes
    NFSDevices = {d2}
    None = None
    MaxChanges = 4
    MaxFaults = 1
    MaxRestarts = 1
    Allowed = {p1}
INVARIANTS
    TypeOK
    AttributedUnlessReused
    SeriesUniqueUnlessMoved
PROPERTIES
    MapVouched
    MapFollowsMounts
