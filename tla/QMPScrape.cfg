SPECIFICATION FairSpec
CONSTANTS
    Disks = {root, data}
    Blk = {root}
    Controller = scsi0
    Claims = {pvcA}
    None = None
    MaxQueues = 2
    MaxPlugs = 1
    MaxFaults = 1
INVARIANTS
    TypeOK
    HistogramSetOnce
PROPERTIES
    ArmedUnlessReused
    ClaimReported
    QueuesReported
