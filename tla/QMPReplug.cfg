SPECIFICATION FairSpec
CONSTANTS
    Disks = {root}
    Blk = {root}
    Controller = scsi0
    Claims = {pvcA}
    None = None
    MaxQueues = 2
    MaxPlugs = 1
    MaxFaults = 0
PROPERTY DiskEventuallyArmed
