SPECIFICATION FairSpec
CONSTANTS
    Disks <- MCDisks
    Controllers <- MCControllers
    GuestDisk <- MCGuestDisk
    None = None
    MaxRetries = 2
    MaxAttempts = 2
    OpsBits = 1
    WordBits = 2
    MaxTicks = 1
    MaxOps = 1
    MaxBoots = 1
    MaxNow = 1
    MaxFaults = 1
INVARIANTS
    TypeOK
    ExcludedAfterRetries
    ExcludedNotReported
PROPERTIES
    MetricsOfInterval
    LabelUnlessRenumbered
    AgentlessExcluded
