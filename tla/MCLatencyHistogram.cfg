SPECIFICATION Spec
CONSTANTS
    Latencies <- MCLatencies
    Boundaries <- MCBoundaries
    MaxSlots = 26
    MaxSamples = 2
INVARIANTS
    QMPBuckets
    BucketsWithinTwofold
    SumWithinFourfold
    SlotIsLogarithm
CHECK_DEADLOCK FALSE
