SPECIFICATION Spec
CONSTANTS
    Latencies <- MCLatencies
    Boundaries <- DefaultBoundaries
    MaxSlots = 26
    MaxSamples = 2
INVARIANT BucketsExact
CHECK_DEADLOCK FALSE
