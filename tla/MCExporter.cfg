SPECIFICATION FairSpec
CONSTANTS
    Scrapers = {r1}
    Probes <- MCProbes
    Optional <- MCOptional
    None = None
    MaxFaults = 2
INVARIANTS
    TypeOK
    AllOrNothing
    ReplyConsistent
PROPERTIES
    EventuallyActive
    SignalEndsProcess
