SPECIFICATION Spec
CONSTANTS
    Scrapers = {r1}
    Probes <- MCProbes
    Optional <- MCOptional
    None = None
    MaxFaults = 0
INVARIANT DegradesGracefully
