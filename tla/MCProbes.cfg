SPECIFICATION Spec
CONSTANTS
    blkRead = blkRead
    blkFlush = blkFlush
    blkOther = blkOther
    blkDiscard = blkDiscard
    nfsRead = nfsRead
    nfsRead2 = nfsRead2
    nfsWrite = nfsWrite
    callRead = callRead
    callOpen = callOpen
    callOpen4 = callOpen4
    callGetattr = callGetattr
    t1 = t1
    t2 = t2
    CPUs = {cpu0, cpu1}
    Requests <- MCRequests
    Dev <- MCDev
    Keys <- MCKeys
    BlockRequests <- MCBlockRequests
    Sector <- MCSector
    Rwbs <- MCRwbs
    Headers <- MCHeaders
    Count32 <- MCCount32
    Offset <- MCOffset
    NfsOp <- MCNfsOp
    Calls <- MCCalls
    Thread <- MCThread
    Function <- MCFunction
    Attached <- MCAttached
    HistKeys <- MCHistKeys
    StartElems = {s1, s2}
    Elems = {e1, e2}
    None = None
    MaxIssues = 4
SYMMETRY Symmetry
CHECK_DEADLOCK FALSE
INVARIANTS
    TypeOK
    PairedUnlessAliased
    NoStaleStart
    NoLossWithoutRace
    ReturnsPaired
