SPECIFICATION FairSpec
CHECK_DEADLOCK FALSE
CONSTANTS
    Reactors = {r1, r2}
    ingest = ingest
    anom1 = anom1
    anom2 = anom2
    anom4 = anom4
    odd = odd
    Events = {ingest, anom2, odd}
    TypeOf <- MCTypeOf
    RiskOf <- MCRiskOf
    Count = 2
    StreamLen = 2
    DedupMax = 1
    MaxMessages = 3
    MaxFaults = 2
INVARIANTS
    AckedIsForwarded
    MemoryIsSound
PROPERTIES
    EveryMessageIsRead
