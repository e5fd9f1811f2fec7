SPECIFICATION FairSpec
CHECK_DEADLOCK FALSE
CONSTANTS
    Kinds = {"disk_state"}
    Hashes = {h1, h2}
    PingHashes = {p1}
    None = None
    MaxBuffer = 1
    FlushBatch = 1
    MaxCollected = 3
    MaxRequests = 3
    MaxFaults = 3
PROPERTIES
    EventuallyStored
INVARIANTS
    StoredOnce
    BufferIsSound
