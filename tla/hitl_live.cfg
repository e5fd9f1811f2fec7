SPECIFICATION FairSpec
CONSTANTS
    Items = {i1, i2}
    Reviewers = {r1}
    Sweepers = {w1, w2}
    None = None
    Requests <- OneClassRequests
    MaxEscalations = 1
    FeedbackMayFail = TRUE
    MaxFaults = 1
PROPERTIES
    EventuallyClosed
