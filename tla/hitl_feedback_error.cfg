SPECIFICATION Spec
CONSTANTS
    Items = {i1}
    Reviewers = {r1}
    Sweepers = {w1}
    None = None
    Requests <- OneClassRequests
    MaxEscalations = 2
    FeedbackMayFail = TRUE
    MaxFaults = 1
SYMMETRY Symmetry
INVARIANTS
    AcceptedDecisionStands
