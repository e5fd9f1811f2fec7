SPECIFICATION Spec
CONSTANTS
    Items = {i1, i2}
    Reviewers = {r1, r2}
    Sweepers = {w1, w2}
    None = None
    Requests <- SweptRequests
    MaxEscalations = 2
    FeedbackMayFail = FALSE
    MaxFaults = 0
SYMMETRY Symmetry
INVARIANTS
    TypeOK
    BlockedIffExhausted
    AcceptedDecisionStands
    FeedbackMatchesDecision
PROPERTIES
    TerminalRowsAreFinal
