SPECIFICATION MCSpec
CONSTANTS
    Workers = {w1, w2}
    a1 = a1
    a2 = a2
    a3 = a3
    k1 = k1
    k2 = k2
    Actions = {a1, a2, a3}
    Keys = {k1, k2}
    LockKey <- MCLockKey
    HasPlaybook = {a1, a3}
    Plans <- MCPlans
    MaxRuns = 3
    MaxFaults = 1
    e1 = e1
    e2 = e2
    u1 = u1
    u2 = u2
    full = full
    narrow = narrow
    bulk = bulk
    lone = lone
    open = open
    None = None
    Requests = {q1, q2}
    Sessions = {x1, x2}
    Specs <- MCSpecs
    RecordOf <- MCRecordOf
    Records = {full, narrow, bulk, lone, open}
SYMMETRY Symmetry
INVARIANTS
    TypeOK
    NoDuplicateExecution
    NoForgottenLock
    ExecutionIsApproved
    TraceSound
PROPERTIES
    OnlyOwnerReleases
    ImplementsLifecycle
