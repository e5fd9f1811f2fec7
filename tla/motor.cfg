SPECIFICATION Spec
CONSTANTS
    Callers = {c1, c2, c3}
    MaxTokens = 2
    RefillRate = 1
    Proposers = {p1, p2, p3}
    Runs = {r1, r2, r3}
    Targets = {"staging", "prod-db"}
    ProductionTargets = {"prod-db"}
    MaxConcurrent = 2
    Notices = {n1}
    MaxRetries = 3
    HealJobs = {j1, j2}
    PlanJobs = {k1}
    Images = {"old", "postgres", "none"}
    Protected = {"postgres"}
    Dangling = {"none"}
    InUse = {"postgres"}
    MaxDisturbances = 1
    Clients = {l1, l2}
    Threshold = 2
    Attempts = 1
    Tasks = {t1, t2}
    Limit = 3
    Estimates = {1, 2, 3}
    MaxUsed = 6
    Evaluators = {g1}
    Insights <- MCInsights
    Policies <- MCPolicies
    Hosts <- MCHosts
INVARIANTS
    TokensAreConserved
    DuplicatesNeedOverlap
    GuardsHold
    CleanupIsSafe
    ReportsAreBounded
    FailuresBlock
PROPERTIES
    WaitsEnd
    RecoveryCloses
\* Jobs, proposals and runs are bounded.
CHECK_DEADLOCK FALSE
