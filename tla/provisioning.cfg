CONSTANTS
  p1 = p1
  p2 = p2
  a1 = a1
  a2 = a2
  Procs = {p1, p2}
  AuditFiles <- MCAudit
  SshOk = {"orchestrator"}
  PostureFile <- MCPosture
  TrustFile <- MCTrust
  Endpoints <- MCEndpoints
  SeedRows <- MCSeedRows
  MaxRuns = 4
  MaxFaults = 1
  Sessions = {a1, a2}
  Targets = {8}
  HnswMaxDim = 2000
  LastMonth = 5
  MaxFailures = 1
  MaxEvents = 2
  MaxCommits = 3
  Versions = {1, 2, 3}
  MaxCalls = 4
  Lists <- MCLists
  EntityLists <- MCEntityLists
  Texts <- MCTexts
  max_tokens = 3
  overlap_tokens = 1
  min_tokens = 2
  CharsPerToken = 2
SYMMETRY Symmetry
SPECIFICATION MCSpec
INVARIANTS
  SchemaIsTracked
  LoadsAreSound
  PartitionsCover
  SeedIsAuthoritative
  PackIsSound
  BooksAreRight
\* Runs of the scripts are bounded.
CHECK_DEADLOCK FALSE
