\* Two request threads inside run() at once, no supervisor, sandbox wired.
SPECIFICATION SafeSpec
CONSTANTS
  Run = {r1, r2}
  N = 2
  Plans <- MCPairPlans
  Kind <- MCKind
  SearchKinds <- MCSearchKinds
  LookupKind <- MCLookupKind
  Op <- MCPairOp
  Covers <- MCPairCovers
  Specialist <- MCSpecialist
  SpecialistOf <- MCNoCohort
  Bridged = TRUE
  HasKB = TRUE
  Sandboxed = TRUE
  Chaos = {"memory_drop"}
  MaxAttempts = 1
  Parkable = {}
  MaxGrants = 2
  MaxSubmits = 2
INVARIANTS
  GatedNodesApproved
  TraceMatchesOutcome
CHECK_DEADLOCK FALSE
