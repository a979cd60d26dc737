\* One request at a time, the v4 cohort wired, network faults on.
SPECIFICATION Spec
CONSTANTS
  Run = {r1}
  N = 3
  Plans <- MCPlans
  Kind <- MCKind
  SearchKinds <- MCSearchKinds
  LookupKind <- MCLookupKind
  Op <- MCOp
  Covers <- MCCovers
  Specialist <- MCSpecialist
  SpecialistOf <- MCCohort
  Bridged = TRUE
  HasKB = TRUE
  Sandboxed = FALSE
  Chaos = {"network_drop"}
  MaxAttempts = 2
  Parkable = {2}
  MaxGrants = 2
  MaxSubmits = 2
INVARIANTS
  TypeOK
  DecidedAfterDependencies
  ReportedOnce
  QuiescentAtReturn
  TokensAccounted
  DispatchesAccounted
PROPERTIES
  StandingApprovalHonoured
  RunsEnd
  ImplementsDagRun
CHECK_DEADLOCK FALSE
