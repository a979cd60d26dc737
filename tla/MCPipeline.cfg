\* Two requests over one pipeline, two claims of the first and one of the other.
SPECIFICATION Spec
CONSTANTS
  n1 = n1
  n2 = n2
  r1 = r1
  r2 = r2
  e1 = e1
  e2 = e2
  ghost = ghost
  Request = {r1, r2}
  Node = {n1, n2}
  Id = {e1, e2, ghost}
  Evidence = {e1, e2}
  Anchored = {e1}
  Plans <- MCPlans
  Returns <- MCReturns
  Drafts <- MCDrafts
  Wirings <- MCWirings
INVARIANTS
  RejectionsExplained
  PromotionMatchesReport
  SpansRemembered
  FailuresAttributed
PROPERTY
  RequestsEnd
CHECK_DEADLOCK FALSE
