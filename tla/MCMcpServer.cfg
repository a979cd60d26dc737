\* Three observations in pages of one, a limit of two in a window of two ticks;
\* two workers with two handles.
SPECIFICATION Spec
CONSTANTS
  secret = secret
  guess = guess
  w1 = w1
  w2 = w2
  h1 = h1
  h2 = h2
  e1 = e1
  e2 = e2
  Token = {secret, guess}
  Limit = 2
  Span = 2
  Worker = {w1, w2}
  Evidence = {e1, e2}
  Relevance <- MCRelevance
  Batches <- MCBatches
  Threshold = 1
  TopK = 1
  Handle = {h1, h2}
  MaxTurns = 1
  MaxObservations = 3
  MaxSaid = 3
  Request <- MCRequest
  Hosts <- MCHosts
  PageSize = 1
  ScanLimit = 2
  MaxServed = 1
  MaxTime = 4
INVARIANTS
  TypeOK
  SpacedOut
  TimelineComplete
  HandlesResolve
CHECK_DEADLOCK FALSE
