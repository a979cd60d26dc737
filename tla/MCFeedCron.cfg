\* Two loops one after the other, an owner that ticks too, one error or more.
SPECIFICATION Spec
CONSTANTS
  p1 = p1
  p2 = p2
  p3 = p3
  Paper = {p1, p2, p3}
  OthersPapers = {p2}
  Feeds <- MCFeeds
  Thread = {t1, t2}
  Owner = Owner
  NoThread = NoThread
  MaxImports = 2
  Chunks = 1
  MaxTicks = 3
INVARIANTS
  TypeOK
  OneLoop
  CapKept
  BelowCapComplete
PROPERTY
  StoppedLoopsEnd
CHECK_DEADLOCK FALSE
