\* A loop that is busy when it is stopped, and another start.
SPECIFICATION Spec
CONSTANTS
  p1 = p1
  p2 = p2
  p3 = p3
  Paper = {p1, p2, p3}
  OthersPapers = {p2}
  Feeds <- MCFeeds
  Thread = {t1, t2}
  Owner = Owner
  NoThread = NoThread
  MaxImports = 2
  Chunks = 1
  MaxTicks = 2
PROPERTY StopIsFinal
CHECK_DEADLOCK FALSE
