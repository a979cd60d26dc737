\* One writer: the user's edges under reconciliation.
SPECIFICATION Spec
CONSTANTS
  a = a
  b = b
  c = c
  first = first
  second = second
  NoId = NoId
  Absent = Absent
  Stale = Stale
  Paper <- MCPaper
  Text <- MCText
  Mentions <- MCMentions
  Authored <- MCAuthored
  EdgeKind = {"cites"}
  UserEdge <- MCUserEdge
  Report <- MCReport
  Writer = {w1}
  MaxOps = 8
INVARIANT ManualEdgesKept
CHECK_DEADLOCK FALSE
