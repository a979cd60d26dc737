\* One writer, crashes at any statement.
SPECIFICATION Spec
CONSTANTS
  a = a
  b = b
  c = c
  first = first
  second = second
  NoId = NoId
  Absent = Absent
  Stale = Stale
  Paper <- MCPaper
  Text <- MCText
  Mentions <- MCMentions
  Authored <- MCAuthored
  EdgeKind = {"cites"}
  UserEdge <- MCUserEdge
  Report <- MCAnyReport
  Writer = {w1}
  MaxOps = 7
INVARIANTS
  TablesAgree
  ReconciledAtomically
  WiredEdgesResolve
PROPERTY
  PlainRowsKept
CHECK_DEADLOCK FALSE
