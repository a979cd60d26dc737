\* Two runs of at most two steps, two tools, one change of the registry.
SPECIFICATION Spec
CONSTANTS
  read = read
  edit = edit
  Name = {read, edit}
  Tool <- MCTool
  Registry <- MCRegistry
  Replies <- MCReplies
  Setups <- MCSetups
  Outcomes = {"ok"}
  MaxRuns = 2
  MaxChanges = 1
INVARIANTS
  
  RunsVetted
  
PROPERTY
  RunsEnd
CHECK_DEADLOCK FALSE
