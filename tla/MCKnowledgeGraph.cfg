\* Pictures, walks, briefs, stubs and searches over two graphs, with a write at any moment.
SPECIFICATION Spec
CONSTANTS
  Paper <- MCPaper
  NoId = ""
  Text <- MCText
  Kind <- MCKind
  Graphs <- MCGraphs
  Asked <- MCAsked
  Hops = 3
  Wanted = 2
  Queries = {"u"}
  Limit = 1
  Scale = 238266
  Attempts = 3
  Batches <- MCBatches
  MaxWrites = 1
INVARIANT PictureIsNeighbourhood
INVARIANT WalkIsPath
INVARIANT StubsResolve
INVARIANT FusionKeepsRanks
