\* Two rounds of two briefs, with any plan over three ids and the process ending anywhere.
SPECIFICATION Spec
CONSTANTS
  Id <- MCId
  StackLimit = 4
  TokenOrder <- MCTokenOrder
  Curated <- MCCurated
  Imported <- MCImported
  Evolved <- MCEvolved
  MinConfidence = 600
  Replies <- MCReplies
  Faithfulness = {900, 1000}
  MinFaithfulness = 950
  MinTrajectories = 1
  MaxActivated = 2
  MaxRounds = 2
 
INVARIANT RegistryIsFirstUsable
INVARIANT ProvenanceMatches
