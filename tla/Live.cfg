SPECIFICATION Spec
CONSTANTS
  Triple <- MCTriple
  Fields <- MCFields
  Rank <- MCRank
  None = "none"
  Blank = ""
  Factor = 4
  Margin = 16
  LeastBatch = 64
  Payload <- MCPayload
  Watches <- QueryPredicates
  RunPayload <- Run
  CollectPayloadTriples <- MCCollect
  AllWhole <- RootsAreWhole
  Writes <- MCWrites
  Seed <- MCSeed
  Budget = 4
CHECK_DEADLOCK FALSE
INVARIANTS
  ShownIsCurrent
  ShownRowsAreTrue
  NothingStaysMissing
