SPECIFICATION Spec
CONSTANTS
  Triple <- MCTriple
  Fields <- MCFields
  Rank <- MCRank
  None = "none"
  Blank = ""
  Factor = 1
  Margin = 0
  LeastBatch = 1
  Plain <- MCPlain
  Windows <- MCWindows
  Veils <- MCVeils
INVARIANTS
  RootsSatisfyAll
  WindowIsExact
  LocalRunAgrees
  PagesVisitEachRowOnce
PROPERTIES
  WatchedPredicatesSuffice
