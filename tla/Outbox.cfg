SPECIFICATION FairSpec
CONSTANTS
  MaxWrites = 3
  MaxFaults = 2
  MaxDeploys = 1
  Carriable = {1, 3}
CHECK_DEADLOCK FALSE
INVARIANTS
  PendingIsUnanswered
  SavedWhenQuiet
  NothingSilentlyLost
  AppliedTwiceOnlyIfUnsure
PROPERTIES
  ChainNeverStalls
