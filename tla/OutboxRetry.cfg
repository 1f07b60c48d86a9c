SPECIFICATION FairSpec
CONSTANTS
  MaxWrites = 1
  MaxFaults = 2
  MaxDeploys = 0
  Carriable = {}
CHECK_DEADLOCK FALSE
PROPERTIES
  QueueDrains
