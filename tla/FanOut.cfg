SPECIFICATION Spec
CONSTANTS
  Triple <- MCTriple
  Actor <- MCActor
  Seed <- MCSeed
  Writes <- MCWrites
  Entity <- MCEntity
  Fields <- MCFields
  Overridden <- MCOverridden
  Grants <- MCGrants
  MaxVersion = 5
  MaxDrops = 2
CHECK_DEADLOCK FALSE
INVARIANTS
  LiveMirrorIsExact
  CaughtUpMirrorIsExact
