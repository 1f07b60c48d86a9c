SPECIFICATION Spec
CONSTANTS
  x = x
  hidden = hidden
  Triple = {x, hidden}
  Readable = {x}
  Query <- MCQuery
  Writes <- MCWrites
  MaxVersion = 3
  RetainLog = 1
  MaxAttempts = 2
  MaxEpoch = 1
  MaxFaults = 1
  MaxWatches = 1
CHECK_DEADLOCK FALSE
INVARIANTS
  NothingOlderThanCursor
  NoVersionIsSkipped
  AgreesWhenCaughtUp
