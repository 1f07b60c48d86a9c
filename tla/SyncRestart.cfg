SPECIFICATION FairSpec
CONSTANTS
  x = x
  hidden = hidden
  Triple = {x, hidden}
  Readable = {x}
  Query <- MCQuery
  Writes <- MCWrites
  MaxVersion = 2
  RetainLog = 1
  MaxAttempts = 2
  MaxEpoch = 2
  MaxFaults = 0
  MaxWatches = 1
CHECK_DEADLOCK FALSE
INVARIANTS
  AgreesWhenCaughtUp
PROPERTIES
  Converges
