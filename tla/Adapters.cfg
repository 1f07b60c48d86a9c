SPECIFICATION AdaptersSpec
CONSTANTS
  Triple = {x, y}
  MaxVersion = 5
  RetainLog = 2
CHECK_DEADLOCK FALSE
INVARIANTS
  LogIsDense
  StateIsFold
  CatchUpIsExact
  AdaptersAgree
PROPERTIES
  Implements
  TablesImplement
