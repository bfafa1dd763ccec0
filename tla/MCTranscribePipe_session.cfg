SPECIFICATION FairSpec
CONSTANTS
  Vendors <- AllVendors
  MaxPipes = 2
INVARIANTS
  TypeOK
  PipesSafe
  
PROPERTIES
  CallsReturn
  PipeReleased
CHECK_DEADLOCK FALSE
