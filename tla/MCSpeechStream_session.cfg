SPECIFICATION FairSpec
CONSTANTS
  Vendors <- AllVendors
  MaxSessions = 2
INVARIANTS
  TypeOK
  
PROPERTIES
  CallsReturn
  SessionEnds
CHECK_DEADLOCK FALSE
