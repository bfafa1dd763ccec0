SPECIFICATION Spec
CONSTANTS
  p1 = p1
  p2 = p2
  c1 = c1
  c2 = c2
  NoPipe = NoPipe
  Pipes <- TwoPipes
  NameOf <- OneName
  Callers <- OneCaller
  Ops <- AudioAndClose
  Metadata <- NoPipes
  MayUnload = FALSE
  MaxText = 0
  MaxPackets = 0
INVARIANTS
  ReachableIsLive
  ConnectRequestKept
  PendingConnectsLive
CHECK_DEADLOCK FALSE
