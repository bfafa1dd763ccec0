SPECIFICATION FairSpec
CONSTANTS
  p1 = p1
  p2 = p2
  c1 = c1
  c2 = c2
  NoPipe = NoPipe
  Pipes <- OnePipe
  NameOf <- OwnName
  Callers <- OneCaller
  Ops <- NoAudio
  Metadata <- NoPipes
  MayUnload = TRUE
  MaxText = 2
  MaxPackets = 0
PROPERTIES
  ConnectResolves
  CloseCompletes
  TextGoesOut
CHECK_DEADLOCK FALSE
