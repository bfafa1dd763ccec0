SPECIFICATION Spec
CONSTANTS
  p1 = p1
  p2 = p2
  c1 = c1
  c2 = c2
  NoPipe = NoPipe
  Pipes <- OnePipe
  NameOf <- OwnName
  Callers <- TwoCallers
  Ops <- AllOps
  Metadata <- OnePipe
  MayUnload = FALSE
  MaxText = 1
  MaxPackets = 1
SYMMETRY CallerSymmetry
INVARIANTS
  TypeOK
  NullVhdOnlyIfGraceful
  
PROPERTIES
  AudioAfterMetadata
  KeepsContract
CHECK_DEADLOCK FALSE
