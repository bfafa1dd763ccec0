SPECIFICATION FairSpec
CONSTANTS
  p1 = p1
  p2 = p2
  c1 = c1
  c2 = c2
  None = None
  Producers <- TwoProducers
  KindOf <- FileThenHttp
  Looped <- NoProducer
  Callers <- OneCaller
  Commands <- AllCommands
  Low = 1
  High = 1
  Frame = 2
  MaxBlocks = 1
PROPERTIES
  QueueMoves
  
CHECK_DEADLOCK FALSE
