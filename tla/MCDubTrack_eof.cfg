SPECIFICATION FairSpec
CONSTANTS
  p1 = p1
  p2 = p2
  c1 = c1
  c2 = c2
  None = None
  Producers <- OneProducer
  KindOf <- FileThenHttp
  Looped <- NoProducer
  Callers <- OneCaller
  Commands <- PlayOnly
  Low = 1
  High = 1
  Frame = 2
  MaxBlocks = 1
PROPERTIES
  DoneIsNotified
CHECK_DEADLOCK FALSE
