SPECIFICATION FairSpec
CONSTANTS
  stop = stop
  close = close
  Modes <- BothModes
  Factors <- BothFactors
  Cleaners <- TwoCleaners
  Audio <- PlainAudio
  MAX_MARKS = 2
  HighMark = 2
  LowMark = 1
  FrameSize = 2
  MaxMarks = 2
  MaxFiles = 2
  MaxBuffered = 2
INVARIANTS
  TypeOK
  
  
  CapturedOnce
PROPERTIES
  MarkerIsPlayed
  FilesRemoved
CHECK_DEADLOCK FALSE
