SPECIFICATION Spec
CONSTANTS
  stop = stop
  close = close
  Modes <- StreamOnly
  Factors <- NoResampler
  Cleaners <- OneCleaner
  Audio <- PlainAudio
  MAX_MARKS = 2
  HighMark = 2
  LowMark = 1
  FrameSize = 1
  MaxMarks = 2
  MaxFiles = 0
  MaxBuffered = 2
PROPERTIES
  MarkerGivesNotice
CHECK_DEADLOCK FALSE
