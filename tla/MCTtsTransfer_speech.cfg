SPECIFICATION FairSpec
CONSTANTS
  Vendors <- AllVendors
  MaxFeeds = 2
  MaxChunks = 2
INVARIANTS
  TypeOK
  CleanAudio
  FileSafe
  FilesSettle
  
PROPERTIES
  
  EndsWithOwnDownload
  UtteranceEnds
CHECK_DEADLOCK FALSE
