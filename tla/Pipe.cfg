SPECIFICATION PipeSpec
CONSTANTS
  r1 = r1
  r2 = r2
  w1 = w1
  w2 = w2
  Readers <- TwoReaders
  Writers <- TwoWriters
  Caps <- ReadSizes
  Limit = 2
  MaxChunk = 3
  MaxBytes = 7
  Settings = {"shared", "sync", "stream"}
INVARIANTS
  TypeOK
  CallersAccounted
  NoReaderLeftWaiting
  SuccessMeansRead
PROPERTIES
  NothingAfterEof
  SyncIsByteStream
  WritesEnd
CHECK_DEADLOCK FALSE
