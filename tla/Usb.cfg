SPECIFICATION UsbSpec
CONSTANTS
  MaxRequests = 3
  Pieces <- PayloadSizes
  MayFail = {FALSE, TRUE}
INVARIANTS
  OneRequestOut
  OneResponseIn
  SleeperHasWaker
  ScanCounted
  BackendsSound
PROPERTIES
  LibUsbAnswers
  
CHECK_DEADLOCK FALSE
