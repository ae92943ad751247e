SPECIFICATION LinksSpec
CONSTANTS
  Req <- MCReq
  DataSize = 2
  MaxFaults = 1
  MayRunOut = TRUE
CHECK_DEADLOCK FALSE
INVARIANT
  BridgeSound
PROPERTIES
  LinksIntact
  LinksAnswer
