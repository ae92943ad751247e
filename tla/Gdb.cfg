SPECIFICATION Spec
CONSTANTS
  Pids = {1, 2}
  Tids = {1, 2}
  Unstarted = {2}
  MaxEvents = 2
  MultiEvents = 1
  LaterEvents = 0
  MaxAttach = 2
  MaxInts = 1
CHECK_DEADLOCK FALSE
INVARIANTS
  NoStaleReference
  NoLostEvent
  FloorAgreed
PROPERTIES
  StopReported
