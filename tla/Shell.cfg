SPECIFICATION FairSpec
CONSTANTS
  c1 = c1
  c2 = c2
  c3 = c3
  None = None
  Clients <- ThreeClients
  Bad <- ThirdBad
INVARIANTS
  ProgramMatchesProcess
  LaunchNotForgotten
PROPERTIES
  KillReachesProgram
CHECK_DEADLOCK FALSE
