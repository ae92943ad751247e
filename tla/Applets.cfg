SPECIFICATION FairSpec
CONSTANTS
  c1 = c1
  c2 = c2
  l1 = l1
  Menu = Menu
  None = None
  Clients <- TwoClients
  Bad <- SecondBad
  Loads <- OneLoad
INVARIANTS
  HostMatchesProcess
  LaunchNotForgotten
  HostServed
PROPERTIES
  KillReachesApplet
CHECK_DEADLOCK FALSE
