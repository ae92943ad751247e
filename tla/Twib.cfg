SPECIFICATION TwibSpec
CONSTANTS
  MaxOutput <- MCOutput
  MaxInput = 1
  MayBreak = TRUE
INVARIANTS
  AllPrinted
  CommandsDone
PROPERTIES
  
  CommandsEnd
CHECK_DEADLOCK FALSE
