SPECIFICATION Spec
INVARIANTS
  CallIntact
  PacketsIntact
  ImageFaithful
  CoreSound
CHECK_DEADLOCK FALSE
