SPECIFICATION Spec
INVARIANTS
  TypeOK
  WholeFrames
  OneOwner
  RightSession
  FreshStart
PROPERTIES
  Recovers
  EndsWhenDue
CHECK_DEADLOCK FALSE
