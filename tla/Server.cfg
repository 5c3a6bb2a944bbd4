SPECIFICATION Spec
INVARIANTS
  TypeOK
  AccountsIntact
  WalkComplete
  RightEnd
PROPERTIES
  Settles
CHECK_DEADLOCK FALSE
