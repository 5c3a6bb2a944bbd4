SPECIFICATION Spec
INVARIANTS
  TypeOK
  RequestSafe
  NothingLost
  DeliveredIntact
  ReadBack
PROPERTIES
  NobodyWaits
CHECK_DEADLOCK FALSE
