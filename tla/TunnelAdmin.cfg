SPECIFICATION Spec
INVARIANTS
  TypeOK
  ListMatchesDb
  CopiesAgree
  NeededRuns
  
  Converged
CHECK_DEADLOCK FALSE
