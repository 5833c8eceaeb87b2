SPECIFICATION Spec
CONSTANTS
  Ports = {1, 2}
  MaxOid = 2
  MaxChanges = 3
  MayFail = TRUE
CHECK_DEADLOCK FALSE
INVARIANTS
  TypeOK
  LastHeardIsTrue
PROPERTY
  ChangesAreHeard
