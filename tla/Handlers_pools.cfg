\* Three requests of either kind: objects and buffers are used three times.
CONSTANTS
  Requests = {r1, r2, r3}
  None = none
SPECIFICATION Spec
SYMMETRY Symmetry
INVARIANTS
  TypeOK
  OwnCallbacks
  FailuresAreTold
  ForeignBytesOverlap
CHECK_DEADLOCK FALSE
