\* Two dials of any kind: one may end the process while the other waits.
CONSTANT Dials = {d1, d2}
SPECIFICATION FairSpec
INVARIANTS
  TypeOK
  LostIsLate
  EndsOnlyAfterTimeout
PROPERTY DialReturns
CHECK_DEADLOCK FALSE
