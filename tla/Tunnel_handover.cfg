\* Two tunnels, one of them of either kind; the ends of one send a byte each way.
CONSTANTS
  Tunnels = {t1, t2}
  Excludable = {t1}
  Talkers = {t1}
  Bytes = 1
SPECIFICATION FairSpec
INVARIANTS
  TypeOK
  OnlyAheadIsLost
PROPERTIES
  StopReturns
  HandlersEnd
  BytesArrive
CHECK_DEADLOCK FALSE
