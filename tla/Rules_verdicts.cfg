\* One connection, by proxy or through its tunnel, and three changes of any list.
CONSTANTS
  a = a
  b = b
  Hosts = {a, b}
  FilterLists <- MCFilterLists
  ReplaceLists <- MCReplaceLists
  Requests = {r1}
  Capacity <- MCCapacity
  None = none
  Changes = 3
SPECIFICATION Spec
INVARIANTS
  TypeOK
  CoveredStays
  UndisturbedIsRuled
  BlindHasCause
CHECK_DEADLOCK FALSE
