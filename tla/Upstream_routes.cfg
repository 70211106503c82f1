\* Three overlapping requests, two proxies, two changes of the setting.
CONSTANTS
  Requests = {r1, r2, r3}
  Uris = {a, b}
  Changes = 2
SPECIFICATION Spec
SYMMETRY Symmetry
INVARIANTS
  TypeOK
  ClearedIsDirect
  StaysProxied
  EmptyClientObeys
CHECK_DEADLOCK FALSE
