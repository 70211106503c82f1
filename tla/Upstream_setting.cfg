CONSTANTS
  Requests = {r1, r2, r3}
  Uris = {a, b}
  Changes = 2
SPECIFICATION Spec
SYMMETRY Symmetry
INVARIANT SettingIsUsed
CHECK_DEADLOCK FALSE
