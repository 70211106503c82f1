\* Four handshakes for at most two names, overlapping in every way.
CONSTANTS
  Handshakes = {h1, h2, h3, h4}
  Names = {m, n}
  NoCert = NoCert
SPECIFICATION Spec
SYMMETRY Symmetry
INVARIANTS
  TypeOK
  SerialsGrow
  MadeOnce
  GetsItsName
CHECK_DEADLOCK FALSE
