\* Three records against a channel of one, two overlapping pages.
CONSTANTS
  Requests = {r1, r2, r3}
  Streams = {s1, s2}
  Cap = 1
  Served = {"http", "websocket", "direct"}
SPECIFICATION Spec
SYMMETRY Symmetry
INVARIANTS
  TypeOK
  ShownInOrder
  ShownOnce
  ShowsOnlyCaptured
  RecordedBeforeReply
PROPERTY FeedSpec
CHECK_DEADLOCK FALSE
