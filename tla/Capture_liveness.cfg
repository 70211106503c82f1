CONSTANTS
  Requests = {r1, r2}
  Streams = {s1, s2}
  Cap = 1
  Served = {"sse", "replay"}
SPECIFICATION FairSpec
PROPERTIES
  StopsWhenOff
  SupersededEnds
  SendersReleased
  CapturedIsShown
CHECK_DEADLOCK FALSE
