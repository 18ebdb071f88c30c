CONSTANTS
  MaxStarts = 8
  QuitPlaces = {"connect", "read", "write", "event", "none"}
SPECIFICATION FairSpec
INVARIANTS FreedOnceWhileRunning NoneLeaked
PROPERTIES RunEnds
CHECK_DEADLOCK FALSE
