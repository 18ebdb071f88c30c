CONSTANTS
  MaxMessageLen = 67108864
  TagWord = 1834119267
  OtherTag = 1834119267
  Sizes = {0, 1, 2}
  Faults = {"none"}
  Linked = FALSE
  MaxFrames = 2
SPECIFICATION Spec
INVARIANTS GoodStreamAccepted
CHECK_DEADLOCK FALSE
