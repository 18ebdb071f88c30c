CONSTANTS
  MaxMessageLen = 9
  TagWord = 1000
  OtherTag = 1001
  Sizes = {0, 1, 2}
  Faults = {"none", "checksum", "tag", "protobuf"}
  Linked = TRUE
  MaxFrames = 3
SPECIFICATION FairSpec
INVARIANTS TypeOK InOrder RefusalExplained
PROPERTIES ImplementsStream GoodDelivered
CHECK_DEADLOCK FALSE
