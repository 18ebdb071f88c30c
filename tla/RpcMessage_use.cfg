CONSTANTS
  Objs = {x, y}
  IdRange = 256
  CallIds <- SmallIds
  Errors = {4}
  TextSizes = {0, 128}
  UserSets <- SmallSets
  PeerWires <- SmallWires
  MaxOps = 2
SPECIFICATION Spec
INVARIANTS TypeOK NoStaleValue RoundTrip SpaceExact OwnUnderstood LastValueWins
CHECK_DEADLOCK FALSE
