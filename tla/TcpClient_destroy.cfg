CONSTANTS
  MaxStarts = 1
  QuitPlaces = {"read"}
SPECIFICATION Spec
INVARIANTS CleanDestruction
CHECK_DEADLOCK FALSE
