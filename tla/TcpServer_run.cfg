CONSTANTS
  f1 = f1
  f2 = f2
  f3 = f3
  N = 2
  Fds = {f1, f2, f3}
  PipeCap = 2
  MaxQuits = 3
  ExitCode = ExitCode
  Nobody = Nobody
  Main = Main
  o1 = o1
  Others = {o1}
  HeadNode = HeadNode
  TailNode = TailNode
  Null = Null
SPECIFICATION FairSpec
INVARIANTS TypeOK QueuesIntact OnePlace PicksLeastLoaded NoneLeftBehind ToldBeforeFreed
PROPERTIES QuitEnds HandedTaken AcceptReturns ExitNoticed
CHECK_DEADLOCK FALSE
