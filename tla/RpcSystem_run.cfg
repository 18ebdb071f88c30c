CONSTANTS
  t1 = t1
  a = a
  w1 = w1
  w2 = w2
  c1 = c1
  c2 = c2
  NoCall = NoCall
  NoThread = NoThread
  NoConn = NoConn
  Threads = {t1}
  Channels = {a}
  Calls = {c1, c2}
  Caller <- OneCaller
  Chan <- OneChan
  Loop <- OneLoop
  MaxInt = 2
  MaxStarts = 2
  QuitPlaces = {"read"}
  Conns = {1, 2}
  Workers = {w1, w2}
  Worker <- OwnWorkers
SPECIFICATION SysFairSpec
INVARIANTS EndToEnd SafeInCallbacks
PROPERTIES ImplementsChannel ImplementsServer CallEnds
CHECK_DEADLOCK FALSE
