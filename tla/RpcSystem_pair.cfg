CONSTANTS
  t1 = t1
  a = a
  w1 = w1
  w2 = w2
  c1 = c1
  c2 = c2
  NoCall = NoCall
  NoThread = NoThread
  NoConn = NoConn
  Threads = {t1}
  Channels = {a}
  Calls = {c1, c2}
  Caller <- OneCaller
  Chan <- OneChan
  Loop <- OneLoop
  MaxInt = 2
  MaxStarts = 1
  QuitPlaces = {}
  Conns = {1}
  Workers = {w1}
  Worker <- OneWorker
SPECIFICATION SysFairSpec
PROPERTIES CallServed
CHECK_DEADLOCK FALSE
