CONSTANTS
  t1 = t1
  t2 = t2
  a = a
  b = b
  c1 = c1
  c2 = c2
  c3 = c3
  c4 = c4
  NoCall = NoCall
  NoThread = NoThread
  Threads = {t1, t2}
  Channels = {a, b}
  Calls = {c1, c2, c3, c4}
  Caller <- OwnCaller
  Chan <- OwnChan
  Loop <- OwnLoop
  MaxInt = 9
SPECIFICATION Spec
INVARIANTS EveryCallKept
CHECK_DEADLOCK FALSE
