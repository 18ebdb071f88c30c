CONSTANTS
  w1 = w1
  w2 = w2
  c1 = c1
  c2 = c2
  c3 = c3
  r1 = r1
  r2 = r2
  r3 = r3
  NoConn = NoConn
  Conns = {c1, c2, c3}
  Workers = {w1, w2}
  Worker <- TwoWorkers
  Requests = {r1, r2, r3}
  Asks <- OneEach
  Kind <- Mixed
SPECIFICATION FairSpec
INVARIANTS ReplyToAsker
PROPERTIES AskedAnswered
CHECK_DEADLOCK FALSE
