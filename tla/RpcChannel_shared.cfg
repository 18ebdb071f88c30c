CONSTANTS
  t1 = t1
  t2 = t2
  a = a
  b = b
  c1 = c1
  c2 = c2
  c3 = c3
  c4 = c4
  NoCall = NoCall
  NoThread = NoThread
  Threads = {t1, t2}
  Channels = {a}
  Calls = {c1, c2, c3}
  Caller <- SharedCaller
  Chan <- SharedChan
  Loop <- SharedLoop
  MaxInt = 2
SPECIFICATION FairSpec
INVARIANTS TypeOK OneOwner CompletedByOwnReply NoOrphan CollisionNeedsRace
PROPERTIES ImplementsCalls CallReturns ReplyHandled
CHECK_DEADLOCK FALSE
