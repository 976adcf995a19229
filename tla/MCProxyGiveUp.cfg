CONSTANTS
  c1 = c1
  c2 = c2
  w1 = w1
  w2 = w2
  p1 = p1
  Conns <- TwoConns
  Workers <- OneWorker
  Ports <- OnePort
  Verbs <- NormalBad
  Hasty <- AllSocks
  Chatty <- TwoConns
  Free = Free
  Dead = Dead
  Unset = Unset
  MaxFd = 3
  MaxMsgs = 2
  MaxRefused = 4
SPECIFICATION Spec
CHECK_DEADLOCK FALSE
INVARIANTS TypeOK StopsOnlyAfterLeak
PROPERTIES ImplementsRelay HangupReleases
