CONSTANTS
  c1 = c1
  c2 = c2
  w1 = w1
  w2 = w2
  p1 = p1
  Conns <- MCConns
  Workers <- MCWorkers
  Table <- MCTable
  Ports <- MCPorts
  Verbs <- MCVerbs
  Hasty <- OneConn
  Chatty <- OneConn
  Free = Free
  Dead = Dead
  Unset = Unset
  MaxFd = 2
  MaxMsgs = 2
SPECIFICATION Spec
CHECK_DEADLOCK FALSE
INVARIANTS EchoesInOrder NothingGoneWhileListening
PROPERTIES HangupFreesWorker ServedOnce NoIdlenessBesideWork
           StuckIsReported ListenerEndKillsAll
