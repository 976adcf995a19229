CONSTANTS
  c1 = c1
  c2 = c2
  w1 = w1
  w2 = w2
  p1 = p1
  Conns <- TwoConns
  Workers <- TwoWorkers
  Ports <- OnePort
  Verbs <- NormalTunnel
  Hasty <- NoSocks
  Chatty <- TwoConns
  Free = Free
  Dead = Dead
  Unset = Unset
  MaxFd = 7
  MaxMsgs = 2
  MaxRefused = 4
SPECIFICATION Spec
CHECK_DEADLOCK FALSE
INVARIANT TunnelIsSingleThreaded
SYMMETRY Symmetry
