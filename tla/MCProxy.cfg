CONSTANTS
  c1 = c1
  c2 = c2
  w1 = w1
  w2 = w2
  p1 = p1
  Conns <- TwoConns
  Workers <- TwoWorkers
  Ports <- OnePort
  Verbs <- AllVerbs
  Hasty <- AllSocks
  Chatty <- TwoConns
  Free = Free
  Dead = Dead
  Unset = Unset
  MaxFd = 4
  MaxMsgs = 1
  MaxRefused = 1
SPECIFICATION Spec
CHECK_DEADLOCK FALSE
INVARIANTS ExclusiveDescriptors AnswersTheAsker LosesAsCounted
PROPERTY ImplementsRelay
SYMMETRY Symmetry
