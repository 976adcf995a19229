CONSTANTS
  l1 = l1
  l2 = l2
  w1 = w1
  w2 = w2
  fd1 = fd1
  fd2 = fd2
  Producers <- MCProducers
  Consumers <- MCConsumers
  Items <- MCItems
  NoItem = NoItem
  NoThread = NoThread
  MaxLen = 2
SPECIFICATION Spec
INVARIANTS TypeOK LockProtectsQueue NoLostWakeup ReadIsPopped
PROPERTY ImplementsFifo
