CONSTANTS
  N = 5
  MaxBytes <- MCMaxBytes
  Room = 2
SPECIFICATION Spec
CHECK_DEADLOCK FALSE
INVARIANTS TypeOK FirstLap PendingIsWatched EofAfterDelivery
PROPERTY Delivers
