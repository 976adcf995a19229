CONSTANTS
  N = 4
  MaxBytes <- MCMaxBytes
  Room = 1
SPECIFICATION Spec
CHECK_DEADLOCK FALSE
INVARIANT InOrderDelivery
