CONSTANTS
  a = a
  b = b
  c = c
  Null = Null
  Char <- MCChar
  BufferSize = 2
  Wires <- MCWires
  Streams <- MCStreams
SPECIFICATION HttpSpec
CHECK_DEADLOCK FALSE
INVARIANTS TypeOK BuffersThere DeliveredAsSent AnnouncedAsSent
           NothingMissed NothingAfterClose FailsForCause
PROPERTY ImplementsCalls
