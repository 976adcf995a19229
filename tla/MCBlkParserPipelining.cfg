CONSTANTS
  Start <- MCStart
  Verbs <- MCVerbs
  Prefix <- MCPrefix
  MaxInt = 99
  BufferLength = 40
  Scripts <- MCPipelined
  Pipelining = TRUE
SPECIFICATION Spec
CHECK_DEADLOCK FALSE
INVARIANT ParsedAsSent
