CONSTANTS
  Start <- MCStart
  Verbs <- MCVerbs
  Prefix <- MCPrefix
  MaxInt = 99
  BufferLength = 3
  Scripts <- MCScripts
  Pipelining = FALSE
SPECIFICATION Spec
CHECK_DEADLOCK FALSE
INVARIANTS TypeOK ParserAgrees ParsedAsSent RoundTrip
PROPERTY Answered
