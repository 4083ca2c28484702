SPECIFICATION Spec
CONSTANTS
  AsciiRequests <- LineRequests
  BinaryRequests <- HeaderRequests
  None = None
  ReqsPerEvent = 1
  HeaderTokens = 2
  LongLine = 2
  MaxLine = 3
  Window = 3
  OutCap = 1
INVARIANTS
  TypeOK
  Framing
  OneReplyEach
  RefsRecorded
  AuthFirst
PROPERTIES
  Answered
