SPECIFICATION Spec
CONSTANTS
  DEFAULT_BUFSIZE = 4
  Nums <- MCNums
  ByteStrings <- MCByteStrings
  Args <- MCArgs
  MaxLength = 12
  MaxSize = 16
INVARIANTS TypeOK BytesHoldStream
PROPERTY ImplementsLog
