SPECIFICATION Spec
CONSTANTS
  Data <- MCData
  MicroData = {}
  Levels = {0, 3}
  VMax = 40
  MVMax = 4
  Estimated <- MCEstimated
  Encoded <- MCEncoded
  Encodable <- MCEncodable
  DataLength <- QRspec_getDataLength
  DataLengthBit <- MQRspec_getDataLengthBit
  Requests = {0}
  MaxEncodes = 1
INVARIANT SmallestSufficientVersion
CHECK_DEADLOCK FALSE
