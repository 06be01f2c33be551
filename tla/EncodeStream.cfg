SPECIFICATION FairSpec
CONSTANTS
  Data <- MCData
  MicroData <- MCMicro
  Levels = {0, 3}
  VMax = 40
  MVMax = 4
  Estimated <- MCEstimated
  Encoded <- MCEncoded
  Encodable <- MCEncodable
  DataLength <- QRspec_getDataLength
  DataLengthBit <- MQRspec_getDataLengthBit
  Requests = {0, 9, 26}
  MaxEncodes = 2
  Marks = {1, 9, 26, 40}
  MarkLevels = {0}
INVARIANTS TypeOK StreamFillsSymbol RefusedOnlyIfTooLarge SmallestSufficientVersion
PROPERTIES SearchOnlyRises EncodeEnds
CHECK_DEADLOCK FALSE
