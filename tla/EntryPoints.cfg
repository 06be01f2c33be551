SPECIFICATION FairCallSpec
CONSTANTS
  Inputs <- MCInputs
  Specs <- MCSpecs
  Calls <- MCCalls
  Estimated <- EstimateEntry
  Encoded <- EncodedEntry
  LengthOfCode <- QRinput_lengthOfCode
  DataLength <- QRspec_getDataLength
  DataLengthBit <- MQRspec_getDataLengthBit
  EncodedMQR <- EncodedEntryMQR
  Encodable <- MCEncodable
  VMax = 40
  MVMax = 4
  HeaderSize = 20
  MAX_STRUCTURED_SYMBOLS = 16
  ShortSizes = {4, 23}
  LongSizes = {81, 300}
INVARIANTS TypeOK DataInOrder SymbolsFit SymbolsNotEmpty NoRoomWasted KanjiWhole BlocksOwned ListComplete MicroSmallest
PROPERTY CallReturns
CHECK_DEADLOCK FALSE
