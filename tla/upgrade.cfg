SPECIFICATION USpec
CONSTANTS
  lc <- LowerCase
  spell <- Spellings
  Asked <- Asks
  GUID <- GuidBytes
  Sample <- SampleKey
  Published <- SampleAccept
  HsChunk = 6
  HsLimit = 55
INVARIANTS Understood Padded AcceptMatches Base64Decodes
CHECK_DEADLOCK FALSE
