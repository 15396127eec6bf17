SPECIFICATION FairSpec
CONSTANTS
  NoLength = nolength
  Bytes <- BodyBytes
  SizeToken <- Sizes
  Responses <- AllResponses
INVARIANTS
  BodyIsPrefix
  CompleteIsExact
  LastByteCompletes
  RefusalsAreRight
  EarlyEof
PROPERTIES
  FeedReturns
CHECK_DEADLOCK FALSE
