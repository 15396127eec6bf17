SPECIFICATION Spec
CONSTANTS
  NoLength = nolength
  Bytes <- BodyBytes
  SizeToken <- Sizes
  Responses <- AllResponses
INVARIANTS
  SurfacesRawBytes
CHECK_DEADLOCK FALSE
