SPECIFICATION FairSpec
CONSTANTS
  NoTimeout = NoTimeout
  Infinite = Infinite
  NotANumber = NotANumber
  NoCa = NoCa
  MaxMs = 5
  Uses <- MCUses
  Peers <- MCPeers
  Fds = {3, 4}
  Bundles = {"certifi", "private"}
  DefaultCa = "certifi"
  Timeouts <- MCTimeouts
  MaxBytes = 3
  MaxStops = 1
INVARIANTS
  DescriptorsAccounted
  SameTrust
  StreamInOrder
PROPERTIES
  LateAnswers
  NeverClosesOthers
  DeadlineHonoured
CHECK_DEADLOCK FALSE
