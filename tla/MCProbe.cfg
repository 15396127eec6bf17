SPECIFICATION FairSpec
CONSTANTS
  Classical = {x25519, secp256r1}
  X25519 = x25519
  Servers <- AllHosts
  MaxAddr = 2
INVARIANTS
  NothingLeftBehind
  VerdictIsTrue
PROPERTIES
  ProbeEnds
CHECK_DEADLOCK FALSE
