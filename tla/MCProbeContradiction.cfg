SPECIFICATION Spec
CONSTANTS
  Classical = {x25519, secp256r1}
  X25519 = x25519
  Servers <- AllHosts
  MaxAddr = 2
INVARIANTS
  NeverContradicts
CHECK_DEADLOCK FALSE
