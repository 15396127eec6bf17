SPECIFICATION FairSpec
CONSTANTS
  Targets <- MCTargets
  Inputs <- MCInputs
  Blank = Blank
  Bad = Bad
  NoHost = NoHost
  NoPort = NoPort
  Concurrency = 2
INVARIANTS
  ScanInv
  EachTargetOnce
  NoTaskLeft
  ExitIsTrue
  ShownInOrder
PROPERTIES
  NeverStuck
CHECK_DEADLOCK FALSE
