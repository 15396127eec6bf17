SPECIFICATION FairSpec
CONSTANTS
  Conn = conn
  Reads = {r1, r2}
  Writes = {w1, w2}
  Closes = {k}
  Timed = {conn, r1, w1}
  Reissue = FALSE
  MaxData = 1
  NoOp = noop
  Dtor = dtor
INVARIANTS
  TimeoutOnlyWithDeadline
PROPERTIES
  TimedOpsSettle
  DestroyFinishes
CHECK_DEADLOCK FALSE
