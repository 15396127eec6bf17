SPECIFICATION Spec
CONSTANTS
  Conn = conn
  Reads = {r1, r2}
  Writes = {w1}
  Closes = {k}
  Timed = {conn, r1, w1}
  Reissue = TRUE
  MaxData = 2
  NoOp = noop
  Dtor = dtor
INVARIANTS
  RefcountsUnderGil
CHECK_DEADLOCK FALSE
