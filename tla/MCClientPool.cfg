SPECIFICATION Spec
CONSTANTS
  Calls = {a, b, c}
  Hosts = {h1}
  Plain = plain
  Conns = {c1, c2, c3, c4}
  MaxRedirects = 0
  Follow = {TRUE}
  Methods = {"HEAD"}
  Codes = {200}
  Hinted = {}
  Parts = 1
  MaxRuns = 3
  NoConn = noconn
  NoReply = noreply
  NoLocation = nolocation
SYMMETRY Symmetry
INVARIANTS
  SingleOwner
  OwnResponse
  PooledIsIdle
  AtMostOneRetry
CHECK_DEADLOCK FALSE
