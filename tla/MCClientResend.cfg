SPECIFICATION Spec
CONSTANTS
  Calls = {a, b}
  Hosts = {h1}
  Plain = plain
  Conns = {c1, c2, c3}
  MaxRedirects = 0
  Follow = {TRUE}
  Methods = {"POST"}
  Codes = {200}
  Hinted = {}
  Parts = 1
  MaxRuns = 3
  NoConn = noconn
  NoReply = noreply
  NoLocation = nolocation
SYMMETRY Symmetry
INVARIANTS
  NonIdempotentOnce
CHECK_DEADLOCK FALSE
