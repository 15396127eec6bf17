SPECIFICATION FairSpec
CONSTANTS
  Calls = {a}
  Hosts = {h1, h2}
  Plain = plain
  Conns = {c1, c2}
  MaxRedirects = 2
  Follow = {TRUE, FALSE}
  Methods = {"POST", "HEAD"}
  Codes = {200, 301, 303, 307}
  Hinted = {0}
  Parts = 2
  MaxRuns = 1
  NoConn = noconn
  NoReply = noreply
  NoLocation = nolocation
INVARIANTS
  OwnHost
  BodyWithMethod
PROPERTIES
  CallsEnd
CHECK_DEADLOCK FALSE
