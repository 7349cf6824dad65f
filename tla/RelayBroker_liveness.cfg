SPECIFICATION FairSpec
CONSTANTS
  Conn = {c1, c2}
  Req = {q1}
  NoConn = NoConn
  NoReq = NoReq
  MaxInflight = 1
  Buffer = 1
  MaxMore = 2
PROPERTIES
  RelayMakesProgress
CHECK_DEADLOCK FALSE
