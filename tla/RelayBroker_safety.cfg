SPECIFICATION Spec
CONSTANTS
  Conn = {c1, c2}
  Req = {q1, q2}
  NoConn = NoConn
  NoReq = NoReq
  MaxInflight = 1
  Buffer = 2
  MaxMore = 1
SYMMETRY Symmetry
INVARIANTS
  EndingNeverPanics
  NoSilentEnd
  EveryWaiterCanEnd
  LatestConnectionServes
  NobodyBlocks
CHECK_DEADLOCK FALSE
