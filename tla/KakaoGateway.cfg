SPECIFICATION InOrderFairSpec
CONSTANTS
  m1 = m1
  m2 = m2
  Message = {m1, m2}
  Conn = {c1, c2, c3}
  NoConn = NoConn
  NoFrame = NoFrame
  Buffer = 1
  MaxParts = 2
  MaxMishap = 1
INVARIANTS
  TypeOK
  CallbackOnce
  SilenceIsExplained
  NoStraySession
PROPERTIES
  DaemonIsReachable
CHECK_DEADLOCK FALSE
