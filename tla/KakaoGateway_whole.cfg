SPECIFICATION Spec
CONSTANTS
  Message = {m1}
  Conn = {c1}
  NoConn = NoConn
  NoFrame = NoFrame
  Buffer = 1
  MaxParts = 2
  MaxMishap = 0
INVARIANTS
  WholeAnswerArrives
CHECK_DEADLOCK FALSE
