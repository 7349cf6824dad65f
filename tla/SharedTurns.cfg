SPECIFICATION Spec
CONSTANTS
  r1 = r1
  r2 = r2
  r3 = r3
  other = other
  Request = {r1, r2, r3}
  NoRequest = NoRequest
  Caller = {r1, r2, r3, other}
  DailyLimit = 2
  TokensPerDay = 3
  MaxConcurrent = 2
  Estimate = 1
  MaxActual = 2
  MaxDay = 2
  MaxCalls = 1
  MaxMishap = 1
SYMMETRY Symmetry
CONSTRAINT LimitsOrRequests
INVARIANTS
  TypeOK
  OneExecution
  EntriesExpire
  CountersAreTrue
  DailyLimitHolds
CHECK_DEADLOCK FALSE
