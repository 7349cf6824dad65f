CONSTANTS
  j1 = j1
  r1 = r1
  r2 = r2
  Job = {j1}
  Runtime = {r1, r2}
  Nobody = Nobody
  BatchSize = 1
  MaxAttempt = 6
  MaxMishap = 2
SPECIFICATION LastUncanceledFairSpec
INVARIANTS
  SignalOnlyAfterSettled
  SettledByLatestClaim
  OneWorkerUnlessLeaseLost
  RetriesAreExplained
PROPERTIES
  ImplementsLeasedWork
  EveryJobSettles
