SPECIFICATION FewJobsFairSpec
CONSTANTS
  Job = {daily, reminder, pkg}
  Once = {reminder}
  Package = {pkg}
  Anchored = {daily, reminder}
  Scheduler = {s1, s2}
  Idle = Idle
  Now = Now
  Slots = 1
  MaxRun = 2
  MaxMishap = 2
INVARIANTS
  OneRunnerUnlessOverrun
  RepeatsAreExplained
  RefusedOnlyAfterLostWrite
PROPERTIES
  LastRunMovesForward
  JobKeepsRunning
CHECK_DEADLOCK FALSE
