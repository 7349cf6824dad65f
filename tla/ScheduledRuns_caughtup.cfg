SPECIFICATION FairSpec
CONSTANTS
  Job = {daily}
  Once = {}
  Package = {}
  Anchored = {daily}
  Scheduler = {s1, s2}
  Idle = Idle
  Now = Now
  Slots = 1
  MaxRun = 2
  MaxMishap = 1
PROPERTIES
  MissedRunIsCaughtUp
CHECK_DEADLOCK FALSE
