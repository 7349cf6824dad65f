SPECIFICATION Spec
CONSTANTS
  Task = {t1, t2, t3}
  Dispatcher = {d1, d2}
  NoTask = NoTask
  MaxRun = 3
  MaxAttempts = 1
SYMMETRY Symmetry
CONSTRAINT RunsOrLinks
INVARIANTS
  LiveRunsAreExplained
  Acyclic
PROPERTIES
  EndedRunIsFinal
  PromotionIsExact
CHECK_DEADLOCK FALSE
