SPECIFICATION Spec
CONSTANTS
  Task = {t1, t2}
  Dispatcher = {}
  NoTask = NoTask
  MaxRun = 3
  MaxAttempts = 0
INVARIANT
  ReadyIsUnblocked
CHECK_DEADLOCK FALSE
