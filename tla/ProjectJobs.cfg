SPECIFICATION Spec
CONSTANTS
  j1 = j1
  j2 = j2
  board = board
  Job = {j1, j2}
  Ticket = {board}
  TicketOf <- OneTicket
  MaxApprovals = 2
SYMMETRY Symmetry
VIEW AllButTheTicket
INVARIANTS
  OneAttempt
  ProcessesAreExplained
  RunningJobHasOwner
CHECK_DEADLOCK FALSE
