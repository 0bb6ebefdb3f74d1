SPECIFICATION Spec
CONSTANTS
  Agreed <- MCAgreed
  Deadline = 1
  MaxTime = 1
  MaxNotes = 2
  MaxTx = 3
  MaxOps = 2
  MaxStray = 2
INVARIANTS  InFlightJournaled SettledOnce
CHECK_DEADLOCK FALSE
