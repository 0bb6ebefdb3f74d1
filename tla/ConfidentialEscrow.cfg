SPECIFICATION FairEscrow
CONSTANTS
  Agreed <- MCAgreed
  Deadline = 1
  MaxTime = 2
  MaxNotes = 4
INVARIANTS OwnConsent SwapOrReturn
PROPERTIES DeadlineSplits NothingStranded
CHECK_DEADLOCK FALSE
