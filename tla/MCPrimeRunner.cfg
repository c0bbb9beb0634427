SPECIFICATION Spec
CONSTANTS
  MaxFailures = 2
  MaxLaunches = 2
  MaxRecoveries = 1
  MaxTurns = 3
  MaxEffort = 4
  MaxPipe = 4
  MaxTicks = 3
CHECK_DEADLOCK FALSE
INVARIANTS HeardOnce ReceiptsTruthful WokenOnce RoundsAnswered
