SPECIFICATION UndoSpec
CONSTANTS
  Terminal = {trashed, cleaned, uninstalled}
  Faults <- TornFaults
  MaxItems = 2
  MaxRestarts = 1
  Requests = {r1, r2}
  MaxUndos = 1
INVARIANT ReceiptsAreDurable
CHECK_DEADLOCK FALSE
