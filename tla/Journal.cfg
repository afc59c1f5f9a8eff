SPECIFICATION UndoSpec
CONSTANTS
  Terminal = {trashed, cleaned, uninstalled}
  Faults <- AllFaults
  MaxItems = 3
  MaxRestarts = 2
  Requests = {r1, r2}
  MaxUndos = 2
CONSTRAINT Bounded
SYMMETRY Symmetry
INVARIANTS IdsInOrder UndoneIsTrue LossIsBounded RestoredIsMarked
CHECK_DEADLOCK FALSE
