SPECIFICATION FairSpec
CONSTANTS
  Capacity <- OneUnit
  MaxOut <- TwoUnits
  MaxErr <- TwoUnits
  MaxIn <- TwoUnits
INVARIANT NothingLeftBehind
PROPERTIES KeepsRunPromise CancelIsAnswered RunIsAnswered
CHECK_DEADLOCK FALSE
