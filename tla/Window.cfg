SPECIFICATION FairSpec
CONSTANTS
  n1 = n1
  n2 = n2
  Nodes <- TwoNodes
  Folders <- OneFolder
  MaxScans = 2
  Loads <- TwoLoads
  MaxConfirms = 1
INVARIANTS PageIsWhereAsked DialogNamesItsRow MovesAreConfirmed WorkIsUnderWay
PROPERTIES ScanningEnds RowsSettle
CHECK_DEADLOCK FALSE
