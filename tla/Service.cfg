SPECIFICATION ClientSpec
CONSTANTS
  r1 = r1
  r2 = r2
  Requests <- TwoRequests
  MaxScans = 2
  MaxProgress = 1
INVARIANT ExitIsClean
PROPERTIES EofExits ResumedOnce
CHECK_DEADLOCK FALSE
