SPECIFICATION FairSpec
CONSTANTS
  r1 = r1
  r2 = r2
  Requests <- TwoRequests
  MaxScans = 2
  MaxProgress = 2
INVARIANTS EndIsLastAndOnce AnswersNameTheirScan
PROPERTIES KeepsScanPromise ScansEnd
CHECK_DEADLOCK FALSE
