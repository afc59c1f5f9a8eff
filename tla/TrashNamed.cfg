SPECIFICATION Spec
CONSTANTS
  w1 = w1
  w2 = w2
  a = a
  b = b
  outside = outside
  Workers <- TwoWorkers
  Paths <- ThreePaths
  Inside <- TwoInside
  NoPath = NoPath
  MaxTokens = 2
  MaxScans = 2
  MaxChanges = 1
SYMMETRY TrashSymmetry
INVARIANT MovesWhatWasNamed
CHECK_DEADLOCK FALSE
