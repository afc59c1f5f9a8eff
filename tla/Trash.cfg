SPECIFICATION Spec
CONSTANTS
  w1 = w1
  w2 = w2
  a = a
  b = b
  outside = outside
  Workers <- TwoWorkers
  Paths <- ThreePaths
  Inside <- TwoInside
  NoPath = NoPath
  MaxTokens = 3
  MaxScans = 2
  MaxChanges = 2
SYMMETRY TrashSymmetry
INVARIANT OneMovePerToken
INVARIANT MovesStayInside
INVARIANT LogFollowsMoves
CHECK_DEADLOCK FALSE
