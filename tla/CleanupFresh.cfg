SPECIFICATION Spec
CONSTANTS
  Kinds = {"cleanup"}
  w1 = w1
  w2 = w2
  Workers <- TwoWorkers
  NoWorker = NoWorker
  Lifetime = 1
  MaxPreviews = 2
  MaxTokens = 3
  MaxTime = 1
  MaxVersion = 1
SYMMETRY WorkerSymmetry
INVARIANT FreshDiscovery
CHECK_DEADLOCK FALSE
