SPECIFICATION FairSpec
CONSTANTS
  Kinds = {"cleanup", "uninstall", "optimize"}
  w1 = w1
  w2 = w2
  Workers <- TwoWorkers
  NoWorker = NoWorker
  Lifetime = 1
  MaxPreviews = 2
  MaxTokens = 2
  MaxTime = 1
  MaxVersion = 2
INVARIANTS TokensNameLatest OneRunPerReview JournalFollowsRuns
PROPERTIES KeepsPromise SlotsFreed
CHECK_DEADLOCK FALSE
