SPECIFICATION MCSpec
CONSTANTS
  Threads = {t1, t2}  Prefs <- MCPrefs  Default = "none"  Size <- MCSize  NoPref = "no choice"
  Faults <- AllFaults  MaxChooses = 3  MaxRestarts = 1
  CleanupPlans <- MCCleanup  LooksLikeARow <- MCRows  ItemsOf <- MCItems  Reports <- MCReports
  Registered <- MCRegistered  DefaultOrder <- MCDefaultOrder  Offers <- MCOffers
  Supported <- MCSupported  Versions <- MCVersions
  MaxAsks = 1  MaxInstalls = 2
INVARIANTS FileIsWhole KeptPromise ResolvesHonestly RunsWhatWasReviewed PreviewsAreWhole OutcomesAreHonest
CHECK_DEADLOCK FALSE
