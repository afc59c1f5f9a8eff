SPECIFICATION StorageSpec
CONSTANTS
  Shape <- MCShape
  FullName <- MCFullName
  NameRank <- MCRank
  Home <- MCHome
  Bundles <- MCBundles
  Disks <- MCDisks
  Asked <- MCAsked
  Sources <- MCSources
  Locations <- MCLocations
  Vendor <- MCVendor
  Inspected <- MCInspected
  Identified <- MCIdentified
  Largest = 1046752
  MaxRows = 2
  MaxDepth = 6
  MaxConsumers = 1
  MaxInventory = 2
  WalkBudget = 2
  MaxChanges = 1
INVARIANTS ScanIsWhole BytesArePartitioned ListsAgree SizesAreHonest HeadlineIsWhatIsKnown
CHECK_DEADLOCK FALSE
