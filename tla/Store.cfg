SPECIFICATION Spec
CONSTANTS
  Instances = {i1, i2}
  Nobody = nobody
  Texts <- AllTexts
  Typed <- TypedNames
  Lists <- WrittenLists
  Entered <- SomeNumbers
  Sizes <- SomeSizes
  MaxProfiles = 3
  MaxEdits = 2
  MaxFaults = 1
  MaxLaunches = 2
INVARIANTS NamesDistinct ChangesKept DiskAgrees
PROPERTY RestartSeesSaved
CHECK_DEADLOCK FALSE
SYMMETRY Alike
