SPECIFICATION FairSpec
CONSTANTS
  Keys <- FourKeys
  Addresses <- TwoAddresses
  hashFunction <- Collide
  Heap = 2
  Searchers = {"chassis"}
  NoKey = "null"
INVARIANTS IInv NeverAnother FoundOnceIn
PROPERTIES SearchEnds
CHECK_DEADLOCK TRUE
