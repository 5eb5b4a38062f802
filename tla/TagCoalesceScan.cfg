\* No small class: five one-word blocks, so three on the first-fit list
SPECIFICATION FairSpec
CONSTANTS
  ARENA_WORDS = 15
  SMALL_MAX = 0
  FREE_BIT = 64
  ArenaBase = 4
  RequestBytes <- ScanBytes
  UserWords <- NoWords
INVARIANTS
  ListsReachAll
PROPERTIES
  CarveOnlyOnMiss
  RequestEnds
CHECK_DEADLOCK FALSE
