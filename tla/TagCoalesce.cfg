\* Two small classes, callers that store look-alike tags
SPECIFICATION Spec
CONSTANTS
  ARENA_WORDS = 10
  SMALL_MAX = 2
  FREE_BIT = 64
  ArenaBase = 4
  RequestBytes <- TaggingBytes
  UserWords <- ForgedTag
INVARIANTS
  OwnersMatch
  NoAdjacentFree
PROPERTIES
  ImplementsRawHeap
CHECK_DEADLOCK FALSE
