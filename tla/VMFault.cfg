SPECIFICATION FairSpec
CONSTANTS
  b1 = b1
  b2 = b2
  Nil = Nil
  Blocks <- MCTwoBlocks
  Slots <- MCTwoSlots
  USER_EXTENT = 2
  DTOR_EXTENT = 1
  TEMP_GROWTH = 1
  StackSize = 12
  StackRedZone = 4
  PollReplies <- MCPolls
  HelperCalls = TRUE
  MaxCallbacks = 2
INVARIANTS
  CleanupDepthExact
  RefcountsExact
  StackSound
  HostReturnExact
  RedZoneSuffices
PROPERTIES
  UnwindEnds
CHECK_DEADLOCK FALSE
