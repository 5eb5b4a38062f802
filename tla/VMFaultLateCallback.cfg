SPECIFICATION Spec
CONSTANTS
  b1 = b1
  b2 = b2
  Nil = Nil
  Blocks <- MCTwoBlocks
  Slots <- MCTwoSlots
  USER_EXTENT = 2
  DTOR_EXTENT = 1
  TEMP_GROWTH = 0
  StackSize = 11
  StackRedZone = 2
  PollReplies <- MCNoPoll
  HelperCalls = FALSE
  MaxCallbacks = 2
INVARIANT
  NothingLost
