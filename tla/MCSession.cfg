\* Two lines in flight, two pieces of data: progress, then a stall.
CONSTANTS
  MaxInput = 2
  MaxChunks = 2
SPECIFICATION FairSpec
INVARIANTS NoBug Watched
PROPERTIES TransferEnds ImplementsDialogue
CHECK_DEADLOCK FALSE
