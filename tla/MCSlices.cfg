SPECIFICATION FairSpec
CONSTANTS
  Lens = {0, 1, 2, 4, 5, 7}
  SingleSize = 2
  SliceSize = 2
  RangeSize = 2
  BufSize = 5
  Pool = 2
  Cores = 2
  MaxTasks = 3
  MaxFaults = 3
INVARIANT Received
PROPERTIES TransferEnds ImplementsTransfer
CHECK_DEADLOCK FALSE
