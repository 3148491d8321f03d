SPECIFICATION FairSpec
CONSTANTS
  Confs <- MCConfs
  MaxChunks = 2
INVARIANTS Coherent DataKept
 
CHECK_DEADLOCK FALSE
