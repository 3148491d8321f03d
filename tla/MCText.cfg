SPECIFICATION MCFairSpec
CONSTANTS
  Inputs <- MCInputs
  MaxData = 5
  MaxCommands = 5
  MaxText = 4
  ChunkSize = 2
  BufSize = 3
  DirBufsize = 3
  MaxLine = 3
  MaxUpload = 0
  Have = {0}
  Probes <- MCProbes
  VSFTP_MATCHITERS_MAX = 5
  TimeWidth = 4
  MaxDigits = 3
  FileIdSize = 16
  SHA_BLOCKSIZE = 4
  LengthBytes = 2
  MaxFilter = 4
  MaxName = 3
  MaxPath = 4
  MaxMessage = 6
  MaxOps = 3
  Word = 8
  Buckets = 2
  PageSize = 4
INVARIANTS StreamsKept  WrittenAsMeant MemoryHolds
PROPERTY StreamEnds
CHECK_DEADLOCK FALSE
