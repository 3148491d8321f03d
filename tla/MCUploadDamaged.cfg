\* FileOp.cpp: a failed upload deletes the damaged file.
CONSTANTS
  s1 = s1  s2 = s2  s3 = s3  i1 = i1  i2 = i2  i3 = i3
  Session = {s1, s2}
  Inode = {i1, i2}
  None = None
  Hole = Hole
  MaxChunks = 1
  MaxOffset = 0
  Exclusive = {}
SPECIFICATION Spec
SYMMETRY Symmetry
PROPERTY DeletesOnlyDamaged
CHECK_DEADLOCK FALSE
