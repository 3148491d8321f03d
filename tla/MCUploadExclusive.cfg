\* anon_other_write_enable=NO, anonymous sessions only.
CONSTANTS
  s1 = s1  s2 = s2  s3 = s3  i1 = i1  i2 = i2  i3 = i3
  Session = {s1, s2, s3}
  Inode = {i1, i2, i3}
  None = None
  Hole = Hole
  MaxChunks = 2
  MaxOffset = 1
  Exclusive = {s1, s2, s3}
SPECIFICATION Spec
SYMMETRY Symmetry
INVARIANT ExclusiveStored
CHECK_DEADLOCK FALSE
