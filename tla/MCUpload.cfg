\* Shipped configuration: anon_other_write_enable=YES, nobody opens exclusively.
\* Liveness is checked too: no symmetry.
CONSTANTS
  s1 = s1  s2 = s2  s3 = s3  i1 = i1  i2 = i2  i3 = i3
  Session = {s1, s2}
  Inode = {i1, i2}
  None = None
  Hole = Hole
  MaxChunks = 2
  MaxOffset = 1
  Exclusive = {}
SPECIFICATION FairSpec
INVARIANTS SpoolHasOwner StoredIsSent
PROPERTIES LockProtectsData Answered
CHECK_DEADLOCK FALSE
