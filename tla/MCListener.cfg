\* Two addresses, two process ids; one file limits each address, one all of them.
CONSTANTS
  i1 = i1  i2 = i2  p1 = p1  p2 = p2  p3 = p3
  Ip = {i1, i2}
  Pid = {p1, p2}
  None = None
  Limits <- TwoLimits
  Default <- Total
SPECIFICATION FairSpec
INVARIANTS CountsExact WithinLimits
PROPERTY SlotsReturn
