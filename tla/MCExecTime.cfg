SPECIFICATION Spec
CONSTANTS
  Tasks = {t1, t2}
  Period = 4
  Interval = 3
  Wrap = 5
  Counts = 2
  Latency = 1
  MaxTime = 9
SYMMETRY Perms
CHECK_DEADLOCK FALSE
INVARIANTS SliceInv AccountingBounded FullSlice
