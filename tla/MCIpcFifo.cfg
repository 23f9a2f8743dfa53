SPECIFICATION Spec
CONSTANTS
  Tasks = {t1, t2, t3}
  NULL = NULL
  Items = {x, y}
  Garbage = Garbage
  Size = 2
  MaxItems = 3
  Locked = TRUE
SYMMETRY Perms
INVARIANTS FifoInv CheckedCallsSucceed
PROPERTIES ImplementsQueue
