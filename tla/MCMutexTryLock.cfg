SPECIFICATION Spec
CONSTANTS
  t1 = t1
  t2 = t2
  t3 = t3
  NULL = NULL
  Tasks <- MCTasks
  Succ <- MCSucc
  Orphans = FALSE
INVARIANT NoLeakedLock
