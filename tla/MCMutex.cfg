SPECIFICATION FairSpec
CONSTANTS
  t1 = t1
  t2 = t2
  t3 = t3
  NULL = NULL
  Tasks <- MCTasks
  Succ <- MCSucc
  Orphans = FALSE
INVARIANTS MutexInv MutualExclusion InterruptFlagKept
PROPERTIES LockIsReleased FreeLockIsTaken
