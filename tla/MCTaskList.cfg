SPECIFICATION FairSpec
CONSTANTS
  t1 = t1
  t2 = t2
  t3 = t3
  t4 = t4
  NULL = NULL
  Tasks <- MCTasks
  Allowed = {}
INVARIANTS ListInv NoTaskLost CTaskValid
PROPERTIES RemovedStaysOff ImplementsReadyQueue EveryoneGetsATurn
