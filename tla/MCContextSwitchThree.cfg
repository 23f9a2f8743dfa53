SPECIFICATION Spec
SYMMETRY MCSymmetry
CONSTANTS
  t1 = t1
  t2 = t2
  t3 = t3
  v1 = v1
  v2 = v2
  Main = Main
  NULL = NULL
  Entry = Entry
  Torn = Torn
  Tasks <- MCTasks
  Values <- MCValues
  TornWindow = TRUE
  LongMask = TRUE
INVARIANTS SwitchInv ContextIntegrity
PROPERTIES ImplementsVirtualCpu HarmAtFirstDispatch
