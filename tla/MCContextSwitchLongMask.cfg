SPECIFICATION Spec
CONSTANTS
  t1 = t1
  t2 = t2
  t3 = t3
  v1 = v1
  v2 = v2
  Main = Main
  NULL = NULL
  Entry = Entry
  Torn = Torn
  Tasks <- MCTwo
  Values <- MCValues
  TornWindow = FALSE
  LongMask = TRUE
INVARIANT ContextsKept
