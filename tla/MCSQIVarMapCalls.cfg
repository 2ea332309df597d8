SPECIFICATION FairSpec
CONSTANTS
  s = s  t = t  x = x  y = y  v1 = v1  v2 = v2  o1 = o1  o2 = o2  true = true
  Threads <- MCTwo
  Keys <- MCOneKey
  Vars <- MCOneVar
  Objs <- MCOneObj
  True = true
  Events <- MCGetErase
  Outputs <- MCAllOutputs
  Waiting = FALSE
  MaxDepth = 2
  NULL = NULL
CHECK_DEADLOCK FALSE
INVARIANTS
  NoStaleUse
PROPERTIES
  CallsReturn
