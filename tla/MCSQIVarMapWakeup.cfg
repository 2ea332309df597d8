SPECIFICATION Spec
CONSTANTS
  s = s  t = t  x = x  y = y  v1 = v1  v2 = v2  o1 = o1  o2 = o2  true = true
  Threads <- MCTwo
  Keys <- MCOneKey
  Vars <- MCVars
  Objs <- MCOneObj
  True = true
  Events <- MCNone
  Outputs <- MCAllOutputs
  Waiting = TRUE
  MaxDepth = 2
  NULL = NULL
CHECK_DEADLOCK FALSE
SYMMETRY MCSymmetry
INVARIANTS
  NoLostWakeup
