SPECIFICATION Spec
CONSTANTS
  s = s  t = t  x = x  y = y  v1 = v1  v2 = v2  o1 = o1  o2 = o2  true = true
  Threads <- MCTwo
  Keys <- MCTwoKeys
  Vars <- MCVars
  Objs <- MCTwoObjs
  True = true
  Events <- MCSet
  Outputs <- MCAllOutputs
  Waiting = TRUE
  MaxDepth = 2
  NULL = NULL
CHECK_DEADLOCK FALSE
SYMMETRY MCSymmetry
INVARIANTS
  TypeOK
  MapExact
PROPERTIES
  ResumedByUpdate
