SPECIFICATION ListSpec
CONSTANTS
  n1 = n1
  n2 = n2
  t1 = t1
  l1 = l1
  l2 = l2
  text1 = text1
  g = g
  x = x
  Nums <- MCNums
  Literals <- MCLiterals
  NumVal <- MCVal
  Lists <- MCLists
  Text <- MCText
  Globals <- MCGlobals
  Locals <- MCLocals
  MaxLen = 2
  MaxStray = 1
  ListsGlobals = FALSE
  IndexLocals = FALSE
  Nil = Nil
SYMMETRY Symmetry
CHECK_DEADLOCK FALSE
INVARIANTS
  ListTypeOK
  ValuesSurvive
  ElementsCounted
