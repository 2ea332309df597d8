SPECIFICATION Spec
CONSTANTS
  n1 = n1  n2 = n2
  v = v  w = w  k = k
  Obj <- MCObj
  Val <- MCVal
  Vectors <- MCVectors
  Dico <- MCDico
  MaxSize = 4
  MaxLost = 1
  InCall <- MCInCall
  Past = "capacity"
  NULL = NULL
SYMMETRY MCSymmetry
INVARIANTS
  TypeOK
  CountsExact
  NothingStale
  SortCorrect
