SPECIFICATION Spec
CONSTANTS
  a = a  b = b  l = l  m = m
  local = local  tree = tree
  v = v  p = p
  Obj <- MCObj
  Lists <- MCLists
  Heaps <- MCHeaps
  EternalHeaps <- MCEternal
  Vars <- MCVars
  Args <- MCArgs
  MaxLen = 2
  NULL = NULL
SYMMETRY MCSymmetry
INVARIANTS
  TypeOK
  NoDangling
  RefExact
  NoDoubleDelete
PROPERTIES
  EternalSurvives
