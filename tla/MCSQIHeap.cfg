SPECIFICATION FairSpec
CONSTANTS
  a = a  lst1 = lst1  lst2 = lst2
  local = local  global = global  tree = tree
  var = var  slot = slot
  Obj <- MCObj
  Lists <- MCLists
  Heaps <- MCHeaps
  EternalHeaps <- MCEternal
  Vars <- MCVars
  Args <- MCArgs
  MaxLen = 2
  NULL = NULL
INVARIANTS
  TypeOK
  WellLinked
  GCCompleteUnlessStale
PROPERTIES
  ImplementsObject
  WalksEnd
