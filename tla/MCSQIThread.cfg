SPECIFICATION FairSpec
CONSTANTS
  t1 = t1  t2 = t2  c = c  d = d  q = q  r = r
  Ids <- MCIds
  Clients <- MCClients
  Squirrels <- MCSquirrels
  NoReturn <- MCNoReturn
  Modes <- MCModes
  Suspends = "unwaited"
  NULL = NULL
  AfterLate = FALSE
CHECK_DEADLOCK FALSE
INVARIANTS
  TypeOK
  NoStaleUse
  SquirrelsOwned
PROPERTIES
  WaitsDeliver
  WaitReturns
