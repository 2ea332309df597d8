SPECIFICATION Spec
CONSTANTS
  resized = resized  invoked = invoked  item = item
  f = f  g = g  b = b  c1 = c1  c2 = c2
  Hooks <- MCHooks
  Direct <- MCWindow
  Menus <- MCItems
  Fresh <- MCWindow
  Nodes <- MCNodes
  Blocks <- MCBlocks
  Calls <- MCCalls
  Extra = e
  MaxRef = 4
  NULL = NULL
CHECK_DEADLOCK FALSE
SYMMETRY MCSymmetry
INVARIANTS
  TypeOK
  NothingStale
  CountsCover
  WindowInputs
