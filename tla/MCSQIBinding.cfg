SPECIFICATION BindSpec
CONSTANTS
  b1 = b1  b2 = b2  b3 = b3  c1 = c1  c2 = c2  c3 = c3
  Blocks <- MCBlocks
  Calls <- MCCalls
  Modes <- MCGet
  Extras <- MCExtra
  None = None
INVARIANTS
  BindTypeOK
  LastBindingRuns
  BindingsCounted
