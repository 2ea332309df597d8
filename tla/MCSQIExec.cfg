SPECIFICATION FairSpec
CONSTANTS
  w1 = w1   b1 = b1  tty = tty  script = script
  Waits <- MCWaits
  Bgs <- MCBgs
  TTY = tty
  Script = script
  MaxLines = 2
  MaxPrints = 1
  PipeSize = 1
  NULL = NULL
CHECK_DEADLOCK FALSE
INVARIANTS
  TypeOK
  OutputExact
  DescriptorsRestored
PROPERTIES
  CallsReturn
