CONSTANTS
  Kinds <- Known
  MaxTools = 2
  MaxRetries = 1
  Cap = 1
SPECIFICATION FairSpec
PROPERTY DrainEnds
CHECK_DEADLOCK FALSE
