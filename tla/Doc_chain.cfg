SPECIFICATION Spec
CONSTANTS
  NDisks = 1
  HasTimeout = FALSE
  MaxCleans = 1
  MaxOthers = 1
  MaxFaults = 0
INVARIANT ChainUnbroken
\* clean() ends, or waits for ever when it has no timeout.
CHECK_DEADLOCK FALSE
