SPECIFICATION FairSpec
CONSTANTS
  NDisks = 2
  HasTimeout = TRUE
  MaxCleans = 2
  MaxOthers = 2
  MaxFaults = 2
INVARIANTS TypeOK InUseExists NothingLost CleanedMeansGone DoneMeansBack
PROPERTIES ReadyIsHeard ImplementsChain CleanEnds Recovers
\* clean() ends, or waits for ever when it has no timeout.
CHECK_DEADLOCK FALSE
