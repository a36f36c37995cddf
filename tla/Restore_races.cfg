SPECIFICATION FairSpec
CONSTANTS
  NDisks = 2
  NBackups = 2
  Forms <- AnyForm
  MaxCommands = 1
  MaxOthers = 1
  MaxFaults = 1
INVARIANTS TypeOK NoPartialLeft
PROPERTIES TheirsKept DoneIsWhole OldIsFound NewestChosen WholeIsRestored
\* Every process ends.
CHECK_DEADLOCK FALSE
