SPECIFICATION Spec
CONSTANTS
  NDisks = 3
  NBackups = 2
  Packager <- TwoTars
  MaxFaults = 2
INVARIANTS TypeOK OverlayHasPendingFile FrozenWhileCopied CompleteMeansWhole
PROPERTY ImplementsChain
\* All the backups may be taken and cleaned.
CHECK_DEADLOCK FALSE
