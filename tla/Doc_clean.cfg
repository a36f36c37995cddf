SPECIFICATION Spec
CONSTANTS
  NDisks = 1
  NBackups = 1
  Packager <- OneZstd
  MaxFaults = 1
INVARIANT CleanLeavesNothing
\* All the backups may be taken and cleaned.
CHECK_DEADLOCK FALSE
