SPECIFICATION FairSpec
CONSTANTS
  NDisks = 2
  NBackups = 2
  Packager <- ZstdThenDirectory
  MaxFaults = 2
INVARIANTS PendingRemovedLast CopiesRecorded LeavesAsAssumed
PROPERTIES ImplementsLifecycle BrokenIsCleaned
\* All the backups may be taken and cleaned.
CHECK_DEADLOCK FALSE
