SPECIFICATION Spec
CONSTANTS
  NDisks = 1
  NBackups = 2
  Forms <- OneForm
  MaxCommands = 1
  MaxOthers = 0
  MaxFaults = 0
PROPERTY LastIsExtracted
\* Every process ends.
CHECK_DEADLOCK FALSE
