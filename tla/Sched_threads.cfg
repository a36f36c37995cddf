SPECIFICATION FairSpec
CONSTANTS
  vm1 = vm1
  vm2 = vm2
  vm3 = vm3
  NBackups = 3
  Groups <- AllGroups
  CPUs = 2
  MaxInterrupts = 2
  MaxFails = 2
INVARIANTS TypeOK NoneAbandoned FailuresReported SignalledAll OneAtATime DomainsBackOnDisks
PROPERTY GroupEnds
\* The program ends.
CHECK_DEADLOCK FALSE
