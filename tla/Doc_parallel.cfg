SPECIFICATION Spec
CONSTANTS
  vm1 = vm1
  vm2 = vm2
  vm3 = vm3
  NBackups = 3
  Groups <- OneLookedUp
  CPUs = 2
  MaxInterrupts = 0
  MaxFails = 0
INVARIANT OneAtATime
\* The program ends.
CHECK_DEADLOCK FALSE
