SPECIFICATION FairSpec
CONSTANTS
  Date <- Winter2018
  Keep <- Mixed
  Packager <- AllPackagers
  MaxFaults = 1
INVARIANTS TypeOK ExactlyOutdated KeptStaysKept
PROPERTY BrokenGoes
