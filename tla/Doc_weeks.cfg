SPECIFICATION Spec
CONSTANTS
  Date <- Weeks2018
  Keep <- TwoWeeks
  Packager <- AllPackagers
  MaxFaults = 0
INVARIANT PeriodsKeepOne
