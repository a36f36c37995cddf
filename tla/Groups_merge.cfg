SPECIFICATION Spec
CONSTANTS
  d1 = d1
  d2 = d2
  DisksOf <- TwoDomains
  Targets = {"dir"}
  Packagers = {"tar", "zstd"}
  Configs <- AllConfigs
INVARIANTS TypeOK NoTwoAlike AsAsked
CHECK_DEADLOCK FALSE
