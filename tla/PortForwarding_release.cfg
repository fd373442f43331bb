SPECIFICATION Spec
CONSTANTS
  n1 = n1
  n2 = n2
  pf1 = pf1
  pf2 = pf2
  h1 = h1
  h2 = h2
  NoHosts = NoHosts
  Nodes <- TwoNodes
  PFs <- OnePF
  Specs <- OnePort
  Targets <- OneTarget
  Backend = "nftables"
  CacheLag = FALSE
  MaxEdits = 3
  MaxFaults = 0
  MaxCrashes = 0
PROPERTY ReleasedWhenAllCleared
CHECK_DEADLOCK FALSE
