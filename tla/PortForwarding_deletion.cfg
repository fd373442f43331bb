SPECIFICATION FairSpec
CONSTANTS
  n1 = n1
  n2 = n2
  pf1 = pf1
  pf2 = pf2
  h1 = h1
  h2 = h2
  NoHosts = NoHosts
  Nodes <- TwoNodes
  PFs <- OnePF
  Specs <- OnePort
  Targets <- OneTarget
  Backend = "pure-go"
  CacheLag = TRUE
  MaxEdits = 2
  MaxFaults = 0
  MaxCrashes = 1
PROPERTY DeletionCompletes
PROPERTY ReleasedNodesAreClean
CHECK_DEADLOCK FALSE
