SPECIFICATION FairSpec
CONSTANTS
  n1 = n1
  n2 = n2
  pf1 = pf1
  pf2 = pf2
  h1 = h1
  h2 = h2
  NoHosts = NoHosts
  Nodes <- OneNode
  PFs <- OnePF
  Specs <- TwoPorts
  Targets <- ThreeTargets
  Backend = "nftables"
  CacheLag = FALSE
  MaxEdits = 3
  MaxFaults = 1
  MaxCrashes = 1
INVARIANT ReadyIsActive
PROPERTY Converges
CHECK_DEADLOCK FALSE
