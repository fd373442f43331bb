SPECIFICATION Spec
CONSTANTS
  n1 = n1
  n2 = n2
  pf1 = pf1
  pf2 = pf2
  h1 = h1
  h2 = h2
  NoHosts = NoHosts
  Nodes <- OneNode
  PFs <- TwoPFs
  Specs <- EitherPort
  Targets <- TwoHosts
  Backend = "nftables"
  CacheLag = FALSE
  MaxEdits = 4
  MaxFaults = 1
  MaxCrashes = 0
INVARIANT TypeOK
INVARIANT CleanAfterGuardedDelete
INVARIANT ActiveIsRecorded
INVARIANT ReadyIsActive
SYMMETRY Alike
CHECK_DEADLOCK FALSE
