SPECIFICATION FairSpec
CONSTANTS
  v = v
  p1 = p1
  p2 = p2
  Configs <- MCConfigs
  Entries = 3
  Ours <- MCOurs
  Pods <- MCPods
  CertList <- MCCertList
  MaxEvents = 4
INVARIANT StaleOnlyIfMissed
PROPERTY WritesOnlyBundles Converges
CHECK_DEADLOCK FALSE
