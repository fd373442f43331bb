SPECIFICATION Spec
CONSTANTS
  Manifests <- MCManifests
  ProxyName = "proxy"
INVARIANT ChildrenBuildable StoredIsSettled DefaultsFit
CHECK_DEADLOCK FALSE
