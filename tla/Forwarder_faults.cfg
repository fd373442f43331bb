SPECIFICATION Spec
CONSTANTS
  k1 = k1
  k2 = k2
  t1 = t1
  t2 = t2
  Keys <- MCKeys
  Targets <- MCTargets
  NoKey = NoKey
  NoTarget = NoTarget
  MaxFaults = 1
  MaxCrashes = 2
  MaxStops = 1
SYMMETRY MCSymmetry
INVARIANT TypeOK ListedIsInstalled StartWipesInherited CloseLeavesNothing NoOrphanRule
PROPERTY ImplementsRouteTable
