SPECIFICATION Spec
CONSTANTS
  NoSnap = NoSnap
  NoKernel = NoKernel
  Order <- MangleThenFilter
  Fallback = "filter"
  BaseName = "FORWARD"
  Own = "KERTICAL-FORWARD"
  OwnRules <- Established
  Keys = {"tcp80", "udp80", "tcp81"}
  Fwd <- Forwardings
  Probes <- AllForwardings
  OtherPrograms <- Programs
  MaxOtherRules = 1
  MaxCalls = 3
  MaxRestarts = 1
INVARIANT TypeOK NotRepeated ListedIsRedirected
PROPERTY UndisturbedCommits CleanUpIsExact StructureSteers OthersUntouched
CHECK_DEADLOCK FALSE
