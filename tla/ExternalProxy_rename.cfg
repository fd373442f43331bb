SPECIFICATION Spec
CONSTANTS
  svcA = svcA
  svcB = svcB
  ingA = ingA
  ingB = ingB
  NoIngress = NoIngress
  Specs <- Renames
  MaxEdits = 3
  MaxDeletes = 1
  MaxErrors = 1
  LostReplies = FALSE
  MaxCrashes = 0
  MaxPending = 3
  MaxUid = 5
PROPERTY ReadyMeansBuilt
INVARIANT AtMostOneChild
CHECK_DEADLOCK FALSE
