SPECIFICATION FairSpec
CONSTANTS
  svcA = svcA
  svcB = svcB
  ingA = ingA
  ingB = ingB
  NoIngress = NoIngress
  Specs <- OneService
  MaxEdits = 2
  MaxDeletes = 0
  MaxErrors = 1
  LostReplies = TRUE
  MaxCrashes = 1
  MaxPending = 3
  MaxUid = 8
PROPERTY Converges
INVARIANT TypeOK ExpectationsInFlight
CHECK_DEADLOCK FALSE
