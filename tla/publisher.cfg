CONSTANTS
  Tasks = {"t1", "t2"}
  Source <- MCSource
  MaxMain = 2
  MaxEvents = 3
SPECIFICATION FairSpec
CHECK_DEADLOCK FALSE
INVARIANTS
  ProposesOwnCommit
  PublishedOnce
  CompletedMeansPublished
  CheckoutReleased
PROPERTIES
  Completes
