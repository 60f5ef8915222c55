SPECIFICATION Spec
CONSTANTS
  b1 = b1
  b2 = b2
  b3 = b3
  main = main
  Tasks = {1, 2, 3}
  OpTasks = {3}
  Branches <- MCBranches
  Base = main
  WorkBranch <- OwnBranch
  DefaultReview = 1
  DefaultRepair = 2
  Caps = {0, 1}
  Maintenance = FALSE
  Contracts = {"commit"}
  MaxFaults = 1
  MaxEdits = 1
  MaxCfg = 1
  MaxEvents = 1
INVARIANTS
  TypeOK
  CandidateIntact
  PublishedWasApproved
  CompletedMeansCommitted
  ApprovedIsPublishable
  LaunchBudget
PROPERTIES
  OwnerEditSurvives
