SPECIFICATION FairSpec
CONSTANTS
  b1 = b1
  b2 = b2
  b3 = b3
  main = main
  Tasks = {1, 2}
  OpTasks = {}
  Branches <- MCBranches
  Base = main
  WorkBranch <- OwnBranch
  DefaultReview = 1
  DefaultRepair = 2
  Caps = {1}
  Maintenance = TRUE
  Contracts = {"commit", "none"}
  MaxFaults = 1
  MaxEdits = 0
  MaxCfg = 1
  MaxEvents = 1
INVARIANTS
  ApprovedIsPublishable
PROPERTIES
  ImplementsLock
  Settles
  ApprovedCompletes
