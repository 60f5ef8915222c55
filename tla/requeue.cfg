SPECIFICATION Spec
CONSTANTS
  b1 = b1
  b2 = b2
  b3 = b3
  main = main
  Tasks = {1}
  OpTasks = {}
  Branches <- MCBranches
  Base = main
  WorkBranch <- OwnBranch
  DefaultReview = 3
  DefaultRepair = 5
  Caps = {0}
  Maintenance = FALSE
  Contracts = {"commit"}
  MaxFaults = 0
  MaxEdits = 0
  MaxCfg = 0
  MaxEvents = 0
PROPERTIES
  RequeueNeedsNewCap
