CONSTANTS
  Campaigns = {1, 2}
  Steps = 2
  MaxEvents = 1
SPECIFICATION FairSpec
CHECK_DEADLOCK FALSE
INVARIANTS
  StepsInOrder
  OnlyAudited
  UndisturbedMeansMerged
PROPERTIES
  ProgressKept
  Finishes
