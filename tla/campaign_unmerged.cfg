CONSTANTS
  Campaigns = {1}
  Steps = 2
  MaxEvents = 1
SPECIFICATION Spec
CHECK_DEADLOCK FALSE
INVARIANTS
  CompletedMeansMerged
