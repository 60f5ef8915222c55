CONSTANTS
  Issues = {1}
  Cancellers = {}
  MaxTasks = 2
  MaxEvents = 1
SPECIFICATION FairSpec
CHECK_DEADLOCK FALSE
INVARIANT OneTaskEver
