CONSTANTS
  Issues = {1}
  Cancellers = {c1}
  MaxTasks = 2
  MaxEvents = 2
SPECIFICATION FairSpec
CHECK_DEADLOCK FALSE
INVARIANTS
  OneTaskPerIssue
  CancelIsFinal
  TruthfulLedger
PROPERTIES
  NeverLost
  Answered
