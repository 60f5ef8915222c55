CONSTANTS
  Lives = {l1, l2}
  Candidates = {c1, c2}
  Attempts = {1, 2, 3, 4}
  Fingerprints = {f1, f2}
  NoFailure = none
  FixLimits = {0, 2}
  RepeatLimits = {0, 2, 3}
  Before = {0, 1, 2}
SPECIFICATION Spec
CHECK_DEADLOCK FALSE
INVARIANTS
  BoundNeverReached
  ApprovedWasChecked
  OneCandidatePerAttempt
  RepeatedFailureStops
