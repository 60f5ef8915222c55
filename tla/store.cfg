CONSTANTS
  None = none
  Workers = {w1, w2}
  Keys = {k1, k2}
  Revisions = {r1}
  EntryKeys = {"attempt", "notice"}
  TableOf <- MCTableOf
  Events = {e1}
  ActionKeys = {a1, a2}
  Ttls = {1}
  MaxVersion = 1
  MaxClock = 1
  MaxLeases = 2
  MaxDepth = 1
  MaxTransactions = 3
  MaxOperations = 2
SPECIFICATION Spec
CHECK_DEADLOCK FALSE
INVARIANTS
  ClaimedOnce
  LeaseExclusive
PROPERTIES
  ImplementsContract
