CONSTANTS
  Messages = 3
  Asks = {1, 3}
  MaxEvents = 2
SPECIFICATION FairSpec
CHECK_DEADLOCK FALSE
INVARIANTS
  OneTaskPerMessage
  LostOnlyByCrash
  ToldOnce
PROPERTIES
  EndTold
