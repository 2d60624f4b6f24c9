SPECIFICATION FairSpec
CONSTANTS
  Partner = {bob, carol}
  MaxWindow = 3
  MaxMessage = 4
  MaxLine = 3
INVARIANTS TypeOK OneWindowEach LostToClosing
PROPERTIES ClosedUnlisted
CHECK_DEADLOCK FALSE
