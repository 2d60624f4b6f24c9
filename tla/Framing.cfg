SPECIFICATION FairSpec
CONSTANTS
  Client = {1,2}
  Guest = {3}
  Comm = Comm
  MaxSend = 3
INVARIANTS TypeOK OwnMessages InOrder
PROPERTIES Handled
CHECK_DEADLOCK FALSE
