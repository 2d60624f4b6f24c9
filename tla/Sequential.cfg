SPECIFICATION SequentialSpec
CONSTANTS
  Name = {n1, n2, n3, n4, n5}
  MaxNames = 4
  Writer = {client, window}
  Instant <- Instants
  NoStamp = NoStamp
  NoList = NoList
  MaxLines = 3
CHECK_DEADLOCK FALSE
INVARIANTS LoopIsPull FilterIsInterval
