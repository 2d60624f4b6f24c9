SPECIFICATION FairSpec
CONSTANTS
  Thread = {t1, t2}
  Name = {alice, bob}
  NoName = NoName
  MaxFd = 3
  MaxConn = 3
  MaxFailed = 0
INVARIANTS ReservationsHeld
PROPERTIES LostToRobber ReservationsReleased
CHECK_DEADLOCK FALSE
