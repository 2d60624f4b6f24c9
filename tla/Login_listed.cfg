SPECIFICATION Spec
CONSTANTS
  Thread = {t1, t2}
  Name = {alice, bob}
  NoName = NoName
  MaxFd = 4
  MaxConn = 4
  MaxFailed = 1
INVARIANTS GreetedListed
CHECK_DEADLOCK FALSE
