SPECIFICATION Spec
CONSTANTS
  Thread = {t1}
  Name = {alice, bob}
  NoName = NoName
  MaxFd = 3
  MaxConn = 5
  MaxFailed = 1
INVARIANTS TypeOK GreetedListed UniqueNames UsersHaveAccounts
PROPERTIES SessionsSpec
CHECK_DEADLOCK FALSE
