SPECIFICATION FairSpec
CONSTANTS
  Thread = {t1}
  Comm = comm
  Main = main
  NoThread = NoThread
  User = {alice, bob}
  NoUser = NoUser
  MaxNode = 2
  MaxLogin = 2
PROPERTIES UsersDisplayed
CHECK_DEADLOCK FALSE
