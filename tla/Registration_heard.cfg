SPECIFICATION FairSpec
CONSTANTS
  Thread = {t1, t2}
  MaxFd = 2
  MaxLogin = 3
  MaxMixed = 3
INVARIANTS TypeOK ThreadForCounted OneThreadEach Heard
PROPERTIES ClosedAfterBye AnsweredAlone
CHECK_DEADLOCK FALSE
