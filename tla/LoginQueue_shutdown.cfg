SPECIFICATION FairSpec
CONSTANTS
  Thread = {t1, t2}
  MaxConn = 5
PROPERTIES ShutdownTerminates
CHECK_DEADLOCK FALSE
