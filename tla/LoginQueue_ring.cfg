SPECIFICATION ResponsiveSpec
CONSTANTS
  Thread = {t1, t2, t3}
  MaxConn = 7
INVARIANTS TypeOK RingInv
PROPERTIES HandoffSpec EveryConnServed ShutdownTerminates
CHECK_DEADLOCK FALSE
