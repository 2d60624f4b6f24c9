SPECIFICATION Spec
CONSTANTS
  Thread = {t1, t2}
  Comm = comm
  Main = main
  NoThread = NoThread
  User = {alice, bob, carol}
  NoUser = NoUser
  MaxNode = 3
  MaxLogin = 3
INVARIANTS TypeOK ListShape WalkOffCause InsertedIsNew WalkComplete
PROPERTIES RosterSpec
SYMMETRY Symmetry
CHECK_DEADLOCK FALSE
