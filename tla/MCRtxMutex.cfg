CONSTANTS
  Thread = {idle, main, a, b}
  Spare = {a, b}
  Idle = idle
  Main = main
  NoThread = NoThread
  Forever = Forever
  RobinTimeout = 0
  Priority = {1, 2}
  IdlePriority = 1
  Timeout = {1}
  Mutex = {p, q}
  M1 = M1
  M2 = M2
  NoMutex = NoMutex
  Recursive = {}
  PrioInherit = {p, q}
  Robust = {}
  LockLimit = 2
  Habits = {"Delete"}
SYMMETRY Symmetry
SPECIFICATION MCSpec
INVARIANTS InheritsExactly HighestRuns ListsLinked
PROPERTIES ImplementsService OthersInOrder
