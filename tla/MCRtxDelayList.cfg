SPECIFICATION Spec
CONSTANTS
  Thread = {t1, t2, t3, t4}
  NoThread = NoThread
  Forever = Forever
  Ticks = {1, 2}
  Sleeps = {1, 3}
  TickRange = 6
SYMMETRY Symmetry
INVARIANTS ListsInOrder OnTime
PROPERTY ImplementsTimeouts
