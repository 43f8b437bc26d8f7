CONSTANTS
  Thread = {idle, main, a, b}
  NoThread = NoThread
  Forever = Forever
  Idle = idle
  Main = main
  IdlePriority = 1
  RobinTimeout = 1
  Priority = {1, 2}
  Timeout = {1, 2}
  Flag = {}
  Joinability = {FALSE}
  IsrTarget = {}
  IsrLimit = 0
  SparesJoiners = TRUE
SPECIFICATION FairSpec
INVARIANT ListsSorted
PROPERTIES OnlyUnlockDefers FairPreemption SharesProcessor
