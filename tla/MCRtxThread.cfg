CONSTANTS
  Thread = {idle, main, a, b, c}
  Spare = {a, b}
  Partner = c
  NoThread = NoThread
  Forever = Forever
  Idle = idle
  Main = main
  IdlePriority = 1
  RobinTimeout = 0
  Priority = {2}
  Timeout = {1}
  Flag = {rx, tx}
  Joinability = {TRUE, FALSE}
  IsrTarget = {main}
  IsrLimit = 2
  SparesJoiners = TRUE
SPECIFICATION Spec
CONSTRAINT Uses
SYMMETRY Symmetry
INVARIANTS OnePlace JoinLinked JoinerNotForgotten NoMissedFlags
