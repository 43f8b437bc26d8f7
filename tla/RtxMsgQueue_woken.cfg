CONSTANTS
  Thread = {idle, main, a}
  NoThread = NoThread
  Forever = Forever
  Idle = idle
  Main = main
  IdlePriority = 1
  RobinTimeout = 0
  Priority = {2}
  Timeout = {Forever}
  Object = {mq}
  IsrLimit = 2
  MsgCount = 2
  MsgPriority = {1, 2}
  GetTimeout = {Forever}
  IsrReceives = TRUE
SPECIFICATION Spec
INVARIANT MessagesConserved
