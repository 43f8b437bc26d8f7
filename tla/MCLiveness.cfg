CONSTANTS
  Thread = {idle, main, a}
  Spare = {b}
  Idle = idle
  Main = main
  NoThread = NoThread
  Forever = Forever
  RobinTimeout = 0
  Priority = {2}
  IdlePriority = 1
  Timeout = {1, Forever}
  IsrLimit = 1
  Flag = {"rx"}
  Object = {o}
  Timer = {t1, t2}
  NoTimer = NoTimer
  Slot = {s1, s2, s3}
  freelist = freelist
  Sender = w
  NoMessage = NoMessage
  c1 = c1  c2 = c2  e1 = e1  e2 = e2
  Loop = Loop
  Handler = {h1}
  EventNode = {n1, n2}
  NoNode = NoNode
CHECK_DEADLOCK FALSE
SPECIFICATION MCSpec
INVARIANT NoMissedEvent
PROPERTIES TokenServed EventServed CallbackComes WriteReturns CallsReturn
