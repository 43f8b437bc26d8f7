CONSTANTS
  Thread = {idle, main, a, b}
  Spare = {a, b}
  NoThread = NoThread
  Forever = Forever
  RobinTimeout = 0
  Idle = idle
  Main = main
  Priority = {2, 3}
  IdlePriority = 1
  Timeout = {1, Forever}
  Object = {o}
  IsrLimit = 3
  MaxTokens = 3
  Kind = {"semaphore", "pool", "event", "senders", "receivers", "entries"}
SPECIFICATION MCSpec
SYMMETRY Symmetry
CONSTRAINT OneSpare
INVARIANTS WaitersInOrder TokensInOrder BlocksAndFlagsInOrder MessagesInOrder EntriesInOrder
