SPECIFICATION Spec
CONSTANTS
  Timer = {t1, t2, t3}
  NoTimer = NoTimer
  Ticks = {1, 3}
  QueueSize = 2
SYMMETRY Symmetry
PROPERTY KeepsTime
CHECK_DEADLOCK FALSE
