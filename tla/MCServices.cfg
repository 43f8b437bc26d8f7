CONSTANTS
  Instance = {"events", "bus", "pages", "words", "keys", "tabs", "prints", "types",
              "dates", "clock"}
  Node = {n1, n2, n3}
  NoNode = NoNode
  NoThread = NoThread
  Loop = Loop
  Handler = {h1}
  c1 = c1  c2 = c2  e1 = e1  e2 = e2  e3 = e3
  Thread = {t1, t2}
  Attached = {d1, d2}
SPECIFICATION Spec
SYMMETRY Symmetry
INVARIANTS HandlersInOrder TransfersInOrder KnowsCalendar ClockInOrder
PROPERTIES ImplementsStore ImplementsEditor ImplementsChannel
