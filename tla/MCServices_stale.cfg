CONSTANTS
  Instance = {"stale"}
  Node = {n1, n2, n3}
  NoNode = NoNode
  NoThread = NoThread
  Loop = Loop
  Handler = {h1}
  c1 = c1  c2 = c2  e1 = e1  e2 = e2  e3 = e3
  Thread = {t1, t2}
  Attached = {d1, d2}
SPECIFICATION Spec
INVARIANT CursorInLine
