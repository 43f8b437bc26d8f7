CONSTANTS
  Byte = {b1, b2}
  Slot = {s1, s2, s3}
  TwoSlots = {s1, s2}
  Message = {m1, m2}
  Writer = {w1, w2}
  FirstWriter = w1
  Thread = {t1, t2, t3, t4}
  TwoThreads = {t1, t2}
  freelist = freelist
  uselist = uselist
  None = None
  Device = {"bytes", "marks", "box", "writer", "writers", "capture", "failing",
            "delay", "heap"}
CHECK_DEADLOCK FALSE
SPECIFICATION Spec
INVARIANTS BuffersInOrder SendingInOrder HeapInOrder
PROPERTIES ImplementsFifo LastsLongEnough
