CONSTANTS
  c1 = c1  c2 = c2
  m1 = m1  m2 = m2  orphan = orphan
  NoMessage = NoMessage
  Consumers = {c1, c2}
  Messages = {m1, m2, orphan}
  Roomless = {orphan}
  Stopped = {c2}
  MaxFaults = 2
  MaxResends = 1
SPECIFICATION Spec
INVARIANT AckedIsStored
PROPERTIES ExactlyOnceOrDropped ShutdownCompletes
CHECK_DEADLOCK FALSE
