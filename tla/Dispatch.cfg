CONSTANTS
  m1 = m1  d1 = d1
  Others = {m1}
  Dumps = {d1}
  RETRIES = 3
  MaxNotifications = 2
  MaxReconnections = 2
SPECIFICATION Spec
CONSTRAINT Apart
INVARIANTS AnswerIsLast Listens GracefulExit ResultReported
PROPERTIES RequestAnswered DumpAnswered StopCompletes
CHECK_DEADLOCK FALSE
