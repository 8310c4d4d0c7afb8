CONSTANTS
  h1 = h1  h2 = h2  h3 = h3
  alice = alice  bob = bob
  l1 = l1  l2 = l2
  NoLabel = NoLabel
  Handlers = {h1}
  Accounts = {alice, bob}
  Labels = {l1, l2}
  Attributes = {"none", "deleted"}
  Requests <- VacuumRequests
  PreserveHistory = FALSE
  ReadReplica = TRUE
  NsPerMicro = 1
  MaxHistorySize = 2
  HistoryLifetime = 1
  DeletedLifetime = 1
  MaxRows = 3
  MaxClock = 6
SPECIFICATION Spec
INVARIANT RemovedLabelHidden
PROPERTY VacuumKeepsLatest
