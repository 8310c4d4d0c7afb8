CONSTANTS
  h1 = h1  h2 = h2  h3 = h3
  alice = alice  bob = bob
  l1 = l1  l2 = l2
  NoLabel = NoLabel
  Handlers = {h1, h2}
  Accounts = {alice, bob}
  Labels = {l1, l2}
  Attributes = {"none", "deleted"}
  Requests <- RacingRequests
  PreserveHistory = TRUE
  ReadReplica = FALSE
  NsPerMicro = 2
  MaxHistorySize = 1
  HistoryLifetime = 1
  DeletedLifetime = 1
  MaxRows = 3
  MaxClock = 3
  Limit = 2
  Directions = {"forward", "backward"}
SYMMETRY HandlerSymmetry
SPECIFICATION ListSpec
INVARIANTS OneOriginalPerLabel StateShowsLabelOnce PagingComplete PagesComplete
