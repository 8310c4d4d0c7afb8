CONSTANTS
  u1 = u1  t1 = t1  t2 = t2  w1 = w1  a1 = a1
  message = message  draw = draw  alice = alice
  Unbounded = Unbounded
  NoTime = NoTime
  Types = {message, draw}
  People = {alice}
  InitTimes <- RoomTimes
  AskedTimes <- UpdateTimes
  Diffs <- FewLockDiffs
  AccessDiffs <- GrantDiffs
  Minigroup = TRUE
  Handlers = {u1, t1, a1}
  Method <- TimeAndTypes
  ReadReplica = FALSE
  MaxClock = 3
SPECIFICATION Spec
INVARIANTS TypeOK MapsMerged UpdateAnnouncesClose
PROPERTY ClosedToLaterRequests
