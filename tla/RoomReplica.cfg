CONSTANTS
  u1 = u1  t1 = t1  t2 = t2  w1 = w1  a1 = a1
  message = message  draw = draw  alice = alice
  Unbounded = Unbounded
  NoTime = NoTime
  Types = {message, draw}
  People = {alice}
  InitTimes <- RoomTimes
  AskedTimes <- UpdateTimes
  Diffs <- LockDiffs
  AccessDiffs <- GrantDiffs
  Minigroup = TRUE
  Handlers = {t1, t2, w1}
  Method <- LockersAndGranter
  ReadReplica = TRUE
  MaxClock = 0
SPECIFICATION Spec
INVARIANTS MapsMerged LastDiffInForce
