CONSTANTS
  None = None  h1 = h1  c1 = c1
  Source <- Room
  Changesets <- EveryType
  Handlers = {h1}
  Commits = {c1}
  Duration = 9
  Offset = 1
  min_segment_length = 1
  NANOSECONDS_IN_MILLISECOND = 2
  DEFAULT_LIST_LIMIT = 2
  MaxChanges = 3
SPECIFICATION Spec
INVARIANTS TypeOK 
PROPERTY CommitAnswered
CHECK_DEADLOCK FALSE
