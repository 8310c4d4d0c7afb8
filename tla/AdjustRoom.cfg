CONSTANTS
  None = None  t1 = t1  t2 = t2
  Scenarios <- MCScenarios
  LateEvents <- Late
  Tasks = {t1, t2}
  min_segment_length = 1
  NANOSECONDS_IN_MILLISECOND = 10
  streamed_at = 50
SPECIFICATION AdjustSpec
INVARIANTS EventsInSync SegmentsInSync OrderKept AdjustedOnce
PROPERTY AdjustAnswered
CHECK_DEADLOCK FALSE
