CONSTANTS
  None = None  h1 = h1  h2 = h2  e1 = e1
  NRooms = 2
  Handlers = {h1, h2}
  Events = {e1}
SPECIFICATION Spec
CONSTRAINT Apart
INVARIANTS BansAgree BanEnforced
PROPERTY UpdateAnswered
CHECK_DEADLOCK FALSE
