CONSTANTS
  e1 = e1
  Enters = {e1}
  MaxDeletes = 2
SPECIFICATION Spec
INVARIANT EnteredIsListed
