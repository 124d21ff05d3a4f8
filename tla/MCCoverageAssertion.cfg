SPECIFICATION Spec
CONSTANTS
  Loops = {l1, l2}
  None = None
CHECK_DEADLOCK FALSE
PROPERTIES PollsEndUnsuspended
