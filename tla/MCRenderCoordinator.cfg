SPECIFICATION Spec
CONSTANTS
  Labels = {paint}
  Unnamed = Unnamed
  MaxRequests = 3
  MaxDones = 1
  Cancels = TRUE
CHECK_DEADLOCK FALSE
INVARIANT FramesRunInOrder
PROPERTY FramesRunOn
