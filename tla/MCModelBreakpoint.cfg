SPECIFICATION FairSpec
CONSTANTS
  Locs = {l1}
  Conditions = {a, b}
  NoCondition = NoCondition
  Updates = 2
  Switches = 2
CHECK_DEADLOCK FALSE
INVARIANTS InStep NeverSetTwice
PROPERTIES UpdatesFinish
