SPECIFICATION Spec
CONSTANTS
  Loads <- MCLoads
  Keys <- MCKeys
  keyOf <- MCKeyOf
  NoLoad = NoLoad
  maxConcurrentLoads = 2
INVARIANTS LimitHolds
