SPECIFICATION SdkSpec
CONSTANTS
  Models = {m1, m2}
  IsolateIds = {i1, i2}
  NoModel = NoModel
  Retrieving = Retrieving
  Observers = {o1, o2}
  MaxLoops = 3
  Loads <- MCLoads
  Keys <- MCKeys
  keyOf <- MCKeyOf
  NoLoad = NoLoad
  maxConcurrentLoads = 2
  NoDispatcher = NoDispatcher
  first = page
  Dispatchers = {page, frame}
  Ids = {navigation}
  Main = {navigation}
  MaxLegs = 2
CHECK_DEADLOCK FALSE
INVARIANTS IsolatesOfModels ObserversKnowIsolates SlotsAreAccounted ShownAsLoading
           LegsKeepTheirInfos NavigationsChangeHands PollingFollowsObservers
PROPERTIES OnlyCancellationsPassTheLimit LoadsAndLoopsGoOn
