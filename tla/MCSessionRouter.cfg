SPECIFICATION FairSpec
CONSTANTS
  page = page frame = frame worker = worker
  c1 = c1 c2 = c2 c3 = c3 raw = raw
  Targets = {page, frame}
  Root = page
  Below <- MCBelow
  Proxies = {raw}
  Calls = {c1, c2}
  NoCall = NoCall
  Scripts = {x1}
  MaxId = 2
CHECK_DEADLOCK FALSE
INVARIANTS CallbacksInOnePlace
PROPERTIES ScriptsRunWhenQuiet ImplementsProtocolCalls CommandsSettle ScriptsRunWhileAccounted
