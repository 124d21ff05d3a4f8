SPECIFICATION TargetsSpec
CONSTANTS
  tab = tab page = page worker = worker prerender = prerender
  auto = auto lazy = lazy
  scopedPanel = scopedPanel panel = panel sidebar = sidebar
  NoTarget = NoTarget
  Targets = {tab, page, worker, prerender}
  parentOf <- MCParentOf
  kindOf <- MCKindOf
  Classes = {auto, lazy}
  Autostart = {auto}
  TargetObservers = {sidebar}
  ModelObservers = {scopedPanel, panel}
  classOf <- MCClassOf
  Scoped = {scopedPanel, sidebar}
  cookie = cookie tracker = tracker other = other
  k1 = k1 k2 = k2 id1 = id1 id2 = id2
  NoId = NoId NoObject = NoObject
  Calls = {c1, c2}
  Ids = {id1, id2}
  Issues = {cookie, tracker, other}
  keyOf <- MCKeyOf
  idOf <- MCIdOf
  issueKindOf <- MCIssueKindOf
  codeOf <- MCCodeOf
  targetOf <- MCIssueTargetOf
  Pages = {page, prerender}
  UrlIssues = {cookie, tracker}
  ThirdParty = {tracker}
  MaxStored = 3
CHECK_DEADLOCK FALSE
INVARIANTS ObserversInStep UnscopedMissNone IssuesAreFresh
PROPERTY ResolverAnswers
