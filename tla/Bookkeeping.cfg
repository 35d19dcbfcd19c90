SPECIFICATION BookkeepingSpec
CONSTANTS
  StaticPart = {"a", "b", "c"}
  LinedPart = {"b-lf"}
  ParamPart = {":p", ":q"}
  Exposed <- MCExposed
  Called <- MCCalled
  MaxEntries = 2
  MaxChanges = 3
  NoCatalog = NoCatalog
  MaxSessions = 3
  Registration <- MCRegistration
  CallOf <- MCCallOf
  RoutedCall = {w1, w2}
  Task = {x, y}
  Object = {o1, o2, o3}
  NoObject = NoObject
  Url = {u, v}
  MaxLoads = 1
  MaxPageTroubles = 1
  Tab = {t1, t2}
  NoTab = NoTab
  Call = {k1, k2}
  MaxRecordings = 2
  MaxCaptures = 2
  Invocation = {i1, i2, i3}
  Mine = {i1, i2}
  MaxClears = 2
  MaxLosses = 2
INVARIANTS LanguagesInvariant MeaningInvariant PagesInvariant
PROPERTIES CommandsHeal
CHECK_DEADLOCK FALSE
