\* Two threads load the package, compile, report errors and exit.
SPECIFICATION Spec
CONSTANTS
  Thread = {t1, t2}
  Type = {uuid}
  Strings = Strings
  Element = {e1, e2}
  Object = {o1, o2, o3, o4}
  None = None
  MaxLoads = 1
INVARIANTS TypeOK PatternsAlive StringsReady RegisteredOnce RegistrarReleasesPatterns
PROPERTY LoadsEnd
CHECK_DEADLOCK FALSE
