\* What the threads have kept of predefined types is gone when they have ended.
SPECIFICATION Spec
CONSTANTS
  Thread = {t1, t2}
  Type = {uuid}
  Strings = Strings
  Element = {e1, e2}
  Object = {o1, o2, o3, o4}
  None = None
  MaxLoads = 1
INVARIANT PatternsReleased
CHECK_DEADLOCK FALSE
