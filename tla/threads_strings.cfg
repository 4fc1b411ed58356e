\* The strings are gone when the thread that registered their procedure has ended.
SPECIFICATION Spec
CONSTANTS
  Thread = {t1, t2}
  Type = {uuid}
  Strings = Strings
  Element = {e1, e2}
  Object = {o1, o2, o3, o4}
  None = None
  MaxLoads = 1
INVARIANT StringsReleased
CHECK_DEADLOCK FALSE
