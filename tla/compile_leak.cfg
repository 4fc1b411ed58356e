\* Failed compilations and deleted handles give all memory back.
SPECIFICATION Spec
CONSTANTS
  Nodes = 5
  Root = 1
  Obj = {x, y}
  x = x
  y = y
  Addr = {1, 2, 3, 4, 5}
  None = None
  Schemas <- MCSchemas
INVARIANT NothingLeaks
CHECK_DEADLOCK FALSE
