\* The split form of an outkey lives as long as its element.
SPECIFICATION Spec
CONSTANTS
  Nodes = 5
  Root = 1
  Obj = {x, y}
  x = x
  y = y
  Addr = {1, 2, 3, 4, 5}
  None = None
  Schemas <- MCSchemas
INVARIANT OutkeyCachesIntact
CHECK_DEADLOCK FALSE
