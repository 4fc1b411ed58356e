\* One command per schema, to the end of its handle.
SPECIFICATION Spec
CONSTANTS
  Nodes = 5
  Root = 1
  Obj = {x, y}
  x = x
  y = y
  Addr = {1, 2, 3, 4, 5}
  None = None
  Schemas <- MCSchemas
INVARIANTS
  TypeOK
  NoDanglingReference
  NoForgottenReference
  PatternCachesIntact
  ElementsHaveOneOwner
  OnlyJsonItemsLeak
  CompiledAsWritten
  ErrorNamesThePath
PROPERTY
  Terminates
CHECK_DEADLOCK FALSE
