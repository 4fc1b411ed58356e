\* A second handle is bound to a variable that already has one.
SPECIFICATION Spec
CONSTANTS
  Addr = {a1, a2, a3}
  VarName = {x, g, nons}
  QualifiedName = {g, nons}
  Unresolvable = {nons}
  MaxDepth = 2
  CrossScope = FALSE
  NoVar = NoVar
  Free = Free
  Unset = Unset
  Data = Data
INVARIANT
  BoundVariableNamesItsHandle
