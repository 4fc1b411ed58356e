\* A handle may be destroyed from a frame other than its variable's.
SPECIFICATION Spec
CONSTANTS
  Addr = {a1, a2, a3}
  VarName = {x, g, nons}
  QualifiedName = {g, nons}
  Unresolvable = {nons}
  MaxDepth = 2
  CrossScope = TRUE
  NoVar = NoVar
  Free = Free
  Unset = Unset
  Data = Data
INVARIANT
  NoUseAfterFree
