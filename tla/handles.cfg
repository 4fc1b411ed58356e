\* Two local names and a global one, two frames, three handler addresses.
SPECIFICATION Spec
CONSTANTS
  Addr = {a1, a2, a3}
  VarName = {x, g, nons}
  QualifiedName = {g, nons}
  Unresolvable = {nons}
  MaxDepth = 2
  CrossScope = FALSE
  NoVar = NoVar
  Free = Free
  Unset = Unset
  Data = Data
INVARIANTS
  TypeOK
  NoUseAfterFree
  NoDanglingTrace
  TracedOnce
  OwnedHandleIsWatched
  BoundVariableHoldsAName
PROPERTIES
  UnsetReleasesHandle
  ReturnReleasesHandle
  UnsetLeavesOtherTraces
  ImplementsRegistry
