\* All schemas with all values.
SPECIFICATION Spec
CONSTANTS
  Root <- Roots
  Element <- Elements
  Depth <- Depths
  Input <- Inputs
  TclValue <- TclValues
  Json <- Jsons
  Lower <- LowerCase
  IntMax = 6
  None = None
  Skip = Skip
INVARIANTS
  TypeOK
  ChainIsCallStack
  OutcomePointersAreLive
  ItemsStartAfresh
  ErrorsAreExact
  OutcomeIsExact
PROPERTY
  Completes
