\* Outkeys of an array without -items and of parts of a JSON document.
SPECIFICATION Spec
CONSTANTS
  Root <- OutkeyRoots
  Element <- Elements
  Depth <- Depths
  Input <- OutkeyInputs
  TclValue <- TclValues
  Json <- Jsons
  Lower <- LowerCase
  IntMax = 6
  None = None
  Skip = Skip
INVARIANT
  OutkeyIsStored
