\* A json with a format as an array item and within a JSON document.
SPECIFICATION Spec
CONSTANTS
  Root <- FormatRoots
  Element <- Elements
  Depth <- Depths
  Input <- FormatInputs
  TclValue <- TclValues
  Json <- Jsons
  Lower <- LowerCase
  IntMax = 6
  None = None
  Skip = Skip
INVARIANT
  AcceptedIsValid
