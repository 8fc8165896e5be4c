SPECIFICATION Spec
CONSTANTS
  Names <- MCNames
  Inputs <- CutSources
  MaxOOM = 2
INVARIANTS
  SilentParseIsComplete
  AcceptsOnlyWellFormed
PROPERTIES
  NoErrorDropped
