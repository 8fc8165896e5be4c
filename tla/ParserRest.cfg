SPECIFICATION Spec
CONSTANTS
  Names <- MCNames
  Inputs <- CutSources
  MaxOOM = 0
INVARIANTS
  RestIsParsed
