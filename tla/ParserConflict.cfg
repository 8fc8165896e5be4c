SPECIFICATION Spec
CONSTANTS
  Names <- MCNames
  Inputs <- EditedSources
  MaxOOM = 0
INVARIANTS
  ConflictsAreReal
