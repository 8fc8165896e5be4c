SPECIFICATION FairSpec
CONSTANTS
  Names <- MCNames
  Inputs <- EditedSources
  MaxOOM = 0
INVARIANTS
  TypeOK
  EndNotConsumed
  IndexSound
  SlotLinked
  SilentParseIsComplete
  ErrorsLocated
  InterruptedOnlyInModuleClause
  AcceptsOnlyWellFormed
  RejectsOnlyDuplicates
PROPERTIES
  Termination
