SPECIFICATION Spec
CONSTANTS
  ArgLists <- MCArgLists
  MaxErrors = 2
  MaxFaults = 2
INVARIANTS
  TypeOK
  OptionsAsWritten
  EverythingReported
  FailureWritesNothing
