SPECIFICATION Spec
CONSTANTS
  ArgLists <- MCArgLists
  MaxErrors = 2
  MaxFaults = 0
INVARIANT UsageSuffices
