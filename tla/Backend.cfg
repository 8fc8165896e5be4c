SPECIFICATION FairSpec
CONSTANTS
  Programs <- MCPrograms
  IntKinds <- MCIntKinds
  Modulus <- MCModulus
  MaxFaults = 1
INVARIANTS
  TypeOK
  DeclaredBeforeUse
  LayoutsDeclared
  HeaderWholeBeforeSource
  ErrorsPrecedeSource
  CountedFromLastExplicit
  CompilesExactly
PROPERTIES
  Terminates
