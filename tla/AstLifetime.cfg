SPECIFICATION FairSpec
CONSTANT MaxNodes = 7
INVARIANTS
  TypeOK
  OwnedIsLive
  ListedOnce
PROPERTIES
  Lifecycle
  DocumentDies
