SPECIFICATION Spec
CONSTANT Lists <- MCLists
INVARIANTS
  TypeOK
  ReturnedIndexed
PROPERTIES
  PeekThenNext
  Stream
