CONSTANTS
  Sources <- MCSources
  SizeModulus = 64
  ByteModulus = 4
  MaxOOM = 1
SPECIFICATION FairSpec
INVARIANTS TypeOK TokensTile TokensAsWritten LiteralsAsWritten LocationsRight
PROPERTY Terminates
