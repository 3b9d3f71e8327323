SPECIFICATION LineSpec
CONSTANTS
  Alphabet = {"s", "p", "r"}
  Parms <- AllParms
  Conversions <- SomeConversions
  MaxLine = 5
  MaxChunk = 3
  MaxInput = 7
INVARIANTS
  TypeOK
  ChunkingIrrelevant
  NothingLost
  WellBracketed
  BufferWaits
