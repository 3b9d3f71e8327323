SPECIFICATION Spec
CONSTANTS
  MaxWrites = 3
  MaxQueue = 3
  ItemCount <- Items
INVARIANTS
  TypeOK
  ReceiptsWhole
  PromisesKept
PROPERTY
  LogGrows
