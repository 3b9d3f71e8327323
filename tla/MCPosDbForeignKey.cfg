SPECIFICATION Spec
CONSTANTS
  MaxWrites = 3
  MaxQueue = 3
  ItemCount <- Items
INVARIANT
  ItemsReferToRecords
