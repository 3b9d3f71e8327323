SPECIFICATION Spec
CONSTANTS
  Servers = {v1, v2}
  NoServer = NoServer
  MaxLine = 3
INVARIANTS
  NoUseAfterFree
  AlwaysReceiving
PROPERTIES
  Contract
