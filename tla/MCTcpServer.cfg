SPECIFICATION Spec
CONSTANTS
  Servers = {v1, v2}
  Sessions = {s1, s2, s3}
  NoServer = NoServer
  NoSession = NoSession
INVARIANTS
  NoUseAfterFree
  OneClient
  AlwaysListening
  NoLeak
PROPERTIES
  AllFreed
  Contract
