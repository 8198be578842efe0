\* Liveness: 2 connections; the server's parent is pid 1.
SPECIFICATION Spec
CONSTANTS
  h1 = h1
  h2 = h2
  Handlers <- TwoHandlers
  NoOne = NoOne
  Offered <- ExecAndKill
  AskedIds = {1}
  MaxChunks = 1
  ServerPid = 9
  ServerParent = 1
PROPERTIES
  EveryRequestEnds
  EndIsAnnounced
