\* Safety: 2 connections, every request; the server is pid 1 of a container.
SPECIFICATION Spec
CONSTANTS
  h1 = h1
  h2 = h2
  Handlers <- TwoHandlers
  NoOne = NoOne
  Offered <- AllRequests
  AskedIds = {1}
  MaxChunks = 2
  ServerPid = 1
  ServerParent = 9
SYMMETRY Symmetry
INVARIANTS
  UniqueUnlessClash
  RepliedTaskIsOwn
  StoryInOrder
PROPERTIES
  LogsMatchStream
  LifecycleSpec
