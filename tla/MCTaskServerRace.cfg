\* Two /exec at once get one task_id.
SPECIFICATION Spec
CONSTANTS
  h1 = h1
  h2 = h2
  Handlers <- TwoHandlers
  NoOne = NoOne
  Offered <- OnlyExec
  AskedIds = {1}
  MaxChunks = 0
  ServerPid = 8
  ServerParent = 9
SYMMETRY Symmetry
INVARIANTS
  UniqueIds
