\* Two clients, three requests, with requests apart and with overlaps.
SPECIFICATION Spec
CONSTANTS
  c1 = c1
  c2 = c2
  f = f
  g = g
  x = x
  y = y
  z = z
  hole = hole
  s1 = s1
  s2 = s2
  Clients <- TwoClients
  Names <- TwoNames
  Contents <- WithBinary
  Binary <- OneBinary
  Hole = hole
  Initial <- TwoFiles
  Stamps <- TwoSeconds
  Scripts <- TwoScripts
  Worlds <- CalmOrWild
  MaxCalls = 3
SYMMETRY Symmetry
INVARIANTS
  NoAlias
  Answered
  NoLitter
PROPERTIES
  FileMapSpec
