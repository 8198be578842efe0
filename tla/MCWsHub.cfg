\* 2 publishers x 1 broadcast, 2 connections, no symmetry.
SPECIFICATION Spec
CONSTANTS
  p1 = p1
  p2 = p2
  c1 = c1
  c2 = c2
  Publishers <- MCPublishers
  Clients <- MCClients
  NoOne = NoOne
  MaxSends = 1
  MaxPings = 1
INVARIANTS
  ContiguousView
  OpenMissesNothing
PROPERTIES
  StreamSpec
  HandlersReturn
