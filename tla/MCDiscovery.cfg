SPECIFICATION Spec
CONSTANTS
    s1 = s1
    s2 = s2
    Servers <- MCServers
    Scanned <- MCScanned
    Nearby <- MCNearby
    Worlds <- MCWorlds
    WsServers = 3
    Attempts = 2
    Rounds = 2
    Local = Local
    MaxLost = 2
INVARIANTS
    WsInOrder
    AdvertisedPorts
    MissedOnlyIfUnheard
    ListIsUsable
PROPERTIES
    FoundServes
