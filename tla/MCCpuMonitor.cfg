SPECIFICATION Spec
CONSTANTS
    l1 = l1
    l2 = l2
    r1 = r1
    Loops <- MCLoops
    Askers <- MCAskers
    Worlds <- MCWorlds
    Cooldown = 1
    MaxTicks = 3
    MaxShift = 1
INVARIANTS
    HonestCpu
    AlertsSpaced
    SilenceBounded
PROPERTIES
    StopStops
