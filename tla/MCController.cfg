\* Three servers, two of one name, one task an incarnation, one fault.
SPECIFICATION Spec
CONSTANTS
  Servers <- ThreeServers
  Name <- SharedName
  MaxTasks = 1
  MaxFaults = 1
INVARIANTS
  FinishedIsTrue
  StartedIsListed
PROPERTIES
  FinishedIsFinal
  StopIsShown
