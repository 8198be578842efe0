SPECIFICATION Spec
CONSTANTS
  Texts <- MCTexts
  NoFile = NoFile
  MaxCalls = 3
  MaxFaults = 2
INVARIANTS NeverHalf ReportedTrue
PROPERTIES CallEnds
