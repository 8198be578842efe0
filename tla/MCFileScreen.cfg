\* Two servers, alone and with other clients and lost requests.
SPECIFICATION Spec
CONSTANTS
  new = new
  copy = copy
  none = none
  b1 = b1
  b2 = b2
  Servers <- TwoServers
  Order <- TwoNames
  CopyName <- Copies
  NewName = new
  Bodies <- TwoBodies
  NoLines = b1
  Worlds <- QuietOrWild
  Rows = 1
  MaxCursor = 2
PROPERTIES
  ActsOnWhatIsShown
  SaveGoesHome
  PasteIsTheCopied
  CutKeepsText
