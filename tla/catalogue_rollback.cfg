SPECIFICATION Spec
CONSTANTS
  Folders = {f1, f2}
  Prices = {p1}
  Unreadable = Unreadable
  Users = {u1}
  p1 = p1
  Written <- MCReleased
  None = None
  EditedInPlace = FALSE
  MaxEdits = 2
  MaxSyncs = 3
  MaxFaults = 1
  MaxFlags = 0
CHECK_DEADLOCK FALSE
PROPERTY StartPutsFilesOnSale
