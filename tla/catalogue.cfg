SPECIFICATION FairSpec
CONSTANTS
  Folders = {f1}
  Prices = {p1}
  Unreadable = Unreadable
  Users = {u1}
  p1 = p1
  Written <- MCWritten
  None = None
  EditedInPlace = TRUE
  MaxEdits = 2
  MaxSyncs = 2
  MaxFaults = 1
  MaxFlags = 1
INVARIANT TypeOK
INVARIANT RecordedIsInCatalogue
INVARIANT FavouriteKeepsItsProduct
PROPERTY CompletedSyncRepairs
PROPERTY StartEnds
CHECK_DEADLOCK FALSE
