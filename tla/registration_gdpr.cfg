\* The committed code: can the staff list its users after a deletion of data?
SPECIFICATION Spec
CONSTANTS
  Users = {u1}
  Owners = {}
  Chats = {c1}
  Nobody = Nobody
  MaxPasses = 1
  MaxFaults = 0
INVARIANT RowsReadable
