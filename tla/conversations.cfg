\* One applicant who may come back, two admins' chats, one failure; two members
\* of staff and texts about two orders, of which one of length 1 fits on a page
\* with another and one of length 3 on none.
SPECIFICATION ConversationSpec
CONSTANTS
  Users = {u1}
  Owners = {}
  Chats = {c1, c2}
  Nobody = Nobody
  MaxPasses = 2
  MaxFaults = 1
  Purchases = {o1, o2}
  Staff = {s1, s2}
  Lengths = {1, 3}
  PageLength = 2
  MaxTexts = 2
  MaxReplies = 1
INVARIANT RowHoldsOneForm
INVARIANT PendingIsAnnounced
INVARIANT SupportTypeOK
INVARIANT StoredOnce
INVARIANT ReadMeansDrawn
PROPERTY DecisionsStand
PROPERTY ApplicationAnswered
