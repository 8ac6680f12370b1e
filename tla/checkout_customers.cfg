\* Two customers who compete for the dispatcher; no failures; carts grow old.
SPECIFICATION FairSpec
CONSTANTS
  Users = {u1, u2}
  Products = {p1}
  Prices = {0, 1}
  MaxQty = 1
  DeliveryPrices = {0}
  GiftKinds = {"for_me"}
  ItemRowsLoad = TRUE
  OrderHasDeliveryFields = TRUE
  AdminTargets = TRUE
  AutoApprove = FALSE
  MaxOrders = 1
  MaxFaults = 0
  MaxSyncs = 0
  MaxDays = 1
  None = None
INVARIANT SessionPointsAtOwnOrder
PROPERTY DispatcherFreed
PROPERTY CheckoutAnswered
