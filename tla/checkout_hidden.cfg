\* The committed code, two products, one catalogue sync.
SPECIFICATION Spec
CONSTANTS
  Users = {u1}
  Products = {p1, p2}
  Prices = {1}
  MaxQty = 1
  DeliveryPrices = {0}
  GiftKinds = {"for_me"}
  ItemRowsLoad = FALSE
  OrderHasDeliveryFields = FALSE
  AdminTargets = TRUE
  AutoApprove = FALSE
  MaxOrders = 1
  MaxFaults = 0
  MaxSyncs = 1
  MaxDays = 0
  None = None
INVARIANT ClearedGoodsOrdered
