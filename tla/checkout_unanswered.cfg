\* The committed code, no failures.
SPECIFICATION FairSpec
CONSTANTS
  Users = {u1}
  Products = {p1}
  Prices = {1}
  MaxQty = 1
  DeliveryPrices = {0}
  GiftKinds = {"for_me"}
  ItemRowsLoad = FALSE
  OrderHasDeliveryFields = FALSE
  AdminTargets = TRUE
  AutoApprove = FALSE
  MaxOrders = 1
  MaxFaults = 0
  MaxSyncs = 0
  MaxDays = 0
  None = None
PROPERTY CheckoutAnswered
