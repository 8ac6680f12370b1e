\* One customer with two orders, edited, repeated, cancelled and served.
SPECIFICATION Spec
CONSTANTS
  Users = {u1}
  Products = {p1, p2}
  Prices = {1}
  MaxQty = 1
  DeliveryPrices = {0}
  GiftKinds = {"for_me"}
  ItemRowsLoad = TRUE
  OrderHasDeliveryFields = TRUE
  AdminTargets = TRUE
  AutoApprove = FALSE
  MaxOrders = 2
  MaxFaults = 0
  MaxSyncs = 0
  MaxDays = 0
  None = None
SYMMETRY Symmetric
PROPERTY OnlyItsRedeliveryReopens
PROPERTY ImplementsOrderBook
