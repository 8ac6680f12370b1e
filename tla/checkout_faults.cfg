\* One customer, two products, one order, one exception or crash, one sync.
SPECIFICATION Spec
CONSTANTS
  Users = {u1}
  Products = {p1, p2}
  Prices = {1}
  MaxQty = 1
  DeliveryPrices = {0}
  GiftKinds = {"for_me"}
  ItemRowsLoad = TRUE
  OrderHasDeliveryFields = TRUE
  AdminTargets = TRUE
  AutoApprove = TRUE
  MaxOrders = 1
  MaxFaults = 1
  MaxSyncs = 1
  MaxDays = 0
  None = None
SYMMETRY Symmetric
INVARIANT TypeOK
INVARIANT PayButtonChargesTotal
INVARIANT CheckoutKeepsGoods
