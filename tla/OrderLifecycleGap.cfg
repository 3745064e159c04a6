\* Part of an order fills while the executor is not listening; it restarts.
SPECIFICATION Spec
CONSTANTS
  buy = buy
  sell = sell
  Orders <- MCOrders
  Foreign <- MCForeign
  Side <- MCSide
  Qty <- MCQty
  MaxFaults = 1
PROPERTY
  StartsFromVenuePosition
CHECK_DEADLOCK FALSE
