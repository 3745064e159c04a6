\* A submitter dies after Alpaca took its order; start-up reconcile follows.
SPECIFICATION Spec
CONSTANTS
  buy = buy
  sell = sell
  Orders <- MCOrders
  Foreign <- MCForeign
  Side <- MCSide
  Qty <- MCQty
  MaxFaults = 1
INVARIANT
  CrashedSubmitStaysOpen
CHECK_DEADLOCK FALSE
