\* Every interleaving of submitter, venue, stream, handler and reconcilers.
SPECIFICATION Spec
CONSTANTS
  buy = buy
  sell = sell
  Orders <- MCOrders
  Foreign <- MCForeign
  Side <- MCSide
  Qty <- MCQty
  MaxFaults = 1
INVARIANTS
  TypeOK
  NoStrandedOrder
  BoundOnlyIfAccepted
  FillsAreExecutions
  NoFillVanishes
  
  FilledIsTrue
PROPERTY
  ReconcileResolvesGhosts
\* The two orders end and the connected executor waits for ever: the model may stop.
CHECK_DEADLOCK FALSE
