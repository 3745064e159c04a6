\* No call fails: the fill that comes between the last poll and the cancel.
SPECIFICATION Spec
CONSTANTS
  Qty = 2
  MaxFaults = 0
INVARIANT
  NeverOverfills
CHECK_DEADLOCK FALSE
