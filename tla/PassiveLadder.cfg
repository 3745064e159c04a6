\* A ladder for two lots, so that a leg can fill in part, with two failing calls.
SPECIFICATION Spec
CONSTANTS
  Qty = 2
  MaxFaults = 2
INVARIANTS
  TypeOK
  ReportIsTrue
  OverfillIsUnseen
  WorkingLegsAreAccountedFor
PROPERTY
  KeepsContract
\* Once execute has returned and every lot is stored, nothing is left to do.
CHECK_DEADLOCK FALSE
