\* No call fails: a tick overtaken by an entry removes the entry's bracket.
SPECIFICATION Spec
CONSTANTS
  Entries = {e1, e2}
  Prices = {1, 2}
  K = 1
  M = 1
  MaxFaults = 0
PROPERTY
  StaleMeansFlat
