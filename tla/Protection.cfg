\* Two bracketed entries, prices on which either entry can breach.
SPECIFICATION FairSpec
CONSTANTS
  Entries = {e1, e2}
  Prices = {1, 2}
  K = 1
  M = 1
  MaxFaults = 1
INVARIANTS
  TypeOK
  OneExitPerBracket
PROPERTIES
  OnlyEntriesBuy
  
  StaleBracketGoes
