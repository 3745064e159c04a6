\* Loads: pages of two bars, so that ranges take one to three of them, and a
\* third load to meet what two have left.  Backtests: windows of two and three
\* bars, and a fold of three that fits twice.
SPECIFICATION Spec
SYMMETRY Symmetry
CHECK_DEADLOCK FALSE
CONSTANTS
  Loaders = {l1, l2}
  LastDay = 6
  Ranges <- RangesDef
  PageLimit = 2
  KrakenCap = 4
  MaxPages = 2
  Inodes = {1, 2, 3, 4}
  MaxLoads = 3
  MaxCrashes = 1
  Closes = {1, 2}
  Scale = 20
  Lookbacks = {2, 3}
  TargetVol = 8
  Baseline = 3
  LongBaseline = 4
  MinSamples = 2
  Sticky = 2
  Train = 1
  Val = 1
  Test = 3
  Advance = 1
  WarmupExtra = 0
  Asked <- AskedDef
  MaxBars = 10
  MaxStudied = 6
INVARIANTS
  
  
  CrashKeepsCache
  
  LedgerBalances
PROPERTY
  NoPeeking
