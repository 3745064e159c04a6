\* A full batch is all the buffer keeps, so that the third line overflows it.
SPECIFICATION FairSpec
CONSTANTS
  Levels = {bid}
  MaxBatch = 2
  Cap = 2
  MaxLines = 3
  MaxWire = 1
  MaxTicks = 1
  MaxFaults = 1
INVARIANTS
  TypeOK
  OverflowIsBounded
  NothingLostQuietly
  CleanExit
  BookIsVenues
  OutagesAreCovered
PROPERTY
  StopEnds
