\* One-shot ticks beside the daemon; the target is nothing or two lots.
SPECIFICATION FairSpec
CONSTANTS
  Cron = {c1}
  Targets = {0, 2}
  CronGate = 1
  DaemonGate = 2
  MaxDay = 2
  MaxFaults = 1
INVARIANTS
  TypeOK
  ClosedDayStaysClosed
  
PROPERTIES
  FlatForGood
  
