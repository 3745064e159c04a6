\* Two one-shot ticks of one day overlap; nothing fails.
SPECIFICATION Spec
CONSTANTS
  Cron = {c1, c2}
  Targets = {0, 2}
  CronGate = 1
  DaemonGate = 2
  MaxDay = 1
  MaxFaults = 0
INVARIANT
  OneTradePerDay
