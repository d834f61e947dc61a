SPECIFICATION FairSpec
CONSTANTS
  Hour = 2
  Day = 5
  Macs = {m1}
  Aps = {a1, a2}
  NoAp = none
  Configs <- GuardedConfigs
  HasNotifier = TRUE
  DryThrottle = 1
  DnsDetector = TRUE
  WireFaults = TRUE
  StoreFaults = TRUE
  MaxTime = 1
  MaxCalls = 2
  MaxRows = 2
  MaxStarts = 2
INVARIANTS
  TypeOK
  AuditTruthful
  AllowlistHonoured
  QuarantineBudget
PROPERTIES
  MakesAttempts
  AttemptSettled
  CycleCompletes
