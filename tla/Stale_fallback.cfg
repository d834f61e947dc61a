SPECIFICATION Spec
CONSTANTS
  Hour = 2
  Day = 5
  Macs = {m1}
  Aps = {a1, a2}
  NoAp = none
  Configs <- SpacedConfig
  HasNotifier = FALSE
  DryThrottle = 1
  DnsDetector = FALSE
  WireFaults = FALSE
  StoreFaults = FALSE
  MaxTime = 1
  MaxCalls = 3
  MaxRows = 9
  MaxStarts = 1
INVARIANTS
  NoStaleFallback
