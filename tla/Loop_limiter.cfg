SPECIFICATION Spec
CONSTANTS
  Hour = 2
  Day = 5
  Macs = {m1, m2}
  Aps = {a1, a2}
  NoAp = none
  Configs <- LimiterConfigs
  HasNotifier = FALSE
  DryThrottle = 1
  DnsDetector = TRUE
  WireFaults = TRUE
  StoreFaults = FALSE
  MaxTime = 2
  MaxCalls = 3
  MaxRows = 9
  MaxStarts = 1
SYMMETRY Both
INVARIANTS
  GlobalSpacing
  PerApCap
  OutcomeNamesLastKick
