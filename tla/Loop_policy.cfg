SPECIFICATION Spec
CONSTANTS
  Hour = 1
  Day = 5
  Macs = {m1}
  Aps = {a1}
  NoAp = none
  Configs <- PolicyConfigs
  HasNotifier = FALSE
  DryThrottle = 1
  DnsDetector = FALSE
  WireFaults = FALSE
  StoreFaults = FALSE
  MaxTime = 6
  MaxCalls = 4
  MaxRows = 4
  MaxStarts = 2
CONSTRAINT OnePolicy
INVARIANTS
  EscalationHolds
  CapsHold
PROPERTIES
  DeferralEarned
