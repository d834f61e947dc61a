SPECIFICATION FairSpec
CONSTANTS
  m1 = m1
  m2 = m2
  d1 = d1
  d2 = d2
  Macs = {m1, m2}
  Devices = {d1, d2}
  DeviceOf <- OneSpelling
  Configs <- AllConfigs
  Day = 2
  HasNotifier = TRUE
  MaxTime = 4
  MaxStarts = 2
CONSTRAINT OneFamily
INVARIANTS
  CooldownHolds
  OncePerDay
  Justified
PROPERTIES
  EveryTurnComes
