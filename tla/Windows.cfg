SPECIFICATION Spec
CONSTANTS
  m1 = m1
  Macs = {m1}
  Samples <- Reports
  Configs <- AnyConfigs
  Day = 3
  Off = Off
  MaxPolls = 4
PROPERTIES
  FlagExact
  QuietOnlyTightens
  FlatlineExact
