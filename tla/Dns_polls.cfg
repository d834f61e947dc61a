SPECIFICATION Spec
CONSTANTS
  Macs = {m1}
  Domains = {x, y}
  Instances = 2
  NewestFirst = TRUE
  Configs <- ThrashConfigs
  Second = 2
  MaxTime = 6
  Page = 1
  MaxQueries = 2
SYMMETRY Names
INVARIANTS
  QueriesCounted
  SustainEarned
