SPECIFICATION MigrateSpec
CONSTANTS
  Off = Off
  Radios = 1
  SampleAge = 1
  DnsAge = 1
  Interval = 1
  MaxTime = 2
  MaxCalls = 3
  MaxFaults = 1
CONSTRAINT ToolOrTime
INVARIANTS
  AcknowledgedKept
PROPERTIES
  MySqlSnapshotsWhole
  RetentionKept
  MigrationSound
