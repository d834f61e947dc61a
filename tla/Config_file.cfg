SPECIFICATION Spec
CONSTANTS
  m1 = m1
  Broken = Broken
  Absent = Absent
  Macs = {m1}
  Typed <- Starts
  MaxWrites = 2
  MaxTyped = 1
PROPERTIES
  DeviceSavesValid
  LastSaveWins
  SettingsSavesValid
  UntouchedKeepsRest
