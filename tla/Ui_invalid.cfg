SPECIFICATION Spec
CONSTANTS
  m1 = m1
  Broken = Broken
  Absent = Absent
  Macs = {m1}
  Typed <- Uncapped
  MaxWrites = 1
  MaxTyped = 2
PROPERTIES
  UiSavesValid
