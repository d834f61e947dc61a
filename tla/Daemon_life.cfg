SPECIFICATION FairSpec
CHECK_DEADLOCK FALSE
CONSTANTS
  Scanners = 2
  Broken = Broken
  Absent = Absent
  MaxSaves = 3
  MaxStarts = 2
INVARIANTS
  RunsWhatItSaw
  PairsOpenAndClose
PROPERTIES
  ChangeReachesDaemon
  TermEnds
  EveryScannerRuns
