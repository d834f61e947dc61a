SPECIFICATION Spec
CONSTANTS
  Macs = {lower, upper}
  NoMac = none
  Canon <- OneClient
  Allowlist = {}
  Sources = 2
  Limit = 2
  Cooldowns <- Rungs
  Evaluating = 1
  QuarantineAt = 2
  Hour = 1
  Hours = 2
  Week = 3
  MaxTime = 4
  MaxRows = 3
  MaxBeats = 4
CONSTRAINT OneKind
SYMMETRY Spellings
INVARIANTS
  TilesAddUp
  ReasonIsLastKicks
  HeaderCoversTimeline
  PagesAgree
  StandingsCurrent
