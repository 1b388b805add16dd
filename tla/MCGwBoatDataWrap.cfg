SPECIFICATION Spec
CONSTANTS
  Source = {0, 1}
  Speed = {1}
  NA = NA
  Timeout = 2
  MinInterval = 2
  Period = 8
  MaxTime = 12
INVARIANTS ValidIsRecent
