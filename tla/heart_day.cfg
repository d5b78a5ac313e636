SPECIFICATION Spec
CONSTANTS
  DayLength = 5
  QuietStart = 1
  QuietEnd = 2
  Night = 1
  Gap = 2
  Horizon = 3
  CapBase = 3
  Dreams = FALSE
  Faults = {}
  StartLevels = {2, 3}
  Pauses = {}
  MaxNow = 5
  MaxCrashes = 1
INVARIANTS TypeOK Restrained
