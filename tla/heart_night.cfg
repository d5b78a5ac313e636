SPECIFICATION Spec
CONSTANTS
  DayLength = 3
  QuietStart = 2
  QuietEnd = 1
  Night = 1
  Gap = 1
  Horizon = 3
  CapBase = 1
  Dreams = TRUE
  Faults = {"slow", "abort"}
  StartLevels = {4}
  Pauses = {}
  MaxNow = 4
  MaxCrashes = 0
INVARIANTS InTheirTime OneDream
PROPERTY DreamOfOneNight
