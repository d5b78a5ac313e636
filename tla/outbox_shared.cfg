SPECIFICATION Spec
CONSTANTS
  Sids = {s1, s2}
  Faults <- NoFaults
  DayLength = 2
  MaxNow = 2
  MaxItems = 1
  MaxGen = 1
  MaxCrashes = 1
INVARIANT SentIsSaved
