SPECIFICATION Spec
CONSTANTS
  Sids = {s1}
  Faults <- NoFaults
  DayLength = 2
  MaxNow = 3
  MaxItems = 2
  MaxGen = 2
  MaxCrashes = 1
INVARIANTS TypeOK SentIsSaved
PROPERTIES OnlyHerWords ToldOnce
