SPECIFICATION FairSpec
CONSTANTS
  Sids = {s1}
  Faults <- AllFaults
  DayLength = 2
  MaxNow = 2
  MaxItems = 2
  MaxGen = 1
  MaxCrashes = 1
PROPERTY WordsSettleOnce
