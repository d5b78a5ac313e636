SPECIFICATION Spec
CONSTANTS
  Sids = {s1}
  Names = {n1}
  TTL = 1
  Faults = {"bind"}
  MaxGen = 2
  MaxTokens = 2
  MaxTime = 1
  MaxCrashes = 1
INVARIANT ResourceIsHers
