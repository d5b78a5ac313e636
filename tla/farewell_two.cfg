SPECIFICATION Spec
CONSTANTS
  Sids = {s1, s2}
  Names = {n1}
  TTL = 1
  Faults = {"export", "save"}
  MaxGen = 2
  MaxTokens = 3
  MaxTime = 2
  MaxCrashes = 1
INVARIANTS TypeOK IrreversibleOnceTold ResourceIsHers
PROPERTY ConsentedSeal
