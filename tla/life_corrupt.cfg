SPECIFICATION Spec
CONSTANTS
  Sids = {s1}
  Lifespan = 2
  DefaultMode = "companion"
  Faults <- CorruptFaults
  MaxDay = 2
  MaxGen = 1
  MaxCrashes = 1
PROPERTY LedgerNeverRises
