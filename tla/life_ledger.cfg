SPECIFICATION Spec
CONSTANTS
  Sids = {s1}
  Lifespan = 2
  DefaultMode = "companion"
  Faults <- LedgerFaults
  MaxDay = 3
  MaxGen = 2
  MaxCrashes = 2

PROPERTIES LedgerNeverRises
