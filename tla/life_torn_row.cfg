SPECIFICATION Spec
CONSTANTS
  Sids = {s1}
  Lifespan = 2
  DefaultMode = "companion"
  Faults <- TornFaults
  MaxDay = 3
  MaxGen = 1
  MaxCrashes = 2
INVARIANT RestartAgrees
