SPECIFICATION Spec
CONSTANTS
  Sids = {s1}
  Lifespan = 3
  DefaultMode = "companion"
  Faults <- AbortFaults
  MaxDay = 4
  MaxGen = 2
  MaxCrashes = 2
INVARIANTS TypeOK RestartAgrees AgingBounded EpochRecordedUntilCrash
PROPERTIES DurableSpec
