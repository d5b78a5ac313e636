SPECIFICATION LoopsSpec
CONSTANTS
  Procs = {p1, p2, p3}
  Nobody = nobody
  MaxInodes = 2
  MaxSaves = 3
  Sessions = {p1, p2, p3}
  Cap = 2
  Hangs = {}
  MaxChurn = 5
INVARIANTS Orderly MutualExclusion NoLostUpdate
PROPERTIES RefusedByTheLiving LockFoundAgain EveryoneVisited
