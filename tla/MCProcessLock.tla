---------------------------- MODULE MCProcessLock ----------------------------
(* Two loops that must go on, in behaviours of their own: processes that take *)
(* the lock of one directory, and the rounds of the heartbeat over sessions. *)
EXTENDS ProcessLock

CONSTANTS Sessions, Cap, Hangs, MaxChurn

VARIABLES loop, companions, cursor, batch, visiting, waited, churn

rotationVars == <<companions, cursor, batch, visiting, waited, churn>>

Rot == INSTANCE Rotation

ASSUME RotationConstants == Rot!RotationAssumption

LoopsInit == loop \in {"lock", "rotation"} /\ Init /\ Rot!Init

LoopsNext ==
  \/ loop = "lock" /\ Next /\ UNCHANGED <<loop, rotationVars>>
  \/ loop = "rotation" /\ Rot!Next /\ UNCHANGED <<loop, vars>>

LoopsSpec ==
  /\ LoopsInit /\ [][LoopsNext]_<<loop, vars, rotationVars>>
  /\ loop = "lock" => Fairness
  /\ loop = "rotation" => Rot!Fairness

------------------------------------------------------------------------------
(* However often its owner dies, the directory finds an owner again.        *)
LockFoundAgain == loop = "lock" => OwnedAgain

(* Both loops are well typed, and nobody is left out of the rounds for      *)
(* long: every companion has its turn within N/Cap of them.                 *)
Orderly == TypeOK /\ Rot!TypeOK /\ Rot!WaitBounded

(* Whoever stays is visited again and again.                                *)
EveryoneVisited == loop = "rotation" => Rot!EveryoneVisited
==============================================================================
