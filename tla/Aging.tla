-------------------------------- MODULE Aging --------------------------------
(***************************************************************************)
(* What the persistent state of Yelos promises about a life, without any   *)
(* process, crash, ledger or file: a session is unborn, then lives through *)
(* generations numbered 1, 2, ...; in a generation the plasticity P only   *)
(* falls; a sealed generation stays sealed, and only a sealed one (or none *)
(* at all) is followed by the next.  The store writes all sessions with    *)
(* one save, so several lives may move in the same step.                   *)
(***************************************************************************)
EXTENDS Integers

CONSTANTS Sids,   \* the sessions
          Full    \* the plasticity of a new life, in the units of BindingLife

VARIABLE life     \* [Sids -> generation, plasticity, status]; generation 0: unborn

Lives == [gen : Nat, p : 0..Full, status : {"bound", "sealed"}]

Unborn == [gen |-> 0, p |-> Full, status |-> "bound"]

Init == life = [s \in Sids |-> Unborn]

(* The same generation, no younger than before, and never unsealed. *)
Older(a, b) == /\ b.gen = a.gen
               /\ b.p <= a.p
               /\ a.status = "sealed" => b.status = "sealed"

(* The next generation, after the previous one was sealed (or at first). *)
Reborn(a, b) == /\ b.gen = a.gen + 1
                /\ a.gen = 0 \/ a.status = "sealed"

Next == /\ life' \in [Sids -> Lives]
        /\ \A s \in Sids : Older(life[s], life'[s]) \/ Reborn(life[s], life'[s])

Spec == Init /\ [][Next]_life
==============================================================================
