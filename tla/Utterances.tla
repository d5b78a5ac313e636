------------------------------ MODULE Utterances ------------------------------
(***************************************************************************)
(* What the outbox promises about an utterance she wants to make: it waits *)
(* until it is told to the agent once, or is gone for good.  Nothing is    *)
(* told twice, nothing that is gone is told, whatever the process, its     *)
(* queue and its file go through.                                          *)
(***************************************************************************)
EXTENDS Integers

CONSTANT Words      \* the utterances

VARIABLES state,    \* where each of them is
          tellings  \* how often each was told

vars == <<state, tellings>>

States == {"none", "waiting", "told", "gone"}

Init == /\ state = [w \in Words |-> "none"]
        /\ tellings = [w \in Words |-> 0]

Stay(w)   == state'[w] = state[w] /\ tellings'[w] = tellings[w]
Want(w)   == state[w] = "none" /\ state'[w] = "waiting" /\ tellings'[w] = tellings[w]
Tell(w)   == state[w] = "waiting" /\ state'[w] = "told" /\ tellings'[w] = tellings[w] + 1
Vanish(w) == state[w] = "waiting" /\ state'[w] = "gone" /\ tellings'[w] = tellings[w]

(* A poll, a crash or a beat of the heart moves several at once. *)
Next == /\ state' \in [Words -> States]
        /\ tellings' \in [Words -> Nat]
        /\ \A w \in Words : Stay(w) \/ Want(w) \/ Tell(w) \/ Vanish(w)

Spec == Init /\ [][Next]_vars
==============================================================================
