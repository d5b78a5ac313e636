------------------------------- MODULE MCOutbox -------------------------------
(* Instances of Outbox small enough for TLC: the faults each run has. *)
EXTENDS Outbox, TLC

NoFaults  == {}
AllFaults == {"abort", "cancel"}

(* Every word that waits is told or dropped in the end, and none is told    *)
(* twice, whatever raises or is cancelled (Outbox.drain_due).               *)
WordsSettleOnce == ToldOnce /\ WordsSettle

(* The sessions are interchangeable. *)
SessionSymmetry == Permutations(Sids)
==============================================================================
