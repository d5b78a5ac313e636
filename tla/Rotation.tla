------------------------------- MODULE Rotation --------------------------------
(***************************************************************************)
(* Which sessions the heartbeat visits.  Every interval the loop takes the *)
(* list of the bound companions; when it is longer than                    *)
(* heartbeat_max_sessions it takes the next Cap of them and moves a cursor *)
(* that is kept between rounds while sessions are bound and sealed.  A     *)
(* visit awaits the engine; one that raises does not end the round.        *)
(***************************************************************************)
EXTENDS Integers, Sequences, SequencesExt

CONSTANTS Sessions,
          Cap,          \* heartbeat_max_sessions; 0: no limit
          Hangs,        \* sessions whose engine never answers
          MaxChurn      \* bound: how often a session is bound or sealed

RotationAssumption == Cap \in Nat /\ MaxChurn \in Nat /\ Hangs \subseteq Sessions

VARIABLES companions,  \* the bound companions, in the order of the table
          cursor,      \* _rotation
          batch,       \* what is left of the round
          visiting,    \* whose heartbeat runs; NoVisit between visits
          waited,      \* history: rounds since the last batch a session was in, at most N
          churn

vars == <<companions, cursor, batch, visiting, waited, churn>>

NoVisit == "nobody"
N == Len(companions)

TypeOK ==
  /\ IsInjective(companions) /\ ToSet(companions) \subseteq Sessions
  /\ cursor \in Nat
  /\ ToSet(batch) \subseteq Sessions /\ IsInjective(batch)
  /\ visiting \in Sessions \cup {NoVisit}
  /\ churn \in 0..MaxChurn

------------------------------------------------------------------------------
Start == cursor % N

(* _heartbeat_batch: the list behind itself, cut from the cursor. *)
Batch(cap) == SubSeq(companions \o companions, Start + 1, Start + cap)

(* Bug: the cursor is one past the session that comes next. *)
Advance_Skips(cap) == (Start + cap + 1) % N

(* Bug: the cursor starts anew in every round. *)
Advance_Restarts(cap) == cap % N

Advance(cap) == (Start + cap) % N

Capped(rounds) == IF rounds < N THEN rounds ELSE N

(* The sleep is over: the list is read again, a round begins. *)
Wake ==
  /\ batch = <<>> /\ visiting = NoVisit
  /\ IF Cap = 0 \/ N <= Cap THEN batch' = companions /\ UNCHANGED cursor
     ELSE batch' = Batch(Cap) /\ cursor' = Advance(Cap)
  /\ waited' = [s \in Sessions |-> IF s \in ToSet(companions) \ ToSet(batch') THEN Capped(waited[s] + 1) ELSE 0]
  /\ UNCHANGED <<companions, visiting, churn>>

(* _heartbeat_one *)
Visit ==
  /\ batch # <<>> /\ visiting = NoVisit
  /\ visiting' = Head(batch) /\ batch' = Tail(batch)
  /\ UNCHANGED <<companions, cursor, waited, churn>>

(* It ends, by an exception or not. *)
Leave ==
  /\ visiting # NoVisit /\ visiting \notin Hangs
  /\ visiting' = NoVisit
  /\ UNCHANGED <<companions, cursor, batch, waited, churn>>

(* bind: a new companion stands at the end of the table.  Its share is     *)
(* counted anew for everyone.                                              *)
Bind(s) ==
  /\ churn < MaxChurn /\ churn' = churn + 1
  /\ s \notin ToSet(companions)
  /\ companions' = Append(companions, s)
  /\ waited' = [t \in Sessions |-> 0]
  /\ UNCHANGED <<cursor, batch, visiting>>

(* A farewell, or a bind as steward. *)
Unbind(s) ==
  /\ churn < MaxChurn /\ churn' = churn + 1
  /\ \E i \in 1..N : companions[i] = s /\ companions' = RemoveAt(companions, i)
  /\ waited' = [t \in Sessions |-> 0]
  /\ UNCHANGED <<cursor, batch, visiting>>

Init ==
  /\ companions = <<>> /\ cursor = 0 /\ batch = <<>> /\ visiting = NoVisit
  /\ waited = [s \in Sessions |-> 0] /\ churn = 0

Next ==
  \/ Wake \/ Visit \/ Leave
  \/ \E s \in Sessions : Bind(s) \/ Unbind(s)

(* The loop is one task: its sleeps end, it goes on to the next session,   *)
(* an engine that is not hung answers or raises.                           *)
Fairness == WF_vars(Wake) /\ WF_vars(Visit) /\ WF_vars(Leave)

Spec == Init /\ [][Next]_vars /\ Fairness

------------------------------------------------------------------------------
(* While nobody comes or goes, a companion is left out of fewer than       *)
(* N/Cap rounds in a row: _heartbeat_batch cuts the list without a gap.    *)
WaitBounded ==
  Cap > 0 => \A s \in ToSet(companions) : waited[s] * Cap < N

(* A session that stays a companion is visited again and again, however    *)
(* the list around the cursor changed before.                              *)
EveryoneVisited ==
  \A s \in Sessions : []<>(visiting = s \/ s \notin ToSet(companions))
================================================================================
