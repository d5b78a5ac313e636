------------------------------ MODULE DeepShadow -------------------------------
(***************************************************************************)
(* The deep shadow (detector_set = "v2"): a beat reads an ensemble of      *)
(* hypotheses within a budget, the detectors' raw concerns go through the  *)
(* gate chain, every concern that passes is a prediction, and what the     *)
(* user does next settles it in a ledger that moves the tier of the gate   *)
(* and the sensitivity of the detector.  The record is saved at the end of *)
(* a handler, the ledger at once.                                          *)
(***************************************************************************)
EXTENDS Integers, Sequences, FiniteSets, SequencesExt, FiniteSetsExt

CONSTANTS Kinds,       \* detectors
          Strengths,   \* of raw concerns, in percent
          Qs,          \* predicted probabilities the float arithmetic may give, in percent
          Hypotheses, Quota,     \* shadow_hypotheses (clamped to 1..3), shadow_engine_calls_per_beat
          MinN, Window,          \* calibration: rows before a Brier counts, and at most
          HalfDays, MaxFires, MaxCrashes   \* bounds

DeepShadowAssumption ==
  /\ Strengths \subseteq 0..100 /\ Qs \subseteq 0..100
  /\ Hypotheses \in 1..3 /\ {Quota, MinN, Window, HalfDays, MaxFires, MaxCrashes} \subseteq Nat
  /\ IsFiniteSet(Kinds) /\ \E q \in Qs : q >= 50 /\ q <= 70

VARIABLES shadow,      \* the record's block
          shadowDisk,
          rows,        \* the calibration file: [kind, fire, q, y]
          calls,       \* BudgetTracker.history
          round,       \* the beat in flight
          clock,       \* half days
          lives        \* history: number of crashes

svars == <<shadow, shadowDisk, rows, calls, round, clock, lives>>

NoPrediction == [ts |-> 0]
Idle == [on |-> FALSE]
Severity == [normal |-> 0, tight |-> 1, silent |-> 2]
Tiers == DOMAIN Severity \cup {"observe"}
DayOf(t) == t \div 2 + 1

TypeOK ==
  /\ \A k \in Kinds :
       LET c == shadow[k]
       IN /\ c.armed \in BOOLEAN /\ c.day \in 0..DayOf(HalfDays)
          /\ c.beta \in -10..15 /\ c.tier \in Tiers
          /\ c.worse \in {"none", "tight", "silent"} /\ c.streak \in 0..1 /\ (c.streak = 0 <=> c.worse = "none")
          /\ c.fires \in 0..MaxFires /\ c.lost \in 0..MaxFires
          /\ c.prediction # NoPrediction => c.prediction.ts <= clock /\ c.prediction.q \in Qs
  /\ \A i \in 1..Len(rows) : rows[i].kind \in Kinds /\ rows[i].y \in 0..1
  /\ Len(calls) <= 5 /\ lives \in 0..MaxCrashes

------------------------------------------------------------------------------
Total(s) ==
  LET upto[i \in 0..Len(s)] == IF i = 0 THEN 0 ELSE upto[i - 1] + s[i]
  IN upto[Len(s)]

CallsFor(k) == 1 + k

(* decide_k: over the quota on average, the ensemble shrinks to one. *)
Degraded ==
  /\ Hypotheses > 1 /\ calls # <<>>
  /\ Total(calls) > Quota * Len(calls)

Record(n) == LET h == Append(calls, n) IN SubSeq(h, IF Len(h) > 5 THEN Len(h) - 4 ELSE 1, Len(h))

(* hysteresis.step for a raw concern (strength 1) and for none (0). *)
Fires(c) == c.armed /\ c.day # DayOf(clock)

Rearmed(c) == [c EXCEPT !.armed = TRUE]

Margin(tier) == IF tier = "tight" THEN 10 ELSE 0
QCap(tier) == IF tier = "tight" THEN 70 ELSE 100

(* tier_for_brier over the rows of one kind *)
Squares(rs) == FoldSeq(LAMBDA r, sum : (r.q - 100 * r.y) * (r.q - 100 * r.y) + sum, 0, rs)

Candidate(rs) ==
  LET n == Len(rs)
  IN IF n < MinN \/ n = 0 THEN "observe"
     ELSE IF Squares(rs) <= 2000 * n THEN "normal"
     ELSE IF Squares(rs) <= 3000 * n THEN "tight" ELSE "silent"

Settled(c, tier) == [c EXCEPT !.tier = tier, !.worse = "none", !.streak = 0]

(* Bug: two bad windows count, whatever tier they ask for. *)
Evaluated_AnyStreak(c, tier) ==
  IF tier = "observe" \/ c.tier = "observe" \/ Severity[tier] <= Severity[c.tier] \/ c.streak = 1 THEN Settled(c, tier)
  ELSE [c EXCEPT !.worse = tier, !.streak = 1]

(* tier_with_hysteresis: worse only when asked for twice in a row. *)
Evaluated(c, tier) ==
  IF \/ tier = "observe" \/ c.tier = "observe"
     \/ Severity[tier] <= Severity[c.tier]
     \/ c.worse = tier
  THEN Settled(c, tier)
  ELSE [c EXCEPT !.worse = tier, !.streak = 1]

RowsOf(file, k) ==
  LET own == SelectSeq(file, LAMBDA r : r.kind = k)
  IN SubSeq(own, IF Len(own) > Window THEN Len(own) - Window + 1 ELSE 1, Len(own))

Row(k, y) == [kind |-> k, fire |-> shadow[k].prediction.fire, q |-> shadow[k].prediction.q, y |-> y]

(* resolve_prediction: the row is in the file, the window is judged anew. *)
Resolved(k, file) ==
  LET tier == Candidate(RowsOf(file, k))
  IN [Evaluated(shadow[k], tier) EXCEPT !.prediction = NoPrediction, !.asked = tier]

(* update_beta, in hundredths *)
Scarred(c, y) ==
  [c EXCEPT !.beta = IF y = 1 THEN (IF @ - 1 < -10 THEN -10 ELSE @ - 1)
                     ELSE IF @ + 2 > 15 THEN 15 ELSE @ + 2]

(* Rows are written in the order of CTYPES. *)
FileWith(ks, y) == rows \o [i \in 1..Cardinality(ks) |-> Row(SetToSeq(ks)[i], y)]

Pending == {k \in Kinds : shadow[k].prediction # NoPrediction}
TimedOut == {k \in Pending : clock - shadow[k].prediction.ts >= 3}

------------------------------------------------------------------------------
(* The beat has read the ensemble: the calls are counted, predictions no   *)
(* one answered for 36 hours are settled as true.                          *)
BeatRead ==
  /\ ~round.on
  /\ calls' = Record(CallsFor(IF Degraded THEN 1 ELSE Hypotheses))
  /\ round' = [on |-> TRUE, left |-> Kinds, degraded |-> Degraded]
  /\ rows' = FileWith(TimedOut, 1)
  /\ shadow' = [k \in Kinds |-> IF k \in TimedOut THEN Resolved(k, rows') ELSE shadow[k]]
  /\ UNCHANGED <<shadowDisk, clock, lives>>

(* The detector sees nothing. *)
Clear(k) ==
  /\ round.on /\ k \in round.left
  /\ shadow' = [shadow EXCEPT ![k] = Rearmed(@)]
  /\ round' = [round EXCEPT !.left = @ \ {k}]
  /\ UNCHANGED <<shadowDisk, rows, calls, clock, lives>>

(* It sees a concern that the hysteresis holds back. *)
HeldBack(k) ==
  /\ round.on /\ k \in round.left /\ ~Fires(shadow[k])
  /\ round' = [round EXCEPT !.left = @ \ {k}]
  /\ UNCHANGED <<shadow, shadowDisk, rows, calls, clock, lives>>

(* One that fires and is too weak for the tier: its day is used up. *)
TooWeak(k, s) ==
  /\ round.on /\ k \in round.left /\ Fires(shadow[k]) /\ s < Margin(shadow[k].tier)
  /\ shadow' = [shadow EXCEPT ![k] = [@ EXCEPT !.armed = FALSE, !.day = DayOf(clock)]]
  /\ round' = [round EXCEPT !.left = @ \ {k}]
  /\ UNCHANGED <<shadowDisk, rows, calls, clock, lives>>

(* record_prediction: one that is still open is replaced and never settled. *)
Predicted(c, q) ==
  [c EXCEPT !.armed = FALSE, !.day = DayOf(clock), !.fires = @ + 1,
            !.lost = IF c.prediction = NoPrediction THEN @ ELSE @ + 1,
            !.prediction = [ts |-> clock, q |-> q, fire |-> c.fires + 1]]

(* It passes the chain; inject_concern is awaited, its failure swallowed. *)
Fire(k, s, q) ==
  /\ round.on /\ k \in round.left /\ Fires(shadow[k]) /\ s >= Margin(shadow[k].tier)
  /\ q >= 50 /\ q <= QCap(shadow[k].tier)
  /\ shadow[k].fires < MaxFires
  /\ shadow' = [shadow EXCEPT ![k] = Predicted(@, q)]
  /\ round' = [round EXCEPT !.left = @ \ {k}]
  /\ UNCHANGED <<shadowDisk, rows, calls, clock, lives>>

(* The heartbeat ends and saves. *)
BeatDone ==
  /\ round.on /\ round.left = {}
  /\ round' = Idle /\ shadowDisk' = shadow
  /\ UNCHANGED <<shadow, rows, calls, clock, lives>>

(* on_user_turn: the same proxies, so the same outcome, for all that is    *)
(* pending.  submit saves.                                                 *)
UserTurn(y) ==
  /\ ~round.on /\ Pending # {}
  /\ rows' = FileWith(Pending, y)
  /\ shadow' = [k \in Kinds |-> IF k \in Pending THEN Scarred(Resolved(k, rows'), y) ELSE shadow[k]]
  /\ shadowDisk' \in {shadow', shadowDisk}
  /\ UNCHANGED <<calls, round, clock, lives>>

(* Another session saves the table. *)
OtherSave == shadowDisk' = shadow /\ UNCHANGED <<shadow, rows, calls, round, clock, lives>>

Tick ==
  /\ clock < HalfDays /\ clock' = clock + 1 /\ ~round.on
  /\ UNCHANGED <<shadow, shadowDisk, rows, calls, round, lives>>

Crash ==
  /\ lives < MaxCrashes /\ lives' = lives + 1
  /\ shadow' = shadowDisk /\ calls' = <<>> /\ round' = Idle
  /\ UNCHANGED <<shadowDisk, rows, clock>>

NewBlock ==
  [k \in Kinds |-> [armed |-> TRUE, day |-> 0, beta |-> 0, tier |-> "observe", worse |-> "none", streak |-> 0,
                    asked |-> "observe", fires |-> 0, lost |-> 0, prediction |-> NoPrediction]]

Init ==
  /\ shadow = NewBlock /\ shadowDisk = NewBlock /\ rows = <<>> /\ calls = <<>>
  /\ round = Idle /\ clock = 0 /\ lives = 0

Next ==
  \/ BeatRead \/ BeatDone \/ OtherSave \/ Tick \/ Crash
  \/ \E k \in Kinds : Clear(k) \/ HeldBack(k) \/ \E s \in Strengths : TooWeak(k, s) \/ \E q \in Qs : Fire(k, s, q)
  \/ \E y \in 0..1 : UserTurn(y)

Spec == Init /\ [][Next]_svars

------------------------------------------------------------------------------
RowsFor(k, n) == {i \in 1..Len(rows) : rows[i].kind = k /\ rows[i].fire = n}

(* A prediction is settled once, and once more for each crash that takes   *)
(* the record back: the row is written before the record is saved.         *)
SettledOnceEach ==
  \A k \in Kinds : \A n \in 1..MaxFires : Cardinality(RowsFor(k, n)) <= 1 + lives

(* Without a crash every prediction is accounted for: settled, replaced    *)
(* by the next one and counted as unresolved, or still open.               *)
Accounted ==
  lives = 0 =>
    \A k \in Kinds :
      shadow[k].fires = shadow[k].lost + Cardinality({i \in 1..Len(rows) : rows[i].kind = k})
                        + IF shadow[k].prediction = NoPrediction THEN 0 ELSE 1

(* A detector fires at most once a day, however often its concern comes    *)
(* and goes: the hysteresis keeps the day in the record.                   *)
OncePerDay ==
  [][\A k \in Kinds : shadow'[k].fires > shadow[k].fires =>
        shadow[k].fires = 0 \/ shadow[k].day < DayOf(clock)]_svars

(* The gate closes further only after two judgements in a row that ask for *)
(* the same worse tier.                                                    *)
TierEarned ==
  [][lives' = lives => \A k \in Kinds :
       LET old == shadow[k] new == shadow'[k]
       IN old.tier # "observe" /\ new.tier # "observe" /\ Severity[new.tier] > Severity[old.tier]
            => old.asked = new.tier /\ new.asked = new.tier]_svars

(* Over five beats the engine is called no oftener than the quota, but for *)
(* one beat.                                                               *)
WithinQuota ==
  Len(calls) = 5 /\ Quota >= CallsFor(1) => Total(calls) <= 5 * Quota + CallsFor(Hypotheses) - Quota
================================================================================
