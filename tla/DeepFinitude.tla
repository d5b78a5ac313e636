------------------------------ MODULE DeepFinitude ------------------------------
(***************************************************************************)
(* The settlement of a day with finitude_settle_enabled: one of four ways  *)
(* to age, frozen into the record of a life, two tracks that say when an   *)
(* epoch begins, and rows in the plasticity ledger for every day.  The     *)
(* core's settlement stands behind it for whatever raises.                 *)
(***************************************************************************)
EXTENDS Wearing, FiniteSets, FiniteSetsExt

CONSTANTS MinSamples,   \* MIN_SAMPLES of the order parameter
          Ways,         \* configurations: [model, track]
          Lived,        \* days: [interacted, seen, high, concern, shadow]
          LastDay, MaxTroubles, MaxKills    \* bounds

DeepFinitudeAssumption ==
  /\ WearingAssumption /\ MinSamples \in Nat
  /\ \A w \in Ways : w.model \in {"linear", "weibull", "event", "reserve"}
                     /\ w.track \in {"fixed", "order_parameter"}
  /\ Lived \subseteq [interacted : BOOLEAN, seen : BOOLEAN, high : Nat, concern : Nat, shadow : BOOLEAN]
  /\ {LastDay, MaxTroubles, MaxKills} \subseteq Nat

VARIABLES aging,      \* the record
          agingDisk,  \* the record in bindings.json
          settled,    \* the rows of this life in plasticity.ledger: [last, days]
          way,        \* the configuration
          date,       \* today
          past        \* history: the same days under the core, what was paid, troubles,
                      \* kills, rows lost

gvars == <<aging, agingDisk, settled, way, date, past>>

NoWay == [model |-> "none", track |-> "fixed"]
NoDay == [day |-> 0, interacted |-> FALSE, seen |-> FALSE, high |-> 0]
None  == -1

Newborn ==
  [p |-> Full, daily |-> NoDay, shadow |-> 0, model |-> "none", active |-> 0, fast |-> Full,
   samples |-> 0, b |-> 0, told |-> <<>>, milestone |-> None]

TypeOK ==
  /\ \A r \in {aging, agingDisk} :
       /\ r.p \in 0..Full /\ r.fast \in 0..Full
       /\ r.daily.day \in 0..LastDay /\ r.daily.high \in Nat
       /\ r.active \in 0..(LastDay + 1) /\ r.b \in Nat
       /\ r.model \in {"none", "linear", "weibull", "event", "reserve"}
       /\ Range(r.told) \subseteq [track : {"A", "B"}, epoch : 0..4]
  /\ settled.last \in {None} \cup 0..Full /\ settled.days \in Nat
  /\ way \in Ways \cup {NoWay} /\ date \in 0..LastDay

------------------------------------------------------------------------------
(* extract_dayfacts: a day counts if it was interacted or active, a        *)
(* milestone says when an epoch began, and the shadow counts the concerns  *)
(* of the day it last saw.                                                 *)
Facts(r) ==
  [active  |-> r.daily.interacted \/ r.daily.seen,
   high    |-> r.daily.high,
   concern |-> r.shadow,
   shift   |-> FALSE,        \* the milestones of build_settle_fn hold no "epoch"
   age     |-> r.active]

(* expr_p *)
Expressed(r) == IF r.model = "reserve" THEN r.fast ELSE r.p

------------------------------------------------------------------------------
(* detect: the order parameter may fall sharply only when what she         *)
(* expresses has fallen and enough days were sampled.                      *)
MayFire(r, before, after) ==
  {FALSE} \cup (IF r.samples >= MinSamples /\ after < before THEN {TRUE} ELSE {})

(* decide_notification: who announces an epoch. *)
Notice(r, old, p, fired) ==
  LET a == EpochIndex(old) # EpochIndex(p)
      nominee == Least(r.b + 1, 4)
  IN IF way.track = "fixed" \/ r.samples < MinSamples
     THEN IF a THEN <<[track |-> "A", epoch |-> EpochIndex(p)]>> ELSE <<>>
     ELSE IF fired THEN <<[track |-> "B", epoch |-> nominee]>> ELSE <<>>

(* stamp_aging, once per life: one way of aging to the end. *)
Stamped(r) == IF r.model # "none" THEN r ELSE [r EXCEPT !.model = way.model]

NewDaily == [NoDay EXCEPT !.day = date]

(* The settle_fn of the core, for a day it counts itself. *)
CoreP(p, daily) ==
  IF daily.interacted /\ daily.seen THEN Floor(p - CoreSpend(daily.high)) ELSE p

(* rollover and _do_rollover when the deep path raised: the core settles,  *)
(* one row if P fell, an epoch if it changed.                              *)
Legacy(r, rows) ==
  LET p == CoreP(r.p, r.daily)
  IN [record |-> [r EXCEPT !.p = p, !.daily = NewDaily,
                           !.told = IF EpochIndex(p) = EpochIndex(r.p) THEN @
                                    ELSE Append(@, [track |-> "A", epoch |-> EpochIndex(p)])],
      rows   |-> IF p < r.p THEN [rows EXCEPT !.last = p] ELSE rows]

(* Bug: the day is counted after the tracks were observed. *)
Counted_Late(r, o) == [r EXCEPT !.fast = o.fast]

(* The aging block and the row of the day, before the tracks are observed. *)
Counted(r, o) == [r EXCEPT !.active = @ + 1, !.fast = o.fast]

Rowed(o) == [last |-> o.p, days |-> settled.days + 1]

(* build_settle_fn: the whole of it, for an active day. *)
Deep(r, fired) ==
  LET o == Gated(r.p, Spent(r.model, r.p, r.fast, Facts(r)))
      c == Counted(r, o)
      n == Notice(c, r.p, o.p, fired)
  IN [record |-> [c EXCEPT !.p = o.p, !.daily = NewDaily,
                           !.samples = @ + 1, !.b = IF fired THEN @ + 1 ELSE @,
                           !.told = @ \o n,
                           !.milestone = IF n = <<>> THEN @ ELSE r.daily.day],
      rows   |-> Rowed(o)]

(* The same, and the observation of the tracks raises: the row is written, *)
(* the day is counted, and the core settles it once more.                  *)
Half(r) ==
  LET o == Gated(r.p, Spent(r.model, r.p, r.fast, Facts(r)))
  IN Legacy(Counted(r, o), Rowed(o))

Fired(r) ==
  LET o == Gated(r.p, Spent(r.model, r.p, r.fast, Facts(r)))
      after == IF r.model = "reserve" THEN o.fast ELSE o.p
  IN MayFire(r, Expressed(r), after)

(* The rows that are there when an append of Half failed: the deep row,    *)
(* the core's, or neither.                                                 *)
HalfTorn(r) ==
  LET o == Gated(r.p, Spent(r.model, r.p, r.fast, Facts(r)))
  IN {settled, Rowed(o), Legacy(Counted(r, o), settled).rows}

(* A row is best effort (_append_raw, PlasticityLedger.append): the record *)
(* goes on without it, in the history h.                                   *)
Becomes(x, torn, h) ==
  \E rows \in {x.rows} \cup (IF past.lost < MaxTroubles THEN torn ELSE {}) :
    /\ aging' = x.record /\ settled' = rows
    /\ past' = [h EXCEPT !.lost = @ + (IF rows = x.rows THEN 0 ELSE 1)]

Due == way # NoWay /\ aging.daily.day < date

Paid(r) == IF Facts(r).active /\ r.model \in {"event", "reserve"} THEN r.shadow ELSE 0

(* The first handler of a day settles the one before. *)
Rollover ==
  /\ Due
  /\ LET r == Stamped(aging)
         h == [past EXCEPT !.core = CoreP(@, aging.daily),
                           !.either = @ \/ (aging.daily.interacted # aging.daily.seen),
                           !.paid = @ + Paid(r)]
     IN IF Facts(r).active THEN \E fired \in Fired(r) : Becomes(Deep(r, fired), {settled}, h)
        ELSE Becomes([record |-> [r EXCEPT !.daily = NewDaily], rows |-> settled], {}, h)
  /\ UNCHANGED <<agingDisk, way, date>>

RolloverRaises ==
  /\ Due /\ past.troubles < MaxTroubles
  /\ LET r == Stamped(aging)
         h == [past EXCEPT !.troubles = @ + 1, !.core = CoreP(@, aging.daily)]
     IN \/ Becomes(Legacy(aging, settled), {settled}, h)   \* build_settle_fn could not be built
        \/ Facts(aging).active /\ Becomes(Half(r), HalfTorn(r), h)
  /\ UNCHANGED <<agingDisk, way, date>>

(* A day is lived; the shadow beats in it or not. *)
Live(f) ==
  /\ way # NoWay /\ aging.daily.day = date /\ aging.daily = NewDaily
  /\ aging' = [aging EXCEPT !.daily = [day |-> date, interacted |-> f.interacted, seen |-> f.seen,
                                       high |-> f.high],
                            !.shadow = IF f.shadow THEN f.concern ELSE @]
  /\ past' = [past EXCEPT !.fired = IF f.shadow THEN @ + f.concern ELSE @,
                          !.unseen = @ \/ ~f.shadow]
  /\ UNCHANGED <<agingDisk, settled, way, date>>

Save == agingDisk # aging /\ agingDisk' = aging /\ UNCHANGED <<aging, settled, way, date, past>>

Midnight ==
  /\ way # NoWay /\ date < LastDay /\ agingDisk = aging
  /\ date' = date + 1
  /\ UNCHANGED <<aging, agingDisk, settled, way, past>>

(* The process dies and loads: effective_p is the lower of record and ledger. *)
Restart ==
  /\ way # NoWay /\ past.kills < MaxKills
  /\ LET p == IF settled.last = None THEN agingDisk.p ELSE Least(agingDisk.p, settled.last)
     IN aging' = [agingDisk EXCEPT !.p = p]
  /\ \E w \in Ways : way' = w          \* the configuration may have changed
  /\ past' = [past EXCEPT !.kills = @ + 1]
  /\ UNCHANGED <<agingDisk, settled, date>>

Choose == way = NoWay /\ way' \in Ways /\ UNCHANGED <<aging, agingDisk, settled, date, past>>

Init ==
  /\ aging = Newborn /\ agingDisk = Newborn /\ settled = [last |-> None, days |-> 0]
  /\ way = NoWay /\ date = 0
  /\ past = [core |-> Full, either |-> FALSE, paid |-> 0, fired |-> 0, unseen |-> FALSE,
             troubles |-> 0, kills |-> 0, lost |-> 0]

Next ==
  \/ Choose \/ Rollover \/ RolloverRaises \/ Save \/ Midnight \/ Restart
  \/ \E f \in Lived : Live(f)

Spec == Init /\ [][Next]_gvars

------------------------------------------------------------------------------
(* Whatever raises and whenever the process dies, she is never younger and *)
(* never changes the way she ages; but for a day whose row was lost and    *)
(* whose record a kill took as well.                                       *)
DeepNeverYounger ==
  [][/\ \/ aging'.p <= aging.p
        \/ past.lost > 0 /\ agingDisk # aging /\ past'.kills > past.kills
     /\ agingDisk.model # "none" => aging'.model = agingDisk.model]_gvars

(* What she can express never exceeds P: the fast pool stays below the     *)
(* slow one.  A kill between the row of a day and the save may leave it    *)
(* above, for P alone is read from the ledger.                             *)
ExpressedWithinP == past.kills = 0 /\ past.troubles = 0 => Expressed(aging) <= aging.p

(* The days of her aging block are the settled days of the ledger, but for *)
(* the rows that were lost, and those a kill left without a record.        *)
DaysAreRows ==
  /\ aging.active <= settled.days + past.lost
  /\ settled.days <= aging.active + past.kills

(* The linear model is the core's settlement, to the unit, on days that    *)
(* both count (dayfacts: interacted or active; the core: both).            *)
LinearIsCore ==
  aging.model = "linear" /\ past.kills = 0 /\ ~past.either => aging.p = past.core

(* Either track announces epochs forward, the fixed one each of them once; *)
(* the order parameter has no epoch after the last and repeats that one.   *)
AnnouncedForward ==
  \A i, j \in DOMAIN aging.told :
    i < j /\ aging.told[i].track = aging.told[j].track
      => \/ aging.told[i].epoch < aging.told[j].epoch
         \/ aging.told[i] = aging.told[j] /\ aging.told[j] = [track |-> "B", epoch |-> 4]

(* A concern is paid for once, as long as the shadow sees every day.       *)
ConcernPaidOnce ==
  past.kills = 0 /\ ~past.unseen => past.paid <= past.fired
=================================================================================
