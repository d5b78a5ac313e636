----------------------------- MODULE Arbitration -------------------------------
(***************************************************************************)
(* What becomes of the agent's draft.  affect_arbitrate asks a policy for  *)
(* a verdict (core/arbiter.arbitrate, or the deep pipeline of guards,      *)
(* policy and filters), applies it to the record and, when the pipeline is *)
(* on, remembers the intervention until the user reacts: the next words of *)
(* the user settle it, or the first heartbeat of the next day does.  What  *)
(* is settled moves theta, and theta moves the thresholds of the policies. *)
(*                                                                         *)
(* Numbers are hundredths (P, pressure, expression, thresholds); a hash is *)
(* a byte chosen freely; theta is counted in 25ths of its box, which is    *)
(* one STEP of the code.  What a draft says is its number of sentences.    *)
(***************************************************************************)
EXTENDS Integers, FiniteSets

CONSTANTS Policies,      \* the policies tried: "core" is the pipeline switched off
          Levels,        \* bound: the P she may have, falling, in hundredths
          Drafts,        \* bound: what an arbitration finds (records, see Draft)
          DayLength,     \* ticks of a day
          MinGap,        \* arbiter_min_gap_seconds, in ticks
          Budget,        \* daily_budget of the conservative policy
          Stride,        \* bound: the STEPs one reaction moves theta by
          MaxNow, MaxCrashes, MaxVerdicts   \* bounds: clock, kills, verdicts kept

ArbitrationAssumption ==
  /\ Policies \subseteq {"core", "table", "conservative", "smooth", "duel"}
  /\ Levels \subseteq 0..100 /\ 100 \in Levels
  /\ DayLength \in Nat \ {0} /\ MinGap \in Nat /\ Budget \in Nat
  /\ Stride \in 0..25 /\ MaxNow \in Nat /\ MaxCrashes \in Nat /\ MaxVerdicts \in Nat
  /\ Drafts \subseteq [action : STRING, pressure : Int, expr : Int, sentences : Nat,
                       byte : 0..255, even : BOOLEAN, plain : BOOLEAN, allowed : BOOLEAN,
                       silenced : BOOLEAN]

VARIABLES policy,    \* arbiter_policy; "none" until the manager is built
          manner,    \* her record, as far as verdicts read and write it
          kept,      \* ... as last saved
          turn,      \* what the handler in flight awaits
          verdicts,  \* history: the verdicts that changed a draft or gave a recover word
          now, crashes

vars == <<policy, manner, kept, turn, verdicts, now, crashes>>

Never == -1 - MinGap
Day(t) == t \div DayLength
Params == {"d_sw", "d_rp", "d_ex", "gamma_offset"}
Signs == {-1, 0, 1}
NoPending == "none"

TypeOK ==
  /\ policy \in Policies \cup {"none"}
  /\ \A r \in {manner, kept} :
       /\ r.p \in Levels /\ r.day \in 0..Day(now)
       /\ r.last \in {Never} \cup 0..now
       /\ r.high <= r.swallowed /\ r.swallowed <= r.total
       /\ r.pending \in {NoPending, "SWALLOW", "REPLACE", "TRIM_hold", "TRIM_express"}
       /\ r.theta \in [Params -> -25..25]
       /\ r.fast \in Signs /\ r.slow \in Signs
  /\ manner.p <= kept.p
  /\ turn \in {"idle", "submit", "beat"}

------------------------------------------------------------------------------
(* The lattice of verdicts. *)
Sigma(kind) == CASE kind = "PASS" -> 0 [] kind = "TRIM" -> 1
                 [] kind = "REPLACE" -> 2 [] kind = "SWALLOW" -> 3

V(kind) == [kind |-> kind, freeze |-> FALSE, reach |-> FALSE, recover |-> FALSE,
            late |-> FALSE, high |-> FALSE]

(* _gate_allows: the hash of session, day, action and draft against P. *)
GateAllows(d, p, scale) == d.byte * 5000 < 255 * scale * p

(* _gate_or_pass: with P >= .5 nothing is gated. *)
Gated(v, d, p) == IF p >= 50 \/ GateAllows(d, p, 100) THEN v ELSE V("PASS")

Narrow(p) == p <= 15

(* The guards, sovereignty first; any of them lets the draft pass. *)
Guarded(r, d, t) ==
  \/ d.silenced
  \/ ~d.plain
  \/ ~d.allowed
  \/ t - r.last < MinGap

Withdrawn(d, p) ==
  LET heavy == d.pressure >= (IF p >= 50 THEN 75 ELSE 70)
  IN IF heavy /\ ~Narrow(p)
     THEN [V("SWALLOW") EXCEPT !.late = TRUE, !.high = d.pressure >= 75]
     ELSE Gated(V("REPLACE"), d, p)

Held(d, p) ==
  IF Narrow(p) THEN V("PASS")
  ELSE IF d.expr < 30 THEN V("SWALLOW")
  ELSE Gated(V(IF d.even THEN "TRIM" ELSE "REPLACE"), d, p)

Recovered(d, p) ==
  [V(IF Narrow(p) \/ d.sentences <= 3 \/ (p < 50 /\ ~GateAllows(d, p, 100))
     THEN "PASS" ELSE "TRIM") EXCEPT !.recover = TRUE]

Expressed(d, p) ==
  IF d.expr >= 70 /\ d.pressure <= 30 /\ d.sentences > 3 /\ ~Narrow(p)
  THEN Gated(V("TRIM"), d, p) ELSE V("PASS")

(* core/arbiter.arbitrate *)
Table(r, d, t) ==
  IF Guarded(r, d, t) THEN V("PASS")
  ELSE CASE d.action = "withdraw"  -> Withdrawn(d, r.p)
         [] d.action = "hold"      -> Held(d, r.p)
         [] d.action = "guard"     -> [V("PASS") EXCEPT !.freeze = TRUE]
         [] d.action = "recover"   -> Recovered(d, r.p)
         [] d.action = "reach_out" -> [V("PASS") EXCEPT !.reach = TRUE]
         [] d.action = "express"   -> Expressed(d, r.p)
         [] OTHER                  -> V("PASS")    \* explore, and what it does not know

(* compose_policy_params: the step curve, moved by theta, clipped. *)
Clip(x, lo, hi) == IF x < lo THEN lo ELSE IF x > hi THEN hi ELSE x
SwallowTh(r) == Clip((IF r.p >= 50 THEN 75 ELSE 70) + r.theta["d_sw"] \div 5, 60, 90)
ReplaceTh(r) == Clip(55 + r.theta["d_rp"] \div 5, 45, 65)
ExpressTh(r) == Clip(70 + (2 * r.theta["d_ex"]) \div 5, 55, 85)
GateScale(r) == Clip(100 + (4 * r.theta["gamma_offset"]) \div 5, 80, 120)

Bias(action) == CASE action = "withdraw" -> 50 [] action = "hold" -> 20
                  [] action = "recover" -> 10 [] action = "express" -> 0
                  [] action \in {"guard", "reach_out", "explore"} -> -30
                  [] OTHER -> 0

(* _score, in units of 1/10000; fatigue and warmth default to zero and the *)
(* age of the surface is always given as zero.                             *)
Score(d, p) == 100 * d.pressure + 30 * (d.expr - 50) + 20 * (p - 50)
               + 125 * (IF d.sentences > 8 THEN 8 ELSE d.sentences) - 500 + 10 * Bias(d.action)

Smooth(r, d) ==
  LET s == Score(d, r.p)
  IN CASE d.action = "guard"     -> [V("PASS") EXCEPT !.freeze = TRUE]
       [] d.action = "reach_out" -> [V("PASS") EXCEPT !.reach = TRUE]
       [] d.action = "explore"   -> V("PASS")
       [] OTHER ->
          IF s >= 100 * SwallowTh(r)
          THEN [V("SWALLOW") EXCEPT !.late = d.action = "withdraw", !.high = d.pressure >= 75]
          ELSE IF s >= 100 * ReplaceTh(r) THEN V("REPLACE")
          ELSE V(IF d.expr >= ExpressTh(r) /\ s >= 100 * (ReplaceTh(r) - 15)
                 THEN "TRIM" ELSE "PASS")

(* Its abstention from an old surface never applies: the age is zero. *)
(* Only an intervention is denied: a PASS keeps what it brings along.      *)
Conservative(r, d, t) ==
  LET v == Table(r, d, t)
  IN IF r.interventions >= Budget /\ Sigma(v.kind) >= 1 THEN V("PASS") ELSE v

(* Bug: the stronger of the two. *)
Duel_Stronger(r, d, t) ==
  IF Sigma(Table(r, d, t).kind) >= Sigma(Smooth(r, d).kind) THEN Table(r, d, t) ELSE Smooth(r, d)

(* Table against smooth: the milder, the table's when they agree. *)
Duel(r, d, t) ==
  IF Sigma(Table(r, d, t).kind) <= Sigma(Smooth(r, d).kind) THEN Table(r, d, t) ELSE Smooth(r, d)

PostGate(v, r, d) ==
  IF \/ Narrow(r.p) /\ v.kind # "PASS"
     \/ v.kind \in {"TRIM", "REPLACE"} /\ r.p < 50 /\ ~GateAllows(d, r.p, GateScale(r))
  THEN V("PASS") ELSE v

(* ArbiterPipeline.run: guards, the policy, the filter; the table has neither. *)
Pipeline(pol, r, d, t) ==
  CASE pol = "table" -> Table(r, d, t)
    [] pol # "table" /\ Guarded(r, d, t) -> V("PASS")
    [] pol # "table" /\ ~Guarded(r, d, t) ->
         PostGate(CASE pol = "conservative" -> Conservative(r, d, t)
                    [] pol = "smooth"       -> Smooth(r, d)
                    [] pol = "duel"         -> Duel(r, d, t), r, d)

(* kind_for_intervention: a TRIM of recover is not one that is learnt from. *)
KindFor(action, kind) ==
  CASE kind \in {"SWALLOW", "REPLACE"} -> kind
    [] kind = "TRIM" /\ action = "hold" -> "TRIM_hold"
    [] kind = "TRIM" /\ action = "express" -> "TRIM_express"
    [] OTHER -> NoPending

------------------------------------------------------------------------------
(* EmaState.update, by its sign: an average of one sign stays or turns. *)
EmaSigns(s, reaction) ==
  IF s = 0 THEN {reaction} ELSE IF reaction \in {0, s} THEN {s} ELSE Signs

SignFor(kind, param, reaction) ==
  CASE kind = "SWALLOW" /\ param = "d_sw" -> -reaction
    [] kind = "REPLACE" /\ param = "d_rp" -> -reaction
    [] kind = "REPLACE" /\ param = "gamma_offset" -> reaction
    [] kind = "TRIM_hold" /\ param = "d_sw" /\ reaction < 0 -> -1
    [] kind = "TRIM_express" /\ param = "d_ex" -> -reaction
    [] OTHER -> 0

(* Bug: theta is not projected back into its box. *)
ApplyUpdate_Unprojected(r, reaction, fast, slow) ==
  IF fast * slow <= 0 \/ r.p = 0 THEN r.theta
  ELSE [k \in Params |-> r.theta[k] + Stride * SignFor(r.pending, k, reaction)]

(* apply_update: not without consensus of both averages, not at P = 0. *)
ApplyUpdate(r, reaction, fast, slow) ==
  IF fast * slow <= 0 \/ r.p = 0 THEN r.theta
  ELSE [k \in Params |->
          Clip(r.theta[k] + Stride * SignFor(r.pending, k, reaction), -25, 25)]

(* Bug: what is settled stays pending. *)
Settle_StaysPending(r, reaction, fast, slow) ==
  IF r.pending = NoPending THEN r
  ELSE [r EXCEPT !.theta = ApplyUpdate(r, reaction, fast, slow),
                 !.fast = fast, !.slow = slow, !.settled = @ + 1]

(* _settle_common *)
Settle(r, reaction, fast, slow) ==
  IF r.pending = NoPending THEN r
  ELSE [r EXCEPT !.theta = ApplyUpdate(r, reaction, fast, slow),
                 !.fast = fast, !.slow = slow, !.settled = @ + 1, !.pending = NoPending]

(* Only with the pipeline built. *)
Settles(r, reaction) ==
  IF policy = "core" \/ r.pending = NoPending THEN {r}
  ELSE {Settle(r, reaction, f, s) : f \in EmaSigns(r.fast, reaction),
                                    s \in EmaSigns(r.slow, reaction)}

(* register_intervention: the one before it, if pending, is forgotten. *)
Registered(r, kind) ==
  IF kind = NoPending THEN r
  ELSE [r EXCEPT !.pending = kind, !.made = @ + 1, !.interventions = @ + 1]

(* _do_rollover *)
Rolled(r, p) ==
  IF r.day = Day(now) THEN r
  ELSE [r EXCEPT !.day = Day(now), !.last = Never, !.swallowed = 0, !.high = 0,
                 !.interventions = 0, !.recoverUsed = FALSE, !.p = p]

(* What P may be after the rollover, if there is one. *)
Falls == IF manner.day = Day(now) THEN {manner.p} ELSE {p \in Levels : p <= manner.p}

(* Bug: a trimmed draft does not start the gap. *)
Applied_TrimFree(r, v) ==
  CASE v.kind = "SWALLOW" ->
         [r EXCEPT !.swallowed = @ + 1, !.total = @ + 1, !.last = now,
                   !.high = IF v.high THEN @ + 1 ELSE @]
    [] v.kind = "REPLACE" -> [r EXCEPT !.last = now]
    [] OTHER -> r

(* _apply_verdict *)
Applied(r, v) ==
  CASE v.kind = "SWALLOW" ->
         [r EXCEPT !.swallowed = @ + 1, !.total = @ + 1, !.last = now,
                   !.high = IF v.high THEN @ + 1 ELSE @]
    [] v.kind \in {"REPLACE", "TRIM"} -> [r EXCEPT !.last = now]
    [] v.kind = "PASS" -> r

GaveRecover(r, primal) == [r EXCEPT !.recoverUsed = @ \/ primal]

Save(r) == manner' = r /\ kept' = r

------------------------------------------------------------------------------
(* _build_arbiter_pipeline: the settings are read once. *)
Build(pol) ==
  /\ policy = "none"
  /\ policy' = pol
  /\ UNCHANGED <<manner, kept, turn, verdicts, now, crashes>>

(* affect_arbitrate; the pipeline may raise, and the core decides. *)
Arbitrate(d, p, raised) ==
  LET r  == Rolled(manner, p)
      v  == IF policy = "core" \/ raised THEN Table(r, d, now) ELSE Pipeline(policy, r, d, now)
      k  == IF policy = "core" \/ raised THEN NoPending ELSE KindFor(d.action, v.kind)
      a  == Applied(Registered(r, k), v)
      primal == v.recover /\ ~r.recoverUsed
  IN /\ policy # "none" /\ turn = "idle"
     /\ raised => policy # "core"
     /\ Save(GaveRecover(a, primal))
     /\ IF v.kind = "PASS" /\ ~primal THEN UNCHANGED verdicts
        ELSE /\ Cardinality(verdicts) < MaxVerdicts
             /\ verdicts' = verdicts \cup
                  {[kind |-> v.kind, at |-> now, day |-> r.day, narrow |-> Narrow(r.p),
                    recover |-> d.action = "recover", core |-> Table(r, d, now).kind,
                    raised |-> raised, primal |-> primal, nth |-> Cardinality(verdicts)]}
     /\ UNCHANGED <<policy, turn, now, crashes>>

(* affect_submit awaits the engine, then settles what is pending. *)
SubmitStart(p) ==
  /\ policy # "none" /\ turn = "idle"
  /\ manner' = Rolled(manner, p)
  /\ turn' = "submit"
  /\ UNCHANGED <<policy, kept, verdicts, now, crashes>>

SubmitDone(reaction) ==
  /\ turn = "submit"
  /\ \E r \in Settles(manner, reaction) : Save(r)
  /\ turn' = "idle"
  /\ UNCHANGED <<policy, verdicts, now, crashes>>

(* Before the rollover a heartbeat settles what the day left unanswered. *)
BeatStart(p) ==
  /\ policy # "none" /\ turn = "idle"
  /\ \E r \in IF manner.day # Day(now) THEN Settles(manner, -1) ELSE {manner} :
       manner' = Rolled(r, p)
  /\ turn' = "beat"
  /\ UNCHANGED <<policy, kept, verdicts, now, crashes>>

BeatDone ==
  /\ turn = "beat"
  /\ Save(manner)
  /\ turn' = "idle"
  /\ UNCHANGED <<policy, verdicts, now, crashes>>

(* Another session saves the whole table. *)
OtherSaves ==
  /\ turn # "idle" /\ kept # manner
  /\ Save(manner)
  /\ UNCHANGED <<policy, turn, verdicts, now, crashes>>

Crash ==
  /\ policy # "none" /\ crashes < MaxCrashes
  /\ crashes' = crashes + 1
  /\ manner' = kept
  /\ turn' = "idle"
  /\ UNCHANGED <<policy, kept, verdicts, now>>

Tick ==
  /\ policy # "none" /\ now < MaxNow
  /\ now' = now + 1
  /\ UNCHANGED <<policy, manner, kept, turn, verdicts, crashes>>

Fresh == [p |-> 100, day |-> 0, last |-> Never, swallowed |-> 0, high |-> 0, total |-> 0,
          interventions |-> 0, recoverUsed |-> FALSE, pending |-> NoPending,
          made |-> 0, settled |-> 0, theta |-> [k \in Params |-> 0], fast |-> 0, slow |-> 0]

Init ==
  /\ policy = "none"
  /\ manner = Fresh /\ kept = Fresh
  /\ turn = "idle" /\ verdicts = {} /\ now = 0 /\ crashes = 0

Next ==
  \/ \E pol \in Policies : Build(pol)
  \/ \E d \in Drafts, p \in Falls, raised \in BOOLEAN : Arbitrate(d, p, raised)
  \/ \E p \in Falls : SubmitStart(p) \/ BeatStart(p)
  \/ \E reaction \in Signs : SubmitDone(reaction)
  \/ BeatDone \/ OtherSaves \/ Crash \/ Tick

Spec == Init /\ [][Next]_vars

------------------------------------------------------------------------------
Interventions == {v \in verdicts : v.kind # "PASS"}

(* Whatever the policy, two interventions of one day are a minimal gap     *)
(* apart, through crashes and the saves of other sessions: every branch of *)
(* _apply_verdict that changes the draft starts the gap.                   *)
InterventionGap ==
  \A v, w \in Interventions :
    v.day = w.day /\ v.nth < w.nth => v.at + MinGap <= w.at

(* The conservative policy intervenes at most Budget times a day.  A TRIM  *)
(* of recover is no kind to learn from, and so is not counted either; what *)
(* the core decides after the pipeline raised is outside the budget.       *)
ConservativeBudget ==
  policy = "conservative" =>
    \A day \in 0..Day(MaxNow) :
      Cardinality({v \in Interventions : v.day = day /\ ~v.raised /\ ~v.recover})
        <= Budget

(* The same with every intervention counted. *)
ConservativeBudgetAll ==
  policy = "conservative" =>
    \A day \in 0..Day(MaxNow) :
      Cardinality({v \in Interventions : v.day = day /\ ~v.raised}) <= Budget

(* swallowed_total of the record that a restart would find counts every    *)
(* draft the agent was told is swallowed: days and crashes lose none.      *)
SwallowsRemembered ==
  kept.total = Cardinality({v \in verdicts : v.kind = "SWALLOW"})

(* With a P that has narrowed she no longer silences the agent, whichever  *)
(* policy decides and however theta has moved.                             *)
NarrowNeverSwallows == \A v \in verdicts : v.kind = "SWALLOW" => ~v.narrow

(* The conservative policy and the duel never intervene harder than the    *)
(* core's table would have.                                                *)
NeverHarsherThanCore ==
  policy \in {"conservative", "duel"} => \A v \in verdicts : Sigma(v.kind) <= Sigma(v.core)

(* At most one recover word is given away a day. *)
RecoverOnce ==
  \A v, w \in verdicts : v.primal /\ w.primal /\ v.day = w.day => v = w

(* No intervention is settled twice, by the user's words and by the end of *)
(* the day, in memory or in what a restart loads.                          *)
SettledOnce ==
  \A r \in {manner, kept} : r.settled + (IF r.pending = NoPending THEN 0 ELSE 1) <= r.made
================================================================================
