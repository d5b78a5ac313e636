------------------------------- MODULE FieldClock -------------------------------
(***************************************************************************)
(* The time of the field (intrinsic_field_enabled): every beat compares    *)
(* the clock with the ts of the field and takes one step, feeling what the *)
(* engine shows, or catches up, feeling nothing.  step_field is told the   *)
(* time after the step and does not use it: the integrators add to ts the  *)
(* ticks they integrated, where ts counts seconds.                         *)
(*                                                                         *)
(* Times are in sixtieths of a second, the interval is a minute.           *)
(***************************************************************************)
EXTENDS Integers

CONSTANTS MaxCatchup,    \* max_catchup_steps
          MaxBeats,      \* bound
          Gaps           \* bound: the intervals between two beats

Second   == 60
Interval == 60 * Second      \* intrinsic_interval_seconds

FieldClockAssumption == MaxCatchup \in Nat \ {0} /\ MaxBeats \in Nat /\ Gaps \subseteq Nat \ {0}

VARIABLES fieldTs,   \* FieldState.ts; None before the first beat
          wall,      \* now_ts
          felt       \* the last beat: [beats, gap, how]

fvars == <<fieldTs, wall, felt>>

None == -1

(* EulerIntegrator.step, TrapezoidIntegrator.step: ts + dt, dt in ticks.   *)
(* Rounded down to a sixtieth of a second.                                 *)
Stepped(ts, elapsed) == ts + (elapsed * Second) \div Interval

(* catchup_field: tick by tick; what is too long is decayed in one go, and *)
(* only that part moves ts by its seconds.                                 *)
CaughtUp(ts, elapsed) ==
  IF elapsed <= MaxCatchup * Interval THEN Stepped(ts, elapsed)
  ELSE ts + (elapsed - MaxCatchup * Interval) + MaxCatchup * Second

(* _intrinsic_field_advance, at the next beat. *)
Advance(gap) ==
  /\ felt.beats < MaxBeats
  /\ wall' = wall + gap * Interval
  /\ LET elapsed == IF fieldTs = None THEN 0 ELSE wall' - fieldTs
         how     == CASE elapsed <= 0            -> "nothing"
                      [] elapsed <= 2 * Interval /\ elapsed > 0 -> "step"
                      [] OTHER                   -> "catchup"
     IN /\ felt' = [beats |-> felt.beats + 1, gap |-> gap, how |-> how]
        /\ fieldTs' = IF fieldTs = None THEN wall'
                      ELSE CASE how = "nothing" -> fieldTs
                             [] how = "step"    -> Stepped(fieldTs, elapsed)
                             [] OTHER           -> CaughtUp(fieldTs, elapsed)

Init == fieldTs = None /\ wall = 0 /\ felt = [beats |-> 0, gap |-> 0, how |-> "nothing"]

Next == \E gap \in Gaps : Advance(gap)

Spec == Init /\ [][Next]_fvars

------------------------------------------------------------------------------
(* A regular beat feels the engine: after an interval the field takes one  *)
(* real step; catching up is for longer absences (session.py:1298).        *)
RegularBeatFeels == felt.beats > 1 /\ felt.gap = 1 => felt.how = "step"

(* The field is never ahead of the clock, and however long the absence,    *)
(* what will be integrated once more is bounded by max_catchup_steps, or   *)
(* by the two intervals that still are a step.                             *)
FieldLagBounded ==
  LET most == IF MaxCatchup < 2 THEN 2 ELSE MaxCatchup
  IN fieldTs # None => 0 <= wall - fieldTs /\ wall - fieldTs <= most * Interval
=================================================================================
