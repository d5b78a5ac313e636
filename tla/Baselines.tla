------------------------------- MODULE Baselines -------------------------------
(***************************************************************************)
(* The rolling baselines of the deep shadow and the detectors that read    *)
(* them: a channel has a value of the day (its first tick, then an EWMA),  *)
(* and a week and a month, medians of decaying histograms of the days.     *)
(* Values are percents of the channel's span, the EWMA thousandths of it.  *)
(***************************************************************************)
EXTENDS Integers, Sequences, FiniteSets, SequencesExt, FiniteSetsExt

CONSTANTS Values,      \* what a channel reads
          Betas,       \* sensitivities, in hundredths
          MaxTicks, MaxPushed   \* bounds: ticks a day (the EWMA is exact up to 4), days

BaselinesAssumption ==
  /\ Values \subseteq 0..100 /\ Betas \subseteq -10..15 /\ MaxTicks \in 1..4 /\ MaxPushed \in 0..4

VARIABLES channel,     \* [ticks, anchor, mean, day, bins, week, lastDay]
          ticked,      \* history: the ticks of the day
          pushed,      \* history: the buckets of the days so far
          baseDay

bvars == <<channel, ticked, pushed, baseDay>>

Absent == -1
Buckets == 0..7
WeekWindow == 7

TypeOK ==
  /\ channel.ticks \in 0..MaxTicks /\ channel.bins \in [Buckets -> Nat]
  /\ channel.week \in {Absent} \cup Buckets
  /\ \A v \in {channel.day, channel.mean} : v = Absent \/ v \in 0..100000
  /\ ToSet(pushed) \subseteq Buckets /\ baseDay \in Nat

------------------------------------------------------------------------------
(* The first value of the day stands for it until there are four. *)
DayValue(ticks, anchor, mean) == IF ticks <= 3 THEN anchor ELSE mean

(* observe_tick *)
Observe(v) ==
  LET n == channel.ticks + 1
      m == IF channel.mean = Absent THEN 1000 * v ELSE channel.mean + (3 * (1000 * v - channel.mean)) \div 10
      a == IF n = 1 THEN 1000 * v ELSE channel.anchor
  IN /\ n <= MaxTicks
     /\ channel' = [channel EXCEPT !.ticks = n, !.mean = m, !.anchor = a, !.day = DayValue(n, a, m)]
     /\ ticked' = Append(ticked, v)
     /\ UNCHANGED <<pushed, baseDay>>

(* bootstrap_from_memory: only before the first tick. *)
Bootstrap(v) ==
  /\ channel.ticks = 0
  /\ channel' = [channel EXCEPT !.anchor = 1000 * v, !.day = 1000 * v]
  /\ UNCHANGED <<ticked, pushed, baseDay>>

BucketOf(thousandths) == Min({thousandths \div 12500, 7})

(* Bug: the days that are past do not decay. *)
Push_Undecayed(bins, b) == [i \in Buckets |-> WeekWindow * bins[i] + IF i = b THEN WeekWindow ^ (Len(pushed) + 1) ELSE 0]

(* _decayed_push, every weight multiplied by 7 ^ days to stay whole. *)
Push(bins, b) == [i \in Buckets |-> (WeekWindow - 1) * bins[i] + IF i = b THEN WeekWindow ^ (Len(pushed) + 1) ELSE 0]

(* _quantile_from_bins at one half: the first bucket that reaches it. *)
Median(bins) ==
  LET upto[b \in Buckets] == IF b = 0 THEN bins[0] ELSE upto[b - 1] + bins[b]
  IN Min({b \in Buckets : 2 * upto[b] >= upto[7]})

(* rollover_day: a day that saw nothing is no day of the week. *)
Rollover ==
  LET bins == Push(channel.bins, BucketOf(channel.day))
  IN /\ Len(pushed) < MaxPushed
     /\ baseDay' = baseDay + 1
     /\ IF channel.day = Absent
        THEN channel' = [channel EXCEPT !.ticks = 0, !.anchor = Absent, !.mean = Absent] /\ UNCHANGED pushed
        ELSE /\ channel' = [ticks |-> 0, anchor |-> Absent, mean |-> Absent, day |-> Absent,
                            bins |-> bins, week |-> Median(bins)]
             /\ pushed' = Append(pushed, BucketOf(channel.day))
     /\ baseDay < 2 * MaxPushed
     /\ ticked' = <<>>

Init ==
  /\ channel = [ticks |-> 0, anchor |-> Absent, mean |-> Absent, day |-> Absent,
                bins |-> [b \in Buckets |-> 0], week |-> Absent]
  /\ ticked = <<>> /\ pushed = <<>> /\ baseDay = 1

Next == Rollover \/ \E v \in Values : Observe(v) \/ Bootstrap(v)

Spec == Init /\ [][Next]_bvars

------------------------------------------------------------------------------
(* The detectors, as pure operators over a reading: the strength of a      *)
(* concern in percent, rounded down, or Absent.                            *)
Share(a, b) == Max({0, Min({100, (100 * a) \div b})})

(* th_eff_for: half of the threshold is the least that sensitivity leaves. *)
Threshold(base, beta) == Max({base + beta, base \div 2})

Strongest(S) == IF S = {} THEN Absent ELSE Max(S)

PressureSpike(p, slope, damage, beta) ==
  LET th == Threshold(60, beta)
  IN Strongest((IF p >= th THEN {Share(p - th, 100 - th)} ELSE {})
               \cup (IF p >= 50 /\ slope >= 15 THEN {Share(slope, 30)} ELSE {})
               \cup (IF damage >= 50 THEN {Share(damage - 50, 50)} ELSE {}))

(* Against the day, in thousandths. *)
WarmthDrop(w, day, beta) ==
  IF day # Absent /\ day - 1000 * w >= 1000 * Threshold(25, beta) /\ w < 45
  THEN Share(day - 1000 * w, 50000) ELSE Absent

(* Two of three signs against the month; ints are averages times ten.      *)
Withdrawal(w, month, week7, month30, len, lenMonth, beta) ==
  LET th == Threshold(20, beta)
      cold == IF month # Absent /\ w < month - th THEN {<<"warmth", Share(month - w, th)>>} ELSE {}
      rare == IF month30 > 0 /\ 2 * week7 < month30 THEN {<<"rare", 100 - Share(2 * week7, month30)>>} ELSE {}
      short == IF lenMonth > 0 /\ 5 * len < 3 * lenMonth THEN {<<"short", 100 - Share(5 * len, 3 * lenMonth)>>} ELSE {}
      signs == cold \cup rare \cup short
  IN IF Cardinality(signs) < 2 THEN Absent
     ELSE FoldSet(LAMBDA s, sum : s[2] + sum, 0, signs) \div 3

(* No beat of the shadow is in the quiet hours as far as it knows. *)
RhythmBreak(turns, gap, median, beta) ==
  IF turns = 0 /\ median > 0 /\ 100 * gap >= Threshold(300, beta) * median THEN Share(gap, 6 * median) ELSE Absent

------------------------------------------------------------------------------
(* The value of the day is its first tick until the fourth, whatever       *)
(* memory said before it; the EWMA stays within what was read.             *)
DayAnchored ==
  channel.ticks > 0 =>
    /\ channel.ticks <= 3 => channel.day = 1000 * ticked[1]
    /\ channel.day >= 1000 * Min(ToSet(ticked)) /\ channel.day <= 1000 * Max(ToSet(ticked))

(* The week is the weighted median of the days that were seen, the latest  *)
(* one weighing 1 and each day before it 6/7 of the next: the histogram    *)
(* that is decayed in place says the same as the days themselves.          *)
DaysWeight(S) ==
  LET upto[i \in 0..Len(pushed)] ==
        IF i = 0 THEN 0
        ELSE upto[i - 1] + IF i \in S THEN (WeekWindow - 1) ^ (Len(pushed) - i) * WeekWindow ^ i ELSE 0
  IN upto[Len(pushed)]

WeekIsMedian ==
  LET Upto(b) == DaysWeight({i \in 1..Len(pushed) : pushed[i] <= b})
  IN IF pushed = <<>> THEN channel.week = Absent
     ELSE /\ channel.week \in ToSet(pushed)
          /\ 2 * Upto(channel.week) >= Upto(7)
          /\ 2 * Upto(channel.week - 1) < Upto(7)

(* More pressure, a colder moment or a lower threshold never weakens a     *)
(* concern, and with no past there is nothing to miss.                     *)
DetectorsMonotone ==
  \A v, w \in Values : \A b, c \in Betas :
    v <= w /\ b <= c =>
      /\ \A d \in Values : PressureSpike(v, 0, d, c) <= PressureSpike(w, 0, d, b)
      /\ \A d \in Values : WarmthDrop(w, 1000 * d, c) <= WarmthDrop(v, 1000 * d, b)
      /\ RhythmBreak(0, v, 1, c) <= RhythmBreak(0, w, 1, b)
      /\ WarmthDrop(v, Absent, b) = Absent
      /\ Withdrawal(v, Absent, 0, 0, 0, 0, b) = Absent /\ RhythmBreak(0, w, 0, b) = Absent
================================================================================
