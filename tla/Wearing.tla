--------------------------------- MODULE Wearing ---------------------------------
(***************************************************************************)
(* The four ways to age: what a day takes from P, and the epochs P passes. *)
(*                                                                         *)
(* P is counted so that Full is 1 and an ordinary day of the linear model  *)
(* costs Full / Lifespan, in twentieths of it.                             *)
(***************************************************************************)
EXTENDS Integers, Sequences

CONSTANTS Lifespan,     \* lifespan_active_days
          Wear          \* Weibull wear after 0, 1, .. active days, in units of P

Unit == 20
Full == Lifespan * Unit

WearingAssumption ==
  /\ Lifespan \in Nat \ {0}
  /\ Wear \in Seq(Nat) /\ Wear # <<>>
  /\ Wear[1] = 0 /\ \A t \in 1..(Len(Wear) - 1) : Wear[t] <= Wear[t + 1]

EpochIndex(p) == CASE 10 * p > 6 * Full                        -> 0
                   [] 10 * p <= 6 * Full /\ 10 * p > 3 * Full  -> 1
                   [] 10 * p <= 3 * Full /\ 20 * p > 3 * Full  -> 2
                   [] 20 * p <= 3 * Full /\ p > 0              -> 3
                   [] OTHER                                    -> 4

Floor(x) == IF x < 0 THEN 0 ELSE x
Least(x, y) == IF x < y THEN x ELSE y

Outcome(p, fast) == [p |-> p, fast |-> fast]

(* core.finitude.settle_day *)
CoreSpend(high) == Least(Unit + (Unit * high) \div 2, 2 * Unit)

WearAt(t) == Wear[Least(t + 1, Len(Wear))]

Linear(p, fast, f) == Outcome(Floor(p - CoreSpend(f.high)), fast)

WeibullBase(f) == WearAt(f.age + 1) - WearAt(f.age)

Weibull(p, fast, f) ==
  Outcome(Floor(p - Least(WeibullBase(f) + (WeibullBase(f) * f.high) \div 2, 2 * WeibullBase(f))), fast)

Event(p, fast, f) ==
  Outcome(Floor(p - Least(5 + 10 * f.high + 7 * f.concern + (IF f.shift THEN 8 ELSE 0), 2 * Unit)), fast)

(* Bug: the fast pool recovers past the slow one. *)
Reserve_Overfull(p, fast, f) ==
  LET events == f.high + f.concern
      slow   == Floor(p - Unit)
  IN Outcome(slow, IF events > 0 THEN Floor(fast - 2 * (Unit + (Unit * events) \div 2)) ELSE fast + 1)

(* The slow pool loses a day, the fast one what happened in it, twice; on  *)
(* a quiet day it recovers, never above the slow one.                      *)
Reserve(p, fast, f) ==
  LET events == f.high + f.concern
      start  == Least(fast, p)
      slow   == Floor(p - Unit)
  IN Outcome(slow,
             Least(slow, IF events > 0 THEN Floor(start - 2 * (Unit + (Unit * events) \div 2))
                         ELSE start + Least(1, Floor(slow - start))))

Spent(model, p, fast, f) ==
  CASE model = "weibull" -> Weibull(p, fast, f)
    [] model = "event"   -> Event(p, fast, f)
    [] model = "reserve" -> Reserve(p, fast, f)
    [] OTHER             -> Linear(p, fast, f)

(* settle_through_gate: never above the P of the day before. *)
Gated(p, o) == [o EXCEPT !.p = Least(p, Floor(@))]
==================================================================================
