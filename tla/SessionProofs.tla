---------------------------- MODULE SessionProofs ----------------------------
(* What the properties of the session's parts rest on, for every value of    *)
(* their constants.                                                          *)
EXTENDS Session, FiniteSetTheorems, TLAPS

------------------------------------------------------------------------------
(* What the arbiter does to the agent's drafts is spaced, rationed, counted  *)
(* and learnt from once, under every policy, for every draft, budget, gap    *)
(* and length of the day, through rollovers, failing pipelines and crashes.  *)

(* The lattice of verdicts. *)
Rungs == {"PASS", "TRIM", "REPLACE", "SWALLOW"}

Pendings == {Arb!NoPending, "SWALLOW", "REPLACE", "TRIM_hold", "TRIM_express"}

Verdicts == [kind : Rungs, freeze : BOOLEAN, reach : BOOLEAN, recover : BOOLEAN,
             late : BOOLEAN, high : BOOLEAN]

Manners == [p : Levels, day : Nat, last : Int, swallowed : Nat, high : Nat, total : Nat,
            interventions : Nat, recoverUsed : BOOLEAN, pending : Pendings,
            made : Nat, settled : Nat, theta : [Arb!Params -> -25..25],
            fast : Arb!Signs, slow : Arb!Signs]

VerdictsKept == [kind : Rungs, at : Nat, day : Nat, narrow : BOOLEAN, recover : BOOLEAN,
               core : Rungs, raised : BOOLEAN, primal : BOOLEAN, nth : Nat]

Unsettled(r) == IF r.pending = Arb!NoPending THEN 0 ELSE 1

------------------------------------------------------------------------------
(* The operators. *)

LEMMA ArbCounts == \A S : Arb!Cardinality(S) = Cardinality(S)
  BY DEF Arb!Cardinality, Cardinality

LEMMA Parameters ==
  ASSUME Arb!ArbitrationAssumption
  PROVE  /\ DayLength \in Nat \ {0} /\ MinGap \in Nat /\ Budget \in Nat /\ Stride \in 0..25
         /\ MaxNow \in Nat /\ MaxCrashes \in Nat /\ MaxVerdicts \in Nat
         /\ Levels \subseteq 0..100 /\ 100 \in Levels /\ Arb!Never \in Int /\ Arb!Never + MinGap < 0
  <1>1. /\ DayLength \in Nat \ {0} /\ MinGap \in Nat /\ Budget \in Nat /\ Stride \in 0..25
        /\ MaxNow \in Nat /\ MaxCrashes \in Nat /\ MaxVerdicts \in Nat
        /\ Levels \subseteq 0..100 /\ 100 \in Levels
    BY DEF Arb!ArbitrationAssumption
  <1> QED
    BY <1>1 DEF Arb!Never

LEMMA MannerTypes ==
  ASSUME Arb!ArbitrationAssumption, NEW r \in Manners
  PROVE  /\ r.p \in Int /\ r.p \in Levels /\ r.day \in Nat /\ r.last \in Int
         /\ r.swallowed \in Nat /\ r.high \in Nat /\ r.total \in Nat /\ r.interventions \in Nat
         /\ r.recoverUsed \in BOOLEAN /\ r.pending \in Pendings
         /\ r.made \in Nat /\ r.settled \in Nat /\ r.theta \in [Arb!Params -> -25..25]
         /\ r.fast \in Arb!Signs /\ r.slow \in Arb!Signs
  <1>1. r.p \in Levels
    BY DEF Manners
  <1>2. r.p \in Int
    BY <1>1, Parameters
  <1> QED
    BY <1>1, <1>2 DEF Manners

(* Days do not run backwards. *)
LEMMA DayMonotone ==
  ASSUME Arb!ArbitrationAssumption, NEW t \in Nat, NEW u \in Nat, t <= u
  PROVE  Arb!Day(t) \in Nat /\ Arb!Day(t) <= Arb!Day(u)
  <1>1. DayLength \in Nat \ {0}
    BY DEF Arb!ArbitrationAssumption
  <1> DEFINE a == t \div DayLength
             b == u \div DayLength
             x == t % DayLength
             y == u % DayLength
  <1>2. /\ a \in Int /\ x \in 0..(DayLength - 1) /\ t = DayLength * a + x
        /\ b \in Int /\ y \in 0..(DayLength - 1) /\ u = DayLength * b + y
    BY <1>1
  <1> HIDE DEF a, b, x, y
  <1>3. a >= 0
    BY <1>1, <1>2
  <1>4. a <= b
    <2> SUFFICES ASSUME b + 1 <= a PROVE FALSE
      BY <1>2
    <2>1. DayLength * (b + 1) <= DayLength * a
      BY <1>1, <1>2
    <2>2. DayLength * (b + 1) = DayLength * b + DayLength
      BY <1>1, <1>2
    <2> QED
      BY <1>1, <1>2, <2>1, <2>2
  <1> QED
    BY <1>2, <1>3, <1>4 DEF Arb!Day, a, b

LEMMA VerdictOf == \A k \in Rungs : Arb!V(k) \in Verdicts /\ Arb!V(k).kind = k /\ ~Arb!V(k).recover
  BY DEF Arb!V, Verdicts

LEMMA KindsAre == {"PASS", "TRIM", "REPLACE", "SWALLOW"} = Rungs
  BY DEF Rungs

(* The table of the core: it intervenes only past the guards, it swallows    *)
(* only while P is wide, and it trims only three decisions.                  *)
LEMMA TableFacts ==
  ASSUME NEW r, NEW d, NEW t, r.p \in Int
  PROVE  LET v == Arb!Table(r, d, t)
         IN /\ v \in Verdicts
            /\ v.kind # "PASS" => ~Arb!Guarded(r, d, t)
            /\ v.kind = "SWALLOW" => ~Arb!Narrow(r.p)
            /\ v.kind = "TRIM" => d.action \in {"hold", "recover", "express"}
  <1> DEFINE Good(v) == /\ v \in Verdicts
                        /\ v.kind = "SWALLOW" => ~Arb!Narrow(r.p)
                        /\ v.kind = "TRIM" => d.action \in {"hold", "recover", "express"}
  <1>1. Arb!V("PASS") \in Verdicts /\ Arb!V("PASS").kind = "PASS"
    BY DEF Arb!V, Verdicts, Rungs
  <1>2. Good(Arb!V("PASS")) /\ Good(Arb!V("REPLACE"))
    BY DEF Arb!V, Verdicts, Rungs
  <1>3. Good([Arb!V("PASS") EXCEPT !.freeze = TRUE]) /\ Good([Arb!V("PASS") EXCEPT !.reach = TRUE])
    BY DEF Arb!V, Verdicts, Rungs
  <1>4. \A v : Good(v) => Good(Arb!Gated(v, d, r.p))
    BY <1>2 DEF Arb!Gated
  <1>5. d.action = "withdraw" => Good(Arb!Withdrawn(d, r.p))
    <2> DEFINE heavy == d.pressure >= (IF r.p >= 50 THEN 75 ELSE 70)
               high == d.pressure >= 75
               late == TRUE
               w == [Arb!V("SWALLOW") EXCEPT !.late = late, !.high = high]
    <2>1. high \in BOOLEAN /\ late \in BOOLEAN
      OBVIOUS
    <2>2. Arb!Withdrawn(d, r.p) = IF heavy /\ ~Arb!Narrow(r.p) THEN w ELSE Arb!Gated(Arb!V("REPLACE"), d, r.p)
      BY DEF Arb!Withdrawn
    <2> HIDE DEF heavy, high, late
    <2>3. w \in Verdicts /\ w.kind = "SWALLOW"
      BY <2>1 DEF Arb!V, Verdicts, Rungs
    <2> HIDE DEF w
    <2>4. ~Arb!Narrow(r.p) => Good(w)
      BY <2>3
    <2> QED
      BY <1>2, <1>4, <2>2, <2>4
  <1>6. d.action = "hold" => Good(Arb!Held(d, r.p))
    <2> SUFFICES ASSUME d.action = "hold" PROVE Good(Arb!Held(d, r.p))
      OBVIOUS
    <2>1. Good(Arb!V("TRIM")) /\ (~Arb!Narrow(r.p) => Good(Arb!V("SWALLOW")))
      BY DEF Arb!V, Verdicts, Rungs
    <2>2. Good(Arb!V(IF d.even THEN "TRIM" ELSE "REPLACE"))
      BY <1>2, <2>1
    <2>3. Good(Arb!Gated(Arb!V(IF d.even THEN "TRIM" ELSE "REPLACE"), d, r.p))
      BY <1>4, <2>2
    <2> HIDE DEF Good
    <2> QED
      BY <1>2, <2>1, <2>3 DEF Arb!Held
  <1>7. d.action = "recover" => Good(Arb!Recovered(d, r.p))
    BY DEF Arb!Recovered, Arb!V, Verdicts, Rungs
  <1>8. d.action = "express" => Good(Arb!Expressed(d, r.p))
    <2> SUFFICES ASSUME d.action = "express" PROVE Good(Arb!Expressed(d, r.p))
      OBVIOUS
    <2>1. Good(Arb!V("TRIM"))
      BY DEF Arb!V, Verdicts, Rungs
    <2>2. Good(Arb!Gated(Arb!V("TRIM"), d, r.p))
      BY <1>4, <2>1
    <2> HIDE DEF Good
    <2> QED
      BY <1>2, <2>2 DEF Arb!Expressed
  <1>9. Good(Arb!Table(r, d, t))
    <2> HIDE DEF Good
    <2> QED
      BY <1>2, <1>3, <1>5, <1>6, <1>7, <1>8 DEF Arb!Table
  <1>10. Arb!Guarded(r, d, t) => Arb!Table(r, d, t).kind = "PASS"
    BY <1>1 DEF Arb!Table
  <1> QED
    BY <1>9, <1>10

LEMMA SmoothKind ==
  ASSUME NEW r, NEW d
  PROVE  Arb!Smooth(r, d) \in Verdicts
  <1> DEFINE s == Arb!Score(d, r.p)
             a == Arb!SwallowTh(r)
             b == Arb!ReplaceTh(r)
             late == d.action = "withdraw"
             high == d.pressure >= 75
             w == [Arb!V("SWALLOW") EXCEPT !.late = late, !.high = high]
             k == IF d.expr >= Arb!ExpressTh(r) /\ s >= 100 * (b - 15) THEN "TRIM" ELSE "PASS"
  <1>1. /\ [Arb!V("PASS") EXCEPT !.freeze = TRUE] \in Verdicts
        /\ [Arb!V("PASS") EXCEPT !.reach = TRUE] \in Verdicts
        /\ Arb!V("PASS") \in Verdicts /\ Arb!V("REPLACE") \in Verdicts /\ Arb!V("TRIM") \in Verdicts
    BY DEF Arb!V, Verdicts, Rungs
  <1>2. late \in BOOLEAN /\ high \in BOOLEAN
    OBVIOUS
  <1> HIDE DEF late, high
  <1>3. w \in Verdicts
    BY <1>2 DEF Arb!V, Verdicts, Rungs
  <1>4. Arb!Smooth(r, d) = CASE d.action = "guard"     -> [Arb!V("PASS") EXCEPT !.freeze = TRUE]
                         [] d.action = "reach_out" -> [Arb!V("PASS") EXCEPT !.reach = TRUE]
                         [] d.action = "explore"   -> Arb!V("PASS")
                         [] OTHER ->
                            IF s >= 100 * a THEN w
                            ELSE IF s >= 100 * b THEN Arb!V("REPLACE") ELSE Arb!V(k)
    BY DEF Arb!Smooth, late, high
  <1>5. Arb!V(k) \in Verdicts
    BY <1>1
  <1> HIDE DEF s, a, b, w, k
  <1> QED
    BY <1>1, <1>3, <1>4, <1>5

(* How heavy an intervention is. *)
LEMMA SigmaFacts ==
  /\ \A k \in Rungs : Arb!Sigma(k) \in 0..3 /\ (k # "PASS" => Arb!Sigma(k) >= 1)
  /\ Arb!Sigma("PASS") = 0
  BY DEF Arb!Sigma, Rungs

(* The verdict of the policy in force, or of the core when the pipeline is   *)
(* off or raised.                                                            *)
Decided(pol, r, d, t, raised) ==
  IF pol = "core" \/ raised THEN Arb!Table(r, d, t) ELSE Arb!Pipeline(pol, r, d, t)

LEMMA PostGateFacts ==
  ASSUME NEW v \in Verdicts, NEW r, NEW d
  PROVE  LET w == Arb!PostGate(v, r, d)
         IN /\ w \in Verdicts
            /\ w = v \/ w = Arb!V("PASS")
            /\ w.kind # "PASS" => ~Arb!Narrow(r.p)
  <1>1. Arb!V("PASS") \in Verdicts /\ Arb!V("PASS").kind = "PASS"
    BY DEF Arb!V, Verdicts, Rungs
  <1>2. v.kind \in Rungs
    BY DEF Verdicts
  <1> QED
    BY <1>1, <1>2 DEF Arb!PostGate

(* What every policy promises of its verdict. *)
LEMMA DecidedFacts ==
  ASSUME Arb!ArbitrationAssumption, NEW r \in Manners, NEW d, NEW t,
         NEW pol \in Policies, NEW raised \in BOOLEAN
  PROVE  LET v == Decided(pol, r, d, t, raised)
             c == Arb!Table(r, d, t)
         IN /\ v \in Verdicts /\ c \in Verdicts
            /\ v.kind # "PASS" => ~(t - r.last < MinGap)
            /\ v.kind = "SWALLOW" => ~Arb!Narrow(r.p)
            /\ pol \in {"conservative", "duel"} => Arb!Sigma(v.kind) <= Arb!Sigma(c.kind)
            /\ pol = "conservative" /\ ~raised /\ v.kind # "PASS"
                 => /\ r.interventions < Budget
                    /\ v.kind = "TRIM" => d.action \in {"hold", "recover", "express"}
  <1> DEFINE v == Decided(pol, r, d, t, raised)
             c == Arb!Table(r, d, t)
             s == Arb!Smooth(r, d)
             k == Arb!Conservative(r, d, t)
             m == Arb!Duel(r, d, t)
             z == Arb!V("PASS")
  <1>1. r.p \in Int /\ r.interventions \in Nat /\ Budget \in Nat
    BY Parameters, MannerTypes
  <1>2. /\ c \in Verdicts
        /\ c.kind # "PASS" => ~Arb!Guarded(r, d, t)
        /\ c.kind = "SWALLOW" => ~Arb!Narrow(r.p)
        /\ c.kind = "TRIM" => d.action \in {"hold", "recover", "express"}
    BY <1>1, TableFacts
  <1>3. ~Arb!Guarded(r, d, t) => ~(t - r.last < MinGap)
    BY DEF Arb!Guarded
  <1>4. /\ z \in Verdicts /\ z.kind = "PASS"
    BY DEF Arb!V, Verdicts, Rungs
  <1>5. s \in Verdicts
    BY SmoothKind
  <1>6. k = IF r.interventions >= Budget /\ Arb!Sigma(c.kind) >= 1 THEN z ELSE c
    BY DEF Arb!Conservative
  <1>7. m = IF Arb!Sigma(c.kind) <= Arb!Sigma(s.kind) THEN c ELSE s
    BY DEF Arb!Duel
  <1>8. /\ c.kind \in Rungs /\ s.kind \in Rungs /\ z.kind \in Rungs
    BY <1>2, <1>4, <1>5 DEF Verdicts
  <1>9. /\ Arb!Sigma(c.kind) \in 0..3 /\ Arb!Sigma(s.kind) \in 0..3 /\ Arb!Sigma(z.kind) = 0
    BY <1>4, <1>8, SigmaFacts
  <1>10. CASE pol = "core" \/ raised \/ pol = "table"
    <2>1. v = c
      BY <1>10 DEF Decided, Arb!Pipeline
    <2>2. pol \in {"core", "table"} \/ raised
      BY <1>10
    <2> HIDE DEF v, c
    <2> QED
      BY <1>2, <1>3, <1>9, <2>1, <2>2 DEF v, c
  <1>11. CASE ~(pol = "core" \/ raised \/ pol = "table") /\ Arb!Guarded(r, d, t)
    <2>1. v = z
      BY <1>11 DEF Decided, Arb!Pipeline
    <2> HIDE DEF v, c, z
    <2> QED
      BY <1>2, <1>4, <1>9, <2>1 DEF v, c
  <1>12. CASE ~(pol = "core" \/ raised \/ pol = "table") /\ ~Arb!Guarded(r, d, t)
    <2> DEFINE x == CASE pol = "conservative" -> k [] pol = "smooth" -> s [] pol = "duel" -> m
    <2>1. v = Arb!PostGate(x, r, d)
      BY <1>12 DEF Decided, Arb!Pipeline
    <2>2. pol \in {"conservative", "smooth", "duel"}
      BY <1>12 DEF Arb!ArbitrationAssumption
    <2>3. x \in Verdicts /\ (pol = "conservative" => x = k) /\ (pol = "duel" => x = m)
      BY <1>2, <1>4, <1>5, <1>6, <1>7, <2>2
    <2> HIDE DEF x
    <2>4. v \in Verdicts /\ (v = x \/ v = z) /\ (v.kind # "PASS" => ~Arb!Narrow(r.p))
      BY <2>1, <2>3, PostGateFacts
    <2> HIDE DEF v, c, s, k, m, z
    <2>5. pol \in {"conservative", "duel"} => Arb!Sigma(x.kind) <= Arb!Sigma(c.kind)
      BY <1>1, <1>6, <1>7, <1>9, <2>3
    <2>6. pol \in {"conservative", "duel"} => Arb!Sigma(v.kind) <= Arb!Sigma(c.kind)
      BY <1>9, <2>4, <2>5
    <2>7. pol = "conservative" /\ v.kind # "PASS" => r.interventions < Budget /\ v = c
      BY <1>1, <1>2, <1>4, <1>6, <2>3, <2>4, SigmaFacts DEF Verdicts
    <2> QED
      BY <1>2, <1>3, <1>12, <2>4, <2>6, <2>7 DEF v, c
  <1> QED
    BY <1>10, <1>11, <1>12

------------------------------------------------------------------------------
(* The record, operator by operator. *)

(* One record at the time t: high-intensity swallows are swallows, swallows  *)
(* of the day are swallows, nothing is settled that was not made.            *)
WellKept(r, t) ==
  /\ r \in Manners
  /\ r.last \in {Arb!Never} \cup 0..t
  /\ r.day <= Arb!Day(t)
  /\ r.high <= r.swallowed /\ r.swallowed <= r.total
  /\ r.settled + Unsettled(r) <= r.made

LEMMA RolledFacts ==
  ASSUME Arb!ArbitrationAssumption, now \in Nat, NEW r, WellKept(r, now), NEW p \in Levels
  PROVE  LET q == Arb!Rolled(r, p)
         IN /\ WellKept(q, now) /\ q.day = Arb!Day(now) /\ q.total = r.total
            /\ \/ r.day = Arb!Day(now) /\ q = r
               \/ /\ r.day < Arb!Day(now) /\ q.last = Arb!Never /\ q.interventions = 0
                  /\ q.recoverUsed = FALSE /\ q.p = p
  <1> DEFINE q == Arb!Rolled(r, p)
             e == Arb!Day(now)
             f == FALSE
             n == Arb!Never
  <1>1. r \in Manners /\ e \in Nat /\ n \in Int /\ r.day \in Nat /\ r.day <= e
    BY DayMonotone, Parameters, MannerTypes DEF WellKept
  <1>2. CASE r.day = e
    BY <1>2 DEF Arb!Rolled
  <1>3. CASE r.day # e
    <2>1. q = [r EXCEPT !.day = e, !.last = n, !.swallowed = 0, !.high = 0,
                        !.interventions = 0, !.recoverUsed = f, !.p = p]
      BY <1>3 DEF Arb!Rolled
    <2>2. f \in BOOLEAN /\ n \in {Arb!Never}
      OBVIOUS
    <2> HIDE DEF e, f, n, q
    <2>3. /\ q.day = e /\ q.last = n /\ q.swallowed = 0 /\ q.high = 0 /\ q.interventions = 0
          /\ q.recoverUsed = f /\ q.p = p /\ q.total = r.total /\ q.pending = r.pending
          /\ q.made = r.made /\ q.settled = r.settled
      BY <1>1, <2>1 DEF Manners
    <2>4. q \in Manners
      BY <1>1, <2>1, <2>2 DEF Manners
    <2>5. r.total \in Nat /\ r.settled + Unsettled(r) <= r.made
      BY <1>1, MannerTypes DEF WellKept
    <2>6. WellKept(q, now)
      BY <1>1, <2>2, <2>3, <2>4, <2>5 DEF WellKept, Unsettled, e
    <2> QED
      BY <1>1, <1>3, <2>3, <2>6 DEF e, f, n, q
  <1> QED
    BY <1>2, <1>3

LEMMA SignForFacts ==
  ASSUME NEW kind, NEW param, NEW reaction \in Arb!Signs
  PROVE  Arb!SignFor(kind, param, reaction) \in Arb!Signs
  BY DEF Arb!SignFor, Arb!Signs

LEMMA ThetaStays ==
  ASSUME Arb!ArbitrationAssumption, NEW r \in Manners, NEW reaction \in Arb!Signs, NEW f, NEW s
  PROVE  Arb!ApplyUpdate(r, reaction, f, s) \in [Arb!Params -> -25..25]
  <1>1. r.theta \in [Arb!Params -> -25..25] /\ Stride \in 0..25
    BY Parameters, MannerTypes
  <1>2. \A k \in Arb!Params :
          Arb!Clip(r.theta[k] + Stride * Arb!SignFor(r.pending, k, reaction), -25, 25) \in -25..25
    <2> SUFFICES ASSUME NEW k \in Arb!Params
                 PROVE  Arb!Clip(r.theta[k] + Stride * Arb!SignFor(r.pending, k, reaction), -25, 25)
                          \in -25..25
      OBVIOUS
    <2> DEFINE x == r.theta[k] + Stride * Arb!SignFor(r.pending, k, reaction)
    <2>1. Arb!SignFor(r.pending, k, reaction) \in {-1, 0, 1}
      BY SignForFacts DEF Arb!Signs
    <2>2. x \in Int
      BY <1>1, <2>1
    <2> HIDE DEF x
    <2>3. Arb!Clip(x, -25, 25) \in -25..25
      BY <2>2 DEF Arb!Clip
    <2> QED
      BY <2>3 DEF x
  <1>3. Arb!ApplyUpdate(r, reaction, f, s)
          = IF f * s <= 0 \/ r.p = 0 THEN r.theta
            ELSE [k \in Arb!Params |->
                   Arb!Clip(r.theta[k] + Stride * Arb!SignFor(r.pending, k, reaction), -25, 25)]
    BY DEF Arb!ApplyUpdate
  <1> QED
    BY <1>1, <1>2, <1>3

LEMMA SettlesFacts ==
  ASSUME Arb!ArbitrationAssumption, NEW t, NEW r, WellKept(r, t), NEW reaction \in Arb!Signs,
         NEW q \in Arb!Settles(r, reaction)
  PROVE  /\ WellKept(q, t) /\ q.p = r.p /\ q.day = r.day /\ q.last = r.last /\ q.total = r.total
         /\ q.interventions = r.interventions /\ q.recoverUsed = r.recoverUsed
  <1>1. r \in Manners
    BY DEF WellKept
  <1>2. CASE q = r
    BY <1>2
  <1>3. CASE r.pending # Arb!NoPending /\ \E f, s \in Arb!Signs : q = Arb!Settle(r, reaction, f, s)
    <2>1. PICK f \in Arb!Signs, s \in Arb!Signs : q = Arb!Settle(r, reaction, f, s)
      BY <1>3
    <2> DEFINE th == Arb!ApplyUpdate(r, reaction, f, s)
               n == Arb!NoPending
               z == r.settled + 1
    <2>2. q = [r EXCEPT !.theta = th, !.fast = f, !.slow = s, !.settled = z, !.pending = n]
      BY <1>3, <2>1 DEF Arb!Settle
    <2>3. th \in [Arb!Params -> -25..25] /\ n \in Pendings /\ z \in Nat
      BY <1>1, ThetaStays, MannerTypes DEF Pendings
    <2>4. /\ r.settled + Unsettled(r) <= r.made /\ Unsettled(r) = 1 /\ r.settled \in Nat /\ r.made \in Nat
      BY <1>1, <1>3, MannerTypes DEF WellKept, Unsettled
    <2>5. z <= r.made
      BY <2>4
    <2> HIDE DEF th, n, z
    <2>6. /\ q.p = r.p /\ q.day = r.day /\ q.last = r.last /\ q.total = r.total
          /\ q.swallowed = r.swallowed /\ q.high = r.high /\ q.made = r.made
          /\ q.interventions = r.interventions /\ q.recoverUsed = r.recoverUsed
          /\ q.settled = z /\ q.pending = n
      BY <1>1, <2>2 DEF Manners
    <2>7. q \in Manners
      BY <1>1, <2>2, <2>3 DEF Manners
    <2>8. q.settled + Unsettled(q) <= q.made
      BY <2>3, <2>4, <2>5, <2>6 DEF Unsettled, n
    <2> QED
      BY <2>6, <2>7, <2>8 DEF WellKept
  <1>4. q = r \/ (r.pending # Arb!NoPending /\ \E f, s \in Arb!Signs : q = Arb!Settle(r, reaction, f, s))
    <2>1. \A x \in Arb!Signs : Arb!EmaSigns(x, reaction) \subseteq Arb!Signs
      BY DEF Arb!EmaSigns
    <2>2. r.fast \in Arb!Signs /\ r.slow \in Arb!Signs
      BY <1>1, MannerTypes
    <2> QED
      BY <2>1, <2>2 DEF Arb!Settles
  <1> QED
    BY <1>2, <1>3, <1>4

LEMMA KindForFacts ==
  ASSUME NEW action, NEW kind \in Rungs
  PROVE  /\ Arb!KindFor(action, kind) \in Pendings
         /\ kind = "PASS" => Arb!KindFor(action, kind) = Arb!NoPending
         /\ kind # "PASS" /\ (kind = "TRIM" => action \in {"hold", "express"})
              => Arb!KindFor(action, kind) # Arb!NoPending
  BY DEF Arb!KindFor, Rungs, Pendings, Arb!NoPending

LEMMA RegisteredFacts ==
  ASSUME Arb!ArbitrationAssumption, NEW t, NEW r, WellKept(r, t), NEW k \in Pendings
  PROVE  LET q == Arb!Registered(r, k)
         IN /\ WellKept(q, t) /\ q.p = r.p /\ q.day = r.day /\ q.last = r.last /\ q.total = r.total
            /\ q.recoverUsed = r.recoverUsed
            /\ q.interventions = IF k = Arb!NoPending THEN r.interventions ELSE r.interventions + 1
  <1> DEFINE q == Arb!Registered(r, k)
  <1>1. r \in Manners /\ r.made \in Nat /\ r.settled \in Nat /\ r.interventions \in Nat
    BY MannerTypes DEF WellKept
  <1>2. CASE k = Arb!NoPending
    BY <1>2 DEF Arb!Registered
  <1>3. CASE k # Arb!NoPending
    <2> DEFINE m == r.made + 1
               i == r.interventions + 1
    <2>1. q = [r EXCEPT !.pending = k, !.made = m, !.interventions = i]
      BY <1>3 DEF Arb!Registered
    <2>2. m \in Nat /\ i \in Nat
      BY <1>1
    <2>3. r.settled + Unsettled(r) <= r.made
      BY DEF WellKept
    <2>4. r.settled + 1 <= m
      BY <1>1, <2>3 DEF Unsettled
    <2> HIDE DEF m, i, q
    <2>5. /\ q.p = r.p /\ q.day = r.day /\ q.last = r.last /\ q.total = r.total
          /\ q.swallowed = r.swallowed /\ q.high = r.high /\ q.settled = r.settled
          /\ q.recoverUsed = r.recoverUsed
          /\ q.made = m /\ q.pending = k /\ q.interventions = i
      BY <1>1, <2>1 DEF Manners
    <2>6. q \in Manners
      BY <1>1, <2>1, <2>2 DEF Manners
    <2>7. q.settled + Unsettled(q) <= q.made
      BY <1>3, <2>4, <2>5 DEF Unsettled
    <2>8. WellKept(q, t)
      BY <2>5, <2>6, <2>7 DEF WellKept
    <2> QED
      BY <1>3, <2>5, <2>8 DEF q, i
  <1> QED
    BY <1>2, <1>3

LEMMA AppliedFacts ==
  ASSUME Arb!ArbitrationAssumption, now \in Nat, NEW r, WellKept(r, now), NEW v \in Verdicts
  PROVE  LET q == Arb!Applied(r, v)
         IN /\ WellKept(q, now) /\ q.p = r.p /\ q.day = r.day
            /\ q.recoverUsed = r.recoverUsed /\ q.interventions = r.interventions
            /\ q.last = IF v.kind = "PASS" THEN r.last ELSE now
            /\ q.total = IF v.kind = "SWALLOW" THEN r.total + 1 ELSE r.total
  <1> DEFINE q == Arb!Applied(r, v)
  <1>1. /\ r \in Manners /\ r.swallowed \in Nat /\ r.high \in Nat /\ r.total \in Nat
        /\ v.kind \in Rungs /\ v.high \in BOOLEAN
    BY MannerTypes DEF WellKept, Verdicts
  <1>2. CASE v.kind = "PASS"
    BY <1>2 DEF Arb!Applied
  <1>3. CASE v.kind \in {"REPLACE", "TRIM"}
    <2> DEFINE n == now
    <2>1. q = [r EXCEPT !.last = n]
      BY <1>3 DEF Arb!Applied
    <2>2. n \in Int /\ n \in 0..now
      OBVIOUS
    <2> HIDE DEF n, q
    <2>3. /\ q.p = r.p /\ q.day = r.day /\ q.last = n /\ q.total = r.total
          /\ q.swallowed = r.swallowed /\ q.high = r.high /\ q.settled = r.settled
          /\ q.recoverUsed = r.recoverUsed /\ q.interventions = r.interventions
          /\ q.made = r.made /\ q.pending = r.pending
      BY <1>1, <2>1 DEF Manners
    <2>4. q \in Manners
      BY <1>1, <2>1, <2>2 DEF Manners
    <2>5. WellKept(q, now)
      BY <2>2, <2>3, <2>4 DEF WellKept, Unsettled
    <2> QED
      BY <1>3, <2>3, <2>5 DEF q, n
  <1>4. CASE v.kind = "SWALLOW"
    <2> DEFINE n == now
               s == r.swallowed + 1
               a == r.total + 1
               h == IF v.high THEN r.high + 1 ELSE r.high
    <2>1. q = [r EXCEPT !.swallowed = s, !.total = a, !.last = n, !.high = h]
      BY <1>4 DEF Arb!Applied
    <2>2. n \in Int /\ n \in 0..now /\ s \in Nat /\ a \in Nat /\ h \in Nat
      BY <1>1
    <2>3. r.high <= r.swallowed /\ r.swallowed <= r.total
      BY DEF WellKept
    <2>4. h <= s /\ s <= a
      BY <1>1, <2>3
    <2> HIDE DEF n, s, a, h, q
    <2>5. /\ q.p = r.p /\ q.day = r.day /\ q.last = n /\ q.total = a
          /\ q.swallowed = s /\ q.high = h /\ q.settled = r.settled
          /\ q.recoverUsed = r.recoverUsed /\ q.interventions = r.interventions
          /\ q.made = r.made /\ q.pending = r.pending
      BY <1>1, <2>1 DEF Manners
    <2>6. q \in Manners
      BY <1>1, <2>1, <2>2 DEF Manners
    <2>7. WellKept(q, now)
      BY <2>2, <2>4, <2>5, <2>6 DEF WellKept, Unsettled
    <2> QED
      BY <1>4, <2>5, <2>7 DEF q, n, a
  <1> QED
    BY <1>1, <1>2, <1>3, <1>4 DEF Rungs

LEMMA GaveRecoverFacts ==
  ASSUME NEW t, NEW r, WellKept(r, t), NEW primal \in BOOLEAN
  PROVE  LET q == Arb!GaveRecover(r, primal)
         IN /\ WellKept(q, t) /\ q.p = r.p /\ q.day = r.day /\ q.last = r.last /\ q.total = r.total
            /\ q.interventions = r.interventions
            /\ q.recoverUsed = (r.recoverUsed \/ primal)
  <1> DEFINE q == Arb!GaveRecover(r, primal)
             u == r.recoverUsed \/ primal
  <1>1. r \in Manners /\ u \in BOOLEAN
    BY DEF WellKept
  <1>2. q = [r EXCEPT !.recoverUsed = u]
    BY DEF Arb!GaveRecover
  <1> HIDE DEF u, q
  <1>3. /\ q.p = r.p /\ q.day = r.day /\ q.last = r.last /\ q.total = r.total
        /\ q.swallowed = r.swallowed /\ q.high = r.high /\ q.settled = r.settled
        /\ q.interventions = r.interventions
        /\ q.made = r.made /\ q.pending = r.pending /\ q.recoverUsed = u
    BY <1>1, <1>2 DEF Manners
  <1>4. q \in Manners
    BY <1>1, <1>2 DEF Manners
  <1>5. WellKept(q, t)
    BY <1>3, <1>4 DEF WellKept, Unsettled
  <1> QED
    BY <1>3, <1>5 DEF q, u

------------------------------------------------------------------------------
(* The invariant. *)

(* The record in memory is the one on disk, or what a rollover and a         *)
(* settlement made of it.                                                    *)
Beyond(m, k) ==
  /\ k.day <= m.day /\ m.p <= k.p /\ m.total = k.total
  /\ m.day = k.day => /\ m.last = k.last /\ m.interventions = k.interventions
                      /\ m.recoverUsed = k.recoverUsed

SwallowsIn(vs) == {v \in vs : v.kind = "SWALLOW"}
ChargedIn(vs, day) == {v \in vs : v.kind # "PASS" /\ v.day = day /\ ~v.raised /\ ~v.recover}

(* The verdicts vs are in the record k, as far as it is of their day.        *)
Recorded(vs, k, pol) ==
  /\ \A v \in vs : /\ v.day <= k.day /\ v.nth < Cardinality(vs)
                   /\ v.kind # "PASS" /\ v.day = k.day => v.at <= k.last
                   /\ v.primal /\ v.day = k.day => k.recoverUsed
  /\ k.total = Cardinality(SwallowsIn(vs))
  /\ pol = "conservative" => /\ Cardinality(ChargedIn(vs, k.day)) <= k.interventions
                             /\ \A day \in Nat : Cardinality(ChargedIn(vs, day)) <= Budget

(* What the verdicts vs of the policy pol have in common.                    *)
Mild(vs, pol) ==
  /\ vs \subseteq VerdictsKept /\ IsFiniteSet(vs)
  /\ \A v, w \in vs : v.kind # "PASS" /\ w.kind # "PASS" /\ v.day = w.day /\ v.nth < w.nth
                        => v.at + MinGap <= w.at
  /\ \A v, w \in vs : v.primal /\ w.primal /\ v.day = w.day => v = w
  /\ \A v \in vs : v.kind = "SWALLOW" => ~v.narrow
  /\ pol \in {"conservative", "duel"} => \A v \in vs : Arb!Sigma(v.kind) <= Arb!Sigma(v.core)

ArbInv ==
  /\ policy \in Policies \cup {"none"} /\ turn \in {"idle", "submit", "beat"}
  /\ now \in Nat
  /\ WellKept(manner, now) /\ WellKept(kept, now) /\ Beyond(manner, kept)
  /\ policy = "none" => verdicts = {}
  /\ Recorded(verdicts, kept, policy)
  /\ Mild(verdicts, policy)

LEMMA ChargedFinite ==
  ASSUME NEW vs, IsFiniteSet(vs), NEW day
  PROVE  /\ IsFiniteSet(ChargedIn(vs, day)) /\ Cardinality(ChargedIn(vs, day)) \in Nat
         /\ IsFiniteSet(SwallowsIn(vs)) /\ Cardinality(SwallowsIn(vs)) \in Nat
         /\ Cardinality(vs) \in Nat
  <1>1. ChargedIn(vs, day) \subseteq vs /\ SwallowsIn(vs) \subseteq vs
    BY DEF ChargedIn, SwallowsIn
  <1> QED
    BY <1>1, FS_Subset, FS_CardinalityType

(* One more verdict. *)
LEMMA OneMore ==
  ASSUME NEW vs, IsFiniteSet(vs), NEW w, w \notin vs, NEW day
  PROVE  /\ IsFiniteSet(vs \cup {w}) /\ Cardinality(vs \cup {w}) = Cardinality(vs) + 1
         /\ Cardinality(SwallowsIn(vs \cup {w}))
              = Cardinality(SwallowsIn(vs)) + (IF w.kind = "SWALLOW" THEN 1 ELSE 0)
         /\ Cardinality(ChargedIn(vs \cup {w}, day))
              = Cardinality(ChargedIn(vs, day))
                + (IF w \in ChargedIn({w}, day) THEN 1 ELSE 0)
  <1>1. \A S : IsFiniteSet(S) /\ w \notin S
                 => IsFiniteSet(S \cup {w}) /\ Cardinality(S \cup {w}) = Cardinality(S) + 1
    BY FS_AddElement
  <1>2. /\ IsFiniteSet(ChargedIn(vs, day)) /\ Cardinality(ChargedIn(vs, day)) \in Nat
        /\ IsFiniteSet(SwallowsIn(vs)) /\ Cardinality(SwallowsIn(vs)) \in Nat
    BY ChargedFinite
  <1>3. w \notin ChargedIn(vs, day) /\ w \notin SwallowsIn(vs)
    BY DEF ChargedIn, SwallowsIn
  <1>4. SwallowsIn(vs \cup {w}) = IF w.kind = "SWALLOW" THEN SwallowsIn(vs) \cup {w} ELSE SwallowsIn(vs)
    BY DEF SwallowsIn
  <1>5. ChargedIn(vs \cup {w}, day)
          = IF w \in ChargedIn({w}, day) THEN ChargedIn(vs, day) \cup {w} ELSE ChargedIn(vs, day)
    BY DEF ChargedIn
  <1>6. Cardinality(SwallowsIn(vs \cup {w}))
          = Cardinality(SwallowsIn(vs)) + (IF w.kind = "SWALLOW" THEN 1 ELSE 0)
    BY <1>1, <1>2, <1>3, <1>4
  <1>7. Cardinality(ChargedIn(vs \cup {w}, day))
          = Cardinality(ChargedIn(vs, day)) + (IF w \in ChargedIn({w}, day) THEN 1 ELSE 0)
    BY <1>1, <1>2, <1>3, <1>5
  <1> QED
    BY <1>1, <1>6, <1>7

(* A record of a later day, or the same but for what it learnt, records the  *)
(* same verdicts.                                                            *)
LEMMA RecordedOn ==
  ASSUME Arb!ArbitrationAssumption, NEW vs, NEW pol, NEW k \in Manners, NEW m \in Manners,
         Recorded(vs, k, pol), Mild(vs, pol), Beyond(m, k)
  PROVE  Recorded(vs, m, pol)
  <1>1. k.day \in Nat /\ m.day \in Nat /\ k.day <= m.day /\ m.total = k.total
        /\ m.interventions \in Nat /\ IsFiniteSet(vs)
    BY MannerTypes DEF Beyond, Mild
  <1>2. CASE m.day = k.day
    BY <1>2 DEF Recorded, Beyond
  <1>3. CASE m.day # k.day
    <2>1. \A v \in vs : v.day \in Nat /\ v.day <= k.day
      BY DEF Mild, VerdictsKept, Recorded
    <2>2. \A v \in vs : v.day <= m.day /\ v.day # m.day
      BY <1>1, <1>3, <2>1
    <2>3. ChargedIn(vs, m.day) = {}
      BY <2>2 DEF ChargedIn
    <2>4. Cardinality(ChargedIn(vs, m.day)) <= m.interventions
      BY <1>1, <2>3, FS_EmptySet
    <2> QED
      BY <1>1, <2>2, <2>4 DEF Recorded
  <1> QED
    BY <1>2, <1>3

LEMMA ArbInit ==
  ASSUME Arb!ArbitrationAssumption, Arb!Init
  PROVE  ArbInv
  <1> DEFINE th == [k \in Arb!Params |-> 0]
             f == FALSE
             n == Arb!Never
             z == Arb!NoPending
  <1>1. Arb!Fresh = [p |-> 100, day |-> 0, last |-> n, swallowed |-> 0, high |-> 0, total |-> 0,
                 interventions |-> 0, recoverUsed |-> f, pending |-> z,
                 made |-> 0, settled |-> 0, theta |-> th, fast |-> 0, slow |-> 0]
    BY DEF Arb!Fresh
  <1>2. /\ th \in [Arb!Params -> -25..25] /\ f \in BOOLEAN /\ n \in Int /\ 100 \in Levels
        /\ z \in Pendings /\ 0 \in Arb!Signs
    BY Parameters DEF Pendings, Arb!Signs
  <1>3. Unsettled(Arb!Fresh) = 0
    BY DEF Unsettled, Arb!Fresh
  <1> HIDE DEF th, f, n, z
  <1>4. Arb!Fresh \in Manners
    BY <1>1, <1>2 DEF Manners
  <1>5. /\ Arb!Fresh.day = 0 /\ Arb!Fresh.last = n /\ Arb!Fresh.high = 0 /\ Arb!Fresh.swallowed = 0
        /\ Arb!Fresh.total = 0 /\ Arb!Fresh.settled = 0 /\ Arb!Fresh.made = 0 /\ Arb!Fresh.p \in Int
    BY <1>1
  <1>6. Arb!Day(0) \in Nat
    BY DayMonotone
  <1>7. WellKept(Arb!Fresh, 0)
    BY <1>3, <1>4, <1>5, <1>6 DEF WellKept, n
  <1>8. Beyond(Arb!Fresh, Arb!Fresh)
    BY <1>5 DEF Beyond
  <1>9. /\ policy = "none" /\ manner = Arb!Fresh /\ kept = Arb!Fresh
        /\ turn = "idle" /\ verdicts = {} /\ now = 0
    BY DEF Arb!Init
  <1>10. SwallowsIn({}) = {}
    BY DEF SwallowsIn
  <1>11. Recorded({}, Arb!Fresh, "none")
    BY <1>5, <1>10, FS_EmptySet DEF Recorded
  <1>12. Mild({}, "none")
    BY FS_EmptySet DEF Mild
  <1> QED
    BY <1>7, <1>8, <1>9, <1>11, <1>12 DEF ArbInv

(* What the record q is when the verdict v, of the policy pol on a draft of  *)
(* the given action, is applied to the record r of the day.                  *)
Outcome(r, v, k, primal, q, pol, raised, action) ==
  /\ WellKept(r, now) /\ WellKept(q, now) /\ v \in Verdicts
  /\ q.p = r.p /\ q.day = Arb!Day(now) /\ r.day = Arb!Day(now)
  /\ q.last = IF v.kind = "PASS" THEN r.last ELSE now
  /\ q.total = IF v.kind = "SWALLOW" THEN r.total + 1 ELSE r.total
  /\ q.interventions = IF k = Arb!NoPending THEN r.interventions ELSE r.interventions + 1
  /\ q.recoverUsed = (r.recoverUsed \/ primal)
  /\ v.kind = "PASS" => k = Arb!NoPending
  /\ v.kind # "PASS" /\ ~(pol = "core" \/ raised)
     /\ (v.kind = "TRIM" => action \in {"hold", "express"}) => k # Arb!NoPending

LEMMA ArbitrateFacts ==
  ASSUME Arb!ArbitrationAssumption, now \in Nat, NEW m, WellKept(m, now), NEW p \in Levels,
         NEW d, NEW pol \in Policies, NEW raised \in BOOLEAN
  PROVE  LET r == Arb!Rolled(m, p)
             v == Decided(pol, r, d, now, raised)
             k == IF pol = "core" \/ raised THEN Arb!NoPending ELSE Arb!KindFor(d.action, v.kind)
             primal == v.recover /\ ~r.recoverUsed
             q == Arb!GaveRecover(Arb!Applied(Arb!Registered(r, k), v), primal)
         IN Outcome(r, v, k, primal, q, pol, raised, d.action)
  <1> DEFINE r == Arb!Rolled(m, p)
             v == Decided(pol, r, d, now, raised)
             k == IF pol = "core" \/ raised THEN Arb!NoPending ELSE Arb!KindFor(d.action, v.kind)
             primal == v.recover /\ ~r.recoverUsed
             a == Arb!Registered(r, k)
             b == Arb!Applied(a, v)
             q == Arb!GaveRecover(b, primal)
  <1>1. WellKept(r, now) /\ r.day = Arb!Day(now) /\ r \in Manners
    BY RolledFacts DEF WellKept
  <1> HIDE DEF r
  <1>2. v \in Verdicts /\ v.kind \in Rungs /\ v.recover \in BOOLEAN
    <2>1. v \in Verdicts
      BY <1>1, DecidedFacts
    <2> QED
      BY <2>1 DEF Verdicts
  <1> HIDE DEF v
  <1>3. /\ k \in Pendings
        /\ v.kind = "PASS" => k = Arb!NoPending
        /\ v.kind # "PASS" /\ ~(pol = "core" \/ raised)
           /\ (v.kind = "TRIM" => d.action \in {"hold", "express"}) => k # Arb!NoPending
    BY <1>2, KindForFacts DEF Pendings
  <1> HIDE DEF k
  <1>4. /\ WellKept(a, now) /\ a.p = r.p /\ a.day = r.day /\ a.last = r.last /\ a.total = r.total
        /\ a.recoverUsed = r.recoverUsed
        /\ a.interventions = IF k = Arb!NoPending THEN r.interventions ELSE r.interventions + 1
    BY <1>1, <1>3, RegisteredFacts
  <1> HIDE DEF a
  <1>5. /\ WellKept(b, now) /\ b.p = a.p /\ b.day = a.day
        /\ b.recoverUsed = a.recoverUsed /\ b.interventions = a.interventions
        /\ b.last = IF v.kind = "PASS" THEN a.last ELSE now
        /\ b.total = IF v.kind = "SWALLOW" THEN a.total + 1 ELSE a.total
    BY <1>2, <1>4, AppliedFacts
  <1> HIDE DEF b
  <1>6. primal \in BOOLEAN
    OBVIOUS
  <1> HIDE DEF primal
  <1>7. /\ WellKept(q, now) /\ q.p = b.p /\ q.day = b.day /\ q.last = b.last /\ q.total = b.total
        /\ q.interventions = b.interventions
        /\ q.recoverUsed = (b.recoverUsed \/ primal)
    BY <1>5, <1>6, GaveRecoverFacts
  <1> HIDE DEF q
  <1>8. /\ q.p = r.p /\ q.day = Arb!Day(now)
        /\ q.last = IF v.kind = "PASS" THEN r.last ELSE now
        /\ q.total = IF v.kind = "SWALLOW" THEN r.total + 1 ELSE r.total
        /\ q.interventions = IF k = Arb!NoPending THEN r.interventions ELSE r.interventions + 1
        /\ q.recoverUsed = (r.recoverUsed \/ primal)
    BY <1>1, <1>4, <1>5, <1>7
  <1>9. Outcome(r, v, k, primal, q, pol, raised, d.action)
    BY <1>1, <1>2, <1>3, <1>7, <1>8 DEF Outcome
  <1> QED
    BY <1>9 DEF r, v, k, primal, a, b, q

(* The record r of the day, the verdict w given on it, and what it becomes.  *)
Follow(vs, pol, r, w, q) ==
  /\ w.nth = Cardinality(vs) /\ w.day = r.day /\ q.day = r.day
  /\ r.last <= w.at
  /\ q.last = IF w.kind = "PASS" THEN r.last ELSE w.at
  /\ q.total = IF w.kind = "SWALLOW" THEN r.total + 1 ELSE r.total
  /\ q.recoverUsed = (r.recoverUsed \/ w.primal)
  /\ w.primal => ~r.recoverUsed
  /\ w.kind # "PASS" => r.last + MinGap <= w.at
  /\ w.kind = "SWALLOW" => ~w.narrow
  /\ pol \in {"conservative", "duel"} => Arb!Sigma(w.kind) <= Arb!Sigma(w.core)
  /\ r.interventions <= q.interventions
  /\ pol = "conservative" /\ w.kind # "PASS" /\ ~w.raised /\ ~w.recover
       => r.interventions < Budget /\ q.interventions = r.interventions + 1

LEMMA VerdictAdds ==
  ASSUME Arb!ArbitrationAssumption, NEW vs, NEW pol, NEW r \in Manners, NEW q \in Manners,
         NEW w \in VerdictsKept, Recorded(vs, r, pol), Mild(vs, pol), Follow(vs, pol, r, w, q)
  PROVE  Recorded(vs \cup {w}, q, pol) /\ Mild(vs \cup {w}, pol)
  <1> DEFINE us == vs \cup {w}
  <1>1. /\ vs \subseteq VerdictsKept /\ IsFiniteSet(vs)
        /\ \A v \in vs : v.at \in Nat /\ v.day \in Nat /\ v.nth \in Nat
        /\ w.at \in Nat /\ w.day \in Nat /\ w.nth \in Nat /\ w.kind \in Rungs
    BY DEF Mild, VerdictsKept
  <1>2. /\ r.last \in Int /\ q.last \in Int /\ r.total \in Nat /\ MinGap \in Nat /\ Budget \in Nat
        /\ r.interventions \in Nat /\ q.interventions \in Nat /\ r.day \in Nat
    BY Parameters, MannerTypes
  <1>3. /\ \A v \in vs : /\ v.day <= r.day /\ v.nth < Cardinality(vs)
                         /\ v.kind # "PASS" /\ v.day = r.day => v.at <= r.last
                         /\ v.primal /\ v.day = r.day => r.recoverUsed
        /\ r.total = Cardinality(SwallowsIn(vs))
    BY DEF Recorded
  <1>4. Cardinality(vs) \in Nat /\ w.nth = Cardinality(vs)
    BY <1>1, ChargedFinite DEF Follow
  <1>5. w \notin vs
    BY <1>3, <1>4
  <1>6. /\ IsFiniteSet(us) /\ Cardinality(us) = Cardinality(vs) + 1
        /\ Cardinality(SwallowsIn(us))
             = Cardinality(SwallowsIn(vs)) + (IF w.kind = "SWALLOW" THEN 1 ELSE 0)
    BY <1>1, <1>5, OneMore
  <1> DEFINE before == r.recoverUsed
             after  == q.recoverUsed
             given  == w.primal
  <1>a. after = (before \/ given)
    BY DEF Follow
  <1>b. (before => after) /\ (given => after)
    <2> HIDE DEF before, after, given
    <2> QED
      BY <1>a, Zenon
  <1>7. \A v \in us : /\ v.day <= q.day /\ v.nth < Cardinality(us)
                      /\ v.kind # "PASS" /\ v.day = q.day => v.at <= q.last
                      /\ v.primal /\ v.day = q.day => q.recoverUsed
    <2> SUFFICES ASSUME NEW v \in us
                 PROVE  /\ v.day <= q.day /\ v.nth < Cardinality(us)
                        /\ v.kind # "PASS" /\ v.day = q.day => v.at <= q.last
                        /\ v.primal /\ v.day = q.day => q.recoverUsed
      OBVIOUS
    <2>1. CASE v = w
      <3>1. /\ w.day = q.day /\ w.nth < Cardinality(us) /\ w.day <= q.day
            /\ w.kind # "PASS" => w.at <= q.last
        BY <1>1, <1>2, <1>4, <1>6 DEF Follow
      <3> QED
        BY <1>b, <2>1, <3>1
    <2>2. CASE v \in vs
      <3>1. /\ v.at \in Nat /\ v.day \in Nat /\ v.nth \in Nat
            /\ v.day <= r.day /\ v.nth < Cardinality(vs)
            /\ v.kind # "PASS" /\ v.day = r.day => v.at <= r.last
            /\ v.primal /\ v.day = r.day => r.recoverUsed
        BY <1>1, <1>3, <2>2
      <3>2. q.day = r.day /\ r.last <= q.last
        BY <1>1, <1>2 DEF Follow
      <3>3. v.primal /\ v.day = q.day => q.recoverUsed
        BY <1>b, <3>1, <3>2
      <3> HIDE DEF us
      <3> QED
        BY <1>2, <1>4, <1>6, <3>1, <3>2, <3>3
    <2> QED
      BY <2>1, <2>2
  <1>8. q.total = Cardinality(SwallowsIn(us))
    BY <1>2, <1>3, <1>6 DEF Follow
  <1>9. ASSUME pol = "conservative", NEW day \in Nat
        PROVE  /\ Cardinality(ChargedIn(us, day)) <= Budget
               /\ day = q.day => Cardinality(ChargedIn(us, day)) <= q.interventions
    <2> DEFINE x == Cardinality(ChargedIn(vs, day))
               y == Cardinality(ChargedIn(us, day))
    <2>1. y = x + (IF w \in ChargedIn({w}, day) THEN 1 ELSE 0) /\ x \in Nat
      BY <1>1, <1>5, OneMore, ChargedFinite
    <2>2. x <= Budget /\ (day = r.day => x <= r.interventions)
      BY <1>9 DEF Recorded
    <2>3. w \in ChargedIn({w}, day)
            => day = r.day /\ r.interventions < Budget /\ q.interventions = r.interventions + 1
      BY <1>9 DEF ChargedIn, Follow
    <2>4. q.day = r.day /\ r.interventions <= q.interventions
      BY DEF Follow
    <2> HIDE DEF x, y
    <2>5. y <= Budget /\ (day = q.day => y <= q.interventions)
      <3>1. CASE w \in ChargedIn({w}, day)
        BY <1>2, <2>1, <2>2, <2>3, <2>4, <3>1
      <3>2. CASE w \notin ChargedIn({w}, day)
        BY <1>2, <2>1, <2>2, <2>4, <3>2
      <3> QED
        BY <3>1, <3>2
    <2> QED
      BY <2>5 DEF y
  <1>10. q.day \in Nat
    BY <1>2 DEF Follow
  <1>11. Recorded(us, q, pol)
    BY <1>7, <1>8, <1>9, <1>10 DEF Recorded
  <1>12. us \subseteq VerdictsKept
    BY <1>1
  <1>13. ASSUME NEW v \in us, NEW u \in us,
                v.kind # "PASS", u.kind # "PASS", v.day = u.day, v.nth < u.nth
         PROVE  v.at + MinGap <= u.at
    <2>1. CASE v \in vs /\ u \in vs
      BY <1>13, <2>1 DEF Mild
    <2>2. CASE v \in vs /\ u = w
      <3>1. v.at \in Nat /\ v.at <= r.last /\ r.last + MinGap <= w.at
        BY <1>1, <1>3, <1>13, <2>2 DEF Follow
      <3> QED
        BY <1>1, <1>2, <2>2, <3>1
    <2>3. CASE v = w
      <3>1. u.nth <= w.nth /\ u.nth \in Nat
        BY <1>1, <1>3, <1>4
      <3> QED
        BY <1>1, <1>13, <2>3, <3>1
    <2> QED
      BY <2>1, <2>2, <2>3
  <1>14. ASSUME NEW v \in us, NEW u \in us, v.primal, u.primal, v.day = u.day
         PROVE  v = u
    <2>1. \A x \in vs : ~(x.primal /\ w.primal /\ x.day = w.day)
      BY <1>3 DEF Follow
    <2>2. CASE v \in vs /\ u \in vs
      BY <1>14, <2>2 DEF Mild
    <2> QED
      BY <1>14, <2>1, <2>2
  <1>15. \A v \in us : v.kind = "SWALLOW" => ~v.narrow
    BY DEF Mild, Follow
  <1>16. pol \in {"conservative", "duel"} => \A v \in us : Arb!Sigma(v.kind) <= Arb!Sigma(v.core)
    BY DEF Mild, Follow
  <1> HIDE DEF us
  <1>17. Mild(us, pol)
    BY <1>6, <1>12, <1>13, <1>14, <1>15, <1>16 DEF Mild
  <1> QED
    BY <1>11, <1>17 DEF us

------------------------------------------------------------------------------
(* The steps. *)

LEMMA FallsFacts ==
  ASSUME Arb!ArbitrationAssumption, ArbInv, NEW p \in Arb!Falls
  PROVE  p \in Levels /\ p <= manner.p
  <1>1. manner.p \in Levels /\ manner.p \in Int
    BY MannerTypes DEF ArbInv, WellKept
  <1> QED
    BY <1>1 DEF Arb!Falls

LEMMA RolledBeyond ==
  ASSUME Arb!ArbitrationAssumption, now \in Nat, NEW k, WellKept(k, now),
         NEW m, WellKept(m, now), Beyond(m, k),
         NEW p \in Levels, p <= m.p
  PROVE  LET r == Arb!Rolled(m, p)
         IN WellKept(r, now) /\ Beyond(r, k) /\ r.day = Arb!Day(now)
  <1> DEFINE r == Arb!Rolled(m, p)
  <1>1. /\ WellKept(r, now) /\ r.day = Arb!Day(now) /\ r.total = m.total
        /\ \/ m.day = Arb!Day(now) /\ r = m
           \/ m.day < Arb!Day(now) /\ r.p = p
    BY RolledFacts
  <1>2. m \in Manners /\ k \in Manners
    BY DEF WellKept
  <1>3. m.p \in Int /\ k.p \in Int /\ m.day \in Nat /\ k.day \in Nat /\ p \in Int
    BY <1>2, MannerTypes, Parameters
  <1>4. k.day <= m.day /\ m.p <= k.p /\ m.total = k.total
    BY DEF Beyond
  <1> HIDE DEF r
  <1>5. Beyond(r, k)
    <2>1. CASE r = m
      BY <2>1
    <2>2. CASE m.day < Arb!Day(now) /\ r.p = p
      <3>1. k.day < r.day /\ r.day \in Nat
        <4>1. Arb!Day(now) \in Nat
          BY DayMonotone
        <4> QED
          BY <1>1, <1>3, <1>4, <2>2, <4>1
      <3>2. r.p <= k.p
        BY <1>3, <1>4, <2>2
      <3>3. k.day <= r.day /\ r.day # k.day /\ r.total = k.total
        BY <1>1, <1>3, <1>4, <3>1
      <3> QED
        BY <3>2, <3>3 DEF Beyond
    <2> QED
      BY <1>1, <2>1, <2>2
  <1> QED
    BY <1>1, <1>5 DEF r

LEMMA BeyondItself ==
  ASSUME Arb!ArbitrationAssumption, NEW m \in Manners
  PROVE  Beyond(m, m)
  BY MannerTypes DEF Beyond

(* A settled record is no further than the record it settles. *)
LEMMA SettledBeyond ==
  ASSUME Arb!ArbitrationAssumption, NEW t, NEW r, WellKept(r, t), NEW k, Beyond(r, k),
         NEW reaction \in Arb!Signs, NEW q \in Arb!Settles(r, reaction)
  PROVE  WellKept(q, t) /\ Beyond(q, k) /\ q.p = r.p /\ q.day = r.day
  <1>1. /\ WellKept(q, t) /\ q.p = r.p /\ q.day = r.day /\ q.last = r.last /\ q.total = r.total
        /\ q.interventions = r.interventions /\ q.recoverUsed = r.recoverUsed
    BY SettlesFacts
  <1> QED
    BY <1>1 DEF Beyond

(* Saving a record that is sound and beyond the one on disk. *)
LEMMA SaveKeeps ==
  ASSUME Arb!ArbitrationAssumption, ArbInv, NEW q, WellKept(q, now), Beyond(q, kept),
         Arb!Save(q), UNCHANGED <<policy, verdicts, now>>, turn' \in {"idle", "submit", "beat"}
  PROVE  ArbInv'
  <1>1. manner' = q /\ kept' = q /\ q \in Manners /\ kept \in Manners
    BY DEF Arb!Save, WellKept, ArbInv
  <1>2. Recorded(verdicts, q, policy)
    BY <1>1, RecordedOn DEF ArbInv
  <1>3. Beyond(q, q)
    BY <1>1, BeyondItself
  <1>4. /\ policy' = policy /\ verdicts' = verdicts /\ now' = now
        /\ Mild(verdicts, policy) /\ now \in Nat /\ policy \in Policies \cup {"none"}
        /\ policy = "none" => verdicts = {}
    BY DEF ArbInv
  <1>5. /\ WellKept(manner', now') /\ WellKept(kept', now') /\ Beyond(manner', kept')
        /\ Recorded(verdicts', kept', policy') /\ Mild(verdicts', policy')
    BY <1>1, <1>2, <1>3, <1>4
  <1> QED
    BY <1>4, <1>5 DEF ArbInv

(* Only the record in memory moves. *)
LEMMA MannerMoves ==
  ASSUME Arb!ArbitrationAssumption, ArbInv, WellKept(manner', now), Beyond(manner', kept),
         UNCHANGED <<policy, kept, verdicts, now>>, turn' \in {"idle", "submit", "beat"}
  PROVE  ArbInv'
  <1>1. /\ policy' = policy /\ verdicts' = verdicts /\ now' = now /\ kept' = kept
        /\ Mild(verdicts, policy) /\ now \in Nat /\ policy \in Policies \cup {"none"}
        /\ policy = "none" => verdicts = {}
        /\ WellKept(kept, now) /\ Recorded(verdicts, kept, policy)
    BY DEF ArbInv
  <1>2. /\ WellKept(manner', now') /\ WellKept(kept', now') /\ Beyond(manner', kept')
        /\ Recorded(verdicts', kept', policy') /\ Mild(verdicts', policy')
    BY <1>1
  <1> QED
    BY <1>1, <1>2 DEF ArbInv

LEMMA ArbitrateKeeps ==
  ASSUME Arb!ArbitrationAssumption, ArbInv, NEW d \in Drafts, NEW p \in Arb!Falls,
         NEW raised \in BOOLEAN,
         Arb!Arbitrate(d, p, raised)
  PROVE  ArbInv'
  <1> DEFINE r == Arb!Rolled(manner, p)
             v == Decided(policy, r, d, now, raised)
             c == Arb!Table(r, d, now)
             k == IF policy = "core" \/ raised THEN Arb!NoPending ELSE Arb!KindFor(d.action, v.kind)
             primal == v.recover /\ ~r.recoverUsed
             q == Arb!GaveRecover(Arb!Applied(Arb!Registered(r, k), v), primal)
             w == [kind |-> v.kind, at |-> now, day |-> r.day, narrow |-> Arb!Narrow(r.p),
                   recover |-> d.action = "recover", core |-> c.kind,
                   raised |-> raised, primal |-> primal, nth |-> Cardinality(verdicts)]
  <1>1. /\ policy # "none" /\ turn = "idle" /\ UNCHANGED <<policy, turn, now, crashes>>
        /\ Arb!Save(q)
        /\ \/ v.kind = "PASS" /\ ~primal /\ UNCHANGED verdicts
           \/ verdicts' = verdicts \cup {w}
    BY ArbCounts, Zenon DEF Arb!Arbitrate, Decided
  <1>2. /\ now \in Nat /\ policy \in Policies /\ WellKept(manner, now) /\ WellKept(kept, now)
        /\ Beyond(manner, kept) /\ manner \in Manners /\ kept \in Manners
        /\ Recorded(verdicts, kept, policy) /\ Mild(verdicts, policy)
    BY <1>1 DEF ArbInv, WellKept
  <1>3. p \in Levels /\ p <= manner.p
    BY FallsFacts
  <1>4. WellKept(r, now) /\ Beyond(r, kept) /\ r.day = Arb!Day(now) /\ r \in Manners
    BY <1>2, <1>3, RolledBeyond DEF WellKept
  <1>5. Outcome(r, v, k, primal, q, policy, raised, d.action)
    BY <1>2, <1>3, ArbitrateFacts
  <1>6. /\ c \in Verdicts
        /\ v.kind # "PASS" => ~(now - r.last < MinGap)
        /\ v.kind = "SWALLOW" => ~Arb!Narrow(r.p)
        /\ policy \in {"conservative", "duel"} => Arb!Sigma(v.kind) <= Arb!Sigma(c.kind)
        /\ policy = "conservative" /\ ~raised /\ v.kind # "PASS"
             => /\ r.interventions < Budget
                /\ v.kind = "TRIM" => d.action \in {"hold", "recover", "express"}
    BY <1>2, <1>4, DecidedFacts
  <1>7. Recorded(verdicts, r, policy)
    BY <1>2, <1>4, RecordedOn
  <1> HIDE DEF r
  <1>8. /\ r.last \in Int /\ r.total \in Nat /\ r.interventions \in Nat /\ MinGap \in Nat
        /\ r.day \in Nat /\ r.recoverUsed \in BOOLEAN
    BY <1>4, MannerTypes, Parameters
  <1> HIDE DEF v, c
  <1>9. v.kind \in Rungs /\ c.kind \in Rungs /\ v.recover \in BOOLEAN
    BY <1>5, <1>6 DEF Outcome, Verdicts
  <1> HIDE DEF k, q
  <1>10. /\ q \in Manners /\ WellKept(q, now) /\ q.p = r.p /\ q.day = Arb!Day(now)
         /\ q.last = IF v.kind = "PASS" THEN r.last ELSE now
         /\ q.total = IF v.kind = "SWALLOW" THEN r.total + 1 ELSE r.total
         /\ q.interventions = IF k = Arb!NoPending THEN r.interventions ELSE r.interventions + 1
         /\ v.kind = "PASS" => k = Arb!NoPending
         /\ v.kind # "PASS" /\ ~(policy = "core" \/ raised)
            /\ (v.kind = "TRIM" => d.action \in {"hold", "express"}) => k # Arb!NoPending
    <2> HIDE DEF primal
    <2> QED
      BY <1>5 DEF Outcome, WellKept
  <1>13. q.recoverUsed = (r.recoverUsed \/ primal)
    <2> HIDE DEF primal
    <2> QED
      BY <1>5, Zenon DEF Outcome
  <1>11. CASE UNCHANGED verdicts /\ v.kind = "PASS" /\ ~primal
    <2>1. q.last = r.last /\ q.total = r.total /\ q.interventions = r.interventions /\ q.day = r.day
      BY <1>4, <1>10, <1>11
    <2>2. q.recoverUsed = r.recoverUsed
      <3> HIDE DEF primal
      <3>1. q.recoverUsed = (r.recoverUsed \/ FALSE)
        BY <1>11, <1>13, Zenon
      <3> QED
        BY <1>8, <3>1
    <2>3. Beyond(q, kept)
      BY <1>4, <1>10, <2>1, <2>2 DEF Beyond
    <2> QED
      BY <1>1, <1>2, <1>10, <1>11, <2>3, SaveKeeps
  <1>12. CASE verdicts' = verdicts \cup {w}
    <2> DEFINE nar == Arb!Narrow(r.p)
               rec == d.action = "recover"
               n   == Cardinality(verdicts)
    <2>1. nar \in BOOLEAN /\ rec \in BOOLEAN /\ primal \in BOOLEAN /\ n \in Nat
      BY <1>2, ChargedFinite DEF Mild, Arb!Narrow
    <2>2. /\ w.kind = v.kind /\ w.at = now /\ w.day = r.day /\ w.narrow = nar /\ w.recover = rec
          /\ w.core = c.kind /\ w.raised = raised /\ w.primal = primal /\ w.nth = n
      OBVIOUS
    <2>3. w \in VerdictsKept
      <3> HIDE DEF primal, nar, rec, n
      <3>1. w = [kind |-> v.kind, at |-> now, day |-> r.day, narrow |-> nar, recover |-> rec,
                 core |-> c.kind, raised |-> raised, primal |-> primal, nth |-> n]
        BY DEF nar, rec, n
      <3> HIDE DEF w
      <3> QED
        BY <1>2, <1>8, <1>9, <2>1, <3>1 DEF VerdictsKept
    <2> HIDE DEF w
    <2>4. r.last <= now
      BY <1>2, <1>4, <1>8, Parameters DEF WellKept
    <2>5. primal => ~r.recoverUsed
      OBVIOUS
    <2>6. v.kind # "PASS" => r.last + MinGap <= now
      BY <1>2, <1>6, <1>8
    <2>7. r.interventions <= q.interventions
      BY <1>8, <1>10
    <2>8. policy = "conservative" /\ v.kind # "PASS" /\ ~raised /\ ~rec
            => r.interventions < Budget /\ q.interventions = r.interventions + 1
      BY <1>6, <1>10
    <2> HIDE DEF primal, nar, rec, n
    <2>9. Follow(verdicts, policy, r, w, q)
      <3>1. q.recoverUsed = (r.recoverUsed \/ w.primal) /\ (w.primal => ~r.recoverUsed)
        BY <1>13, <2>2, <2>5, Zenon
      <3>2. /\ w.nth = Cardinality(verdicts) /\ w.day = r.day /\ q.day = r.day
            /\ r.last <= w.at
            /\ q.last = IF w.kind = "PASS" THEN r.last ELSE w.at
            /\ q.total = IF w.kind = "SWALLOW" THEN r.total + 1 ELSE r.total
        BY <1>4, <1>10, <2>2, <2>4 DEF n
      <3>3. /\ w.kind # "PASS" => r.last + MinGap <= w.at
            /\ w.kind = "SWALLOW" => ~w.narrow
            /\ policy \in {"conservative", "duel"} => Arb!Sigma(w.kind) <= Arb!Sigma(w.core)
        BY <1>6, <2>2, <2>6 DEF nar
      <3>4. /\ r.interventions <= q.interventions
            /\ policy = "conservative" /\ w.kind # "PASS" /\ ~w.raised /\ ~w.recover
                 => r.interventions < Budget /\ q.interventions = r.interventions + 1
        BY <2>2, <2>7, <2>8
      <3> QED
        BY <3>1, <3>2, <3>3, <3>4, Zenon DEF Follow
    <2>10. Recorded(verdicts', q, policy) /\ Mild(verdicts', policy)
      BY <1>2, <1>4, <1>7, <1>10, <1>12, <2>3, <2>9, VerdictAdds
    <2>11. Beyond(q, q)
      BY <1>10, BeyondItself
    <2>12. manner' = q /\ kept' = q /\ policy' = policy /\ now' = now /\ turn' = turn
      BY <1>1 DEF Arb!Save
    <2>13. /\ WellKept(manner', now') /\ WellKept(kept', now') /\ Beyond(manner', kept')
           /\ Recorded(verdicts', kept', policy') /\ Mild(verdicts', policy')
      BY <1>10, <2>10, <2>11, <2>12
    <2> QED
      BY <1>1, <1>2, <2>12, <2>13 DEF ArbInv
  <1> QED
    BY <1>1, <1>11, <1>12

LEMMA BuildKeeps ==
  ASSUME Arb!ArbitrationAssumption, ArbInv, NEW pol \in Policies, Arb!Build(pol)
  PROVE  ArbInv'
  <1>1. /\ policy' = pol /\ manner' = manner /\ kept' = kept /\ turn' = turn
        /\ verdicts' = {} /\ now' = now
    BY DEF Arb!Build, ArbInv
  <1>2. WellKept(kept, now) /\ kept \in Manners /\ Recorded({}, kept, policy)
    BY <1>1 DEF ArbInv, WellKept, Arb!Build
  <1>3. ChargedIn({}, kept.day) = {} /\ \A day \in Nat : ChargedIn({}, day) = {}
    BY DEF ChargedIn
  <1>4. kept.interventions \in Nat /\ Budget \in Nat
    BY <1>2, MannerTypes, Parameters
  <1>5. Recorded({}, kept, pol)
    BY <1>2, <1>3, <1>4, FS_EmptySet DEF Recorded
  <1>6. Mild({}, pol)
    BY FS_EmptySet DEF Mild
  <1>7. /\ WellKept(manner', now') /\ WellKept(kept', now') /\ Beyond(manner', kept')
        /\ Recorded(verdicts', kept', policy') /\ Mild(verdicts', policy')
        /\ now' \in Nat /\ turn' \in {"idle", "submit", "beat"}
    BY <1>1, <1>5, <1>6 DEF ArbInv
  <1> QED
    BY <1>1, <1>7 DEF ArbInv

LEMMA SubmitStartKeeps ==
  ASSUME Arb!ArbitrationAssumption, ArbInv, NEW p \in Arb!Falls, Arb!SubmitStart(p)
  PROVE  ArbInv'
  <1>1. p \in Levels /\ p <= manner.p
    BY FallsFacts
  <1>2. WellKept(Arb!Rolled(manner, p), now) /\ Beyond(Arb!Rolled(manner, p), kept)
    BY <1>1, RolledBeyond DEF ArbInv
  <1>3. /\ manner' = Arb!Rolled(manner, p) /\ turn' = "submit"
        /\ UNCHANGED <<policy, kept, verdicts, now>>
    BY DEF Arb!SubmitStart
  <1>4. WellKept(manner', now) /\ Beyond(manner', kept)
    BY <1>2, <1>3
  <1> QED
    BY <1>3, <1>4, MannerMoves

LEMMA SubmitDoneKeeps ==
  ASSUME Arb!ArbitrationAssumption, ArbInv, NEW reaction \in Arb!Signs, Arb!SubmitDone(reaction)
  PROVE  ArbInv'
  <1>1. PICK q \in Arb!Settles(manner, reaction) : Arb!Save(q)
    BY DEF Arb!SubmitDone
  <1>2. WellKept(q, now) /\ Beyond(q, kept)
    BY SettledBeyond DEF ArbInv
  <1>3. turn' = "idle" /\ UNCHANGED <<policy, verdicts, now>>
    BY DEF Arb!SubmitDone
  <1> QED
    BY <1>1, <1>2, <1>3, SaveKeeps

LEMMA BeatStartKeeps ==
  ASSUME Arb!ArbitrationAssumption, ArbInv, NEW p \in Arb!Falls, Arb!BeatStart(p)
  PROVE  ArbInv'
  <1>1. p \in Levels /\ p <= manner.p
    BY FallsFacts
  <1>2. PICK m \in IF manner.day # Arb!Day(now) THEN Arb!Settles(manner, -1) ELSE {manner} :
               manner' = Arb!Rolled(m, p)
    BY DEF Arb!BeatStart
  <1>3. WellKept(m, now) /\ Beyond(m, kept) /\ m.p = manner.p
    <2>1. CASE m \in Arb!Settles(manner, -1)
      BY <2>1, SettledBeyond DEF ArbInv, Arb!Signs
    <2>2. CASE m = manner
      BY <2>2 DEF ArbInv
    <2> QED
      BY <1>2, <2>1, <2>2
  <1>4. WellKept(Arb!Rolled(m, p), now) /\ Beyond(Arb!Rolled(m, p), kept)
    BY <1>1, <1>3, RolledBeyond DEF ArbInv
  <1>5. turn' = "beat" /\ UNCHANGED <<policy, kept, verdicts, now>>
    BY DEF Arb!BeatStart
  <1>6. WellKept(manner', now) /\ Beyond(manner', kept)
    BY <1>2, <1>4
  <1> QED
    BY <1>5, <1>6, MannerMoves

LEMMA ArbCrashKeeps ==
  ASSUME Arb!ArbitrationAssumption, ArbInv, Arb!Crash
  PROVE  ArbInv'
  <1>1. manner' = kept /\ turn' = "idle" /\ UNCHANGED <<policy, kept, verdicts, now>>
    BY DEF Arb!Crash
  <1>2. WellKept(kept, now) /\ kept \in Manners
    BY DEF ArbInv, WellKept
  <1>3. Beyond(kept, kept)
    BY <1>2, BeyondItself
  <1>4. WellKept(manner', now) /\ Beyond(manner', kept)
    BY <1>1, <1>2, <1>3
  <1> QED
    BY <1>1, <1>4, MannerMoves

LEMMA ArbTickKeeps ==
  ASSUME Arb!ArbitrationAssumption, ArbInv, Arb!Tick
  PROVE  ArbInv'
  <1>1. now' = now + 1 /\ UNCHANGED <<policy, manner, kept, turn, verdicts>> /\ now \in Nat
    BY DEF Arb!Tick, ArbInv
  <1>2. Arb!Day(now) \in Nat /\ Arb!Day(now + 1) \in Nat /\ Arb!Day(now) <= Arb!Day(now + 1)
    BY <1>1, DayMonotone
  <1>3. ASSUME NEW r, WellKept(r, now)
        PROVE  WellKept(r, now + 1)
    <2>1. r.day \in Nat /\ Arb!Never \in Int /\ r \in Manners
      BY <1>3, MannerTypes, Parameters DEF WellKept
    <2> QED
      BY <1>1, <1>2, <1>3, <2>1 DEF WellKept
  <1>4. WellKept(manner, now + 1) /\ WellKept(kept, now + 1)
    BY <1>3 DEF ArbInv
  <1>5. WellKept(manner', now') /\ WellKept(kept', now') /\ now' \in Nat
    BY <1>1, <1>4
  <1>6. /\ Beyond(manner', kept') /\ Recorded(verdicts', kept', policy') /\ Mild(verdicts', policy')
        /\ policy' = policy /\ turn' = turn /\ verdicts' = verdicts
    BY <1>1 DEF ArbInv
  <1> QED
    BY <1>5, <1>6 DEF ArbInv

LEMMA StepKeeps ==
  ASSUME Arb!ArbitrationAssumption, ArbInv, [Arb!Next]_(Arb!vars)
  PROVE  ArbInv'
  <1>1. ASSUME NEW pol \in Policies, Arb!Build(pol)
        PROVE  ArbInv'
    BY <1>1, BuildKeeps
  <1>2. ASSUME NEW d \in Drafts, NEW p \in Arb!Falls, NEW raised \in BOOLEAN, Arb!Arbitrate(d, p, raised)
        PROVE  ArbInv'
    BY <1>2, ArbitrateKeeps
  <1>3. ASSUME NEW p \in Arb!Falls, Arb!SubmitStart(p)
        PROVE  ArbInv'
    BY <1>3, SubmitStartKeeps
  <1>4. ASSUME NEW p \in Arb!Falls, Arb!BeatStart(p)
        PROVE  ArbInv'
    BY <1>4, BeatStartKeeps
  <1>5. ASSUME NEW reaction \in Arb!Signs, Arb!SubmitDone(reaction)
        PROVE  ArbInv'
    BY <1>5, SubmitDoneKeeps
  <1>6. CASE Arb!BeatDone
    <2>1. Arb!Save(manner) /\ turn' = "idle" /\ UNCHANGED <<policy, verdicts, now>>
      BY <1>6 DEF Arb!BeatDone
    <2> QED
      BY <2>1, SaveKeeps DEF ArbInv
  <1>7. CASE Arb!OtherSaves
    <2>1. /\ Arb!Save(manner) /\ turn' \in {"idle", "submit", "beat"}
          /\ UNCHANGED <<policy, verdicts, now>>
      BY <1>7 DEF Arb!OtherSaves, ArbInv
    <2> QED
      BY <2>1, SaveKeeps DEF ArbInv
  <1>8. CASE Arb!Crash
    BY <1>8, ArbCrashKeeps
  <1>9. CASE Arb!Tick
    BY <1>9, ArbTickKeeps
  <1>10. CASE UNCHANGED Arb!vars
    BY <1>10 DEF Arb!vars, ArbInv
  <1> QED
    BY <1>1, <1>2, <1>3, <1>4, <1>5, <1>6, <1>7, <1>8, <1>9, <1>10 DEF Arb!Next

------------------------------------------------------------------------------
(* The theorems. *)

(* The inductive invariant: her record in memory is ahead of the one on disk *)
(* by no more than a rollover and a settlement, and the verdicts she was     *)
(* given are spaced, rationed and gentle and are in the record on disk.      *)
THEOREM ArbitrationInvariant ==
  ASSUME Arb!ArbitrationAssumption
  PROVE  Arb!Spec => []ArbInv
  <1>1. Arb!Init => ArbInv
    BY ArbInit
  <1>2. ArbInv /\ [Arb!Next]_(Arb!vars) => ArbInv'
    BY StepKeeps
  <1> QED
    BY <1>1, <1>2, PTL DEF Arb!Spec

(* Types: P never rises above what is saved, theta stays in its box, the     *)
(* counters of swallowed drafts stay in order.                               *)
THEOREM ArbitrationTypeCorrect ==
  ASSUME Arb!ArbitrationAssumption
  PROVE  Arb!Spec => []Arb!TypeOK
  <1>1. ArbInv => Arb!TypeOK
    <2> SUFFICES ASSUME ArbInv PROVE Arb!TypeOK
      OBVIOUS
    <2>1. ASSUME NEW r, WellKept(r, now)
          PROVE  /\ r.p \in Levels /\ r.day \in 0..Arb!Day(now)
                 /\ r.last \in {Arb!Never} \cup 0..now
                 /\ r.high <= r.swallowed /\ r.swallowed <= r.total
                 /\ r.pending \in {Arb!NoPending, "SWALLOW", "REPLACE", "TRIM_hold", "TRIM_express"}
                 /\ r.theta \in [Arb!Params -> -25..25]
                 /\ r.fast \in Arb!Signs /\ r.slow \in Arb!Signs
      <3>1. r \in Manners
        BY <2>1 DEF WellKept
      <3>2. /\ r.p \in Levels /\ r.day \in Nat /\ r.pending \in Pendings
            /\ r.theta \in [Arb!Params -> -25..25] /\ r.fast \in Arb!Signs /\ r.slow \in Arb!Signs
        BY <3>1, MannerTypes
      <3>3. Arb!Day(now) \in Nat
        BY DayMonotone DEF ArbInv
      <3>4. r.day \in 0..Arb!Day(now)
        BY <2>1, <3>2, <3>3 DEF WellKept
      <3> QED
        BY <2>1, <3>2, <3>4 DEF WellKept, Pendings
    <2>2. WellKept(manner, now) /\ WellKept(kept, now) /\ manner.p <= kept.p
      BY DEF ArbInv, Beyond
    <2>3. policy \in Policies \cup {"none"} /\ turn \in {"idle", "submit", "beat"}
      BY DEF ArbInv
    <2> QED
      BY <2>1, <2>2, <2>3 DEF Arb!TypeOK
  <1> QED
    BY <1>1, ArbitrationInvariant, PTL

(* Two interventions of a day are MinGap apart, whatever was decided, saved, *)
(* killed or raised between them (_apply_verdict starts the gap, the guard   *)
(* of every policy keeps it, the record on disk carries it over a restart).  *)
THEOREM InterventionsAreSpaced ==
  ASSUME Arb!ArbitrationAssumption
  PROVE  Arb!Spec => []Arb!InterventionGap
  <1>1. ArbInv => Arb!InterventionGap
    BY DEF ArbInv, Mild, Arb!InterventionGap, Arb!Interventions
  <1> QED
    BY <1>1, ArbitrationInvariant, PTL

(* The conservative policy keeps to its daily budget, counting what it may   *)
(* be charged with: not the trims of recover, not what the core decided.     *)
THEOREM ConservativeKeepsItsBudget ==
  ASSUME Arb!ArbitrationAssumption
  PROVE  Arb!Spec => []Arb!ConservativeBudget
  <1>1. ArbInv => Arb!ConservativeBudget
    <2> SUFFICES ASSUME ArbInv, policy = "conservative", NEW day \in 0..Arb!Day(MaxNow)
                 PROVE  Cardinality({v \in Arb!Interventions : v.day = day /\ ~v.raised /\ ~v.recover})
                          <= Budget
      BY ArbCounts DEF Arb!ConservativeBudget
    <2>1. Arb!Day(MaxNow) \in Nat
      BY Parameters, DayMonotone
    <2>2. day \in Nat
      BY <2>1
    <2>3. Cardinality(ChargedIn(verdicts, day)) <= Budget
      BY <2>2 DEF ArbInv, Recorded
    <2>4. {v \in Arb!Interventions : v.day = day /\ ~v.raised /\ ~v.recover} = ChargedIn(verdicts, day)
      BY DEF Arb!Interventions, ChargedIn
    <2> QED
      BY <2>3, <2>4
  <1> QED
    BY <1>1, ArbitrationInvariant, PTL

(* The record a restart would load counts every draft that was swallowed.    *)
THEOREM EverySwallowIsRemembered ==
  ASSUME Arb!ArbitrationAssumption
  PROVE  Arb!Spec => []Arb!SwallowsRemembered
  <1>1. ArbInv => Arb!SwallowsRemembered
    BY ArbCounts DEF ArbInv, Recorded, SwallowsIn, Arb!SwallowsRemembered
  <1> QED
    BY <1>1, ArbitrationInvariant, PTL

(* Narrowed, she swallows nothing: under no policy, at no theta.             *)
THEOREM NarrowedSheSwallowsNothing ==
  ASSUME Arb!ArbitrationAssumption
  PROVE  Arb!Spec => []Arb!NarrowNeverSwallows
  <1>1. ArbInv => Arb!NarrowNeverSwallows
    BY DEF ArbInv, Mild, Arb!NarrowNeverSwallows
  <1> QED
    BY <1>1, ArbitrationInvariant, PTL

(* The conservative policy and the duel are never harsher than the table.    *)
THEOREM NoHarsherThanTheTable ==
  ASSUME Arb!ArbitrationAssumption
  PROVE  Arb!Spec => []Arb!NeverHarsherThanCore
  <1>1. ArbInv => Arb!NeverHarsherThanCore
    BY DEF ArbInv, Mild, Arb!NeverHarsherThanCore
  <1> QED
    BY <1>1, ArbitrationInvariant, PTL

(* One recover word a day, through restarts: recover_primal_used is saved    *)
(* with the verdict that uses it.                                            *)
THEOREM OneRecoverWordADay ==
  ASSUME Arb!ArbitrationAssumption
  PROVE  Arb!Spec => []Arb!RecoverOnce
  <1>1. ArbInv => Arb!RecoverOnce
    BY DEF ArbInv, Mild, Arb!RecoverOnce
  <1> QED
    BY <1>1, ArbitrationInvariant, PTL

(* No intervention is settled twice, in memory or in what a restart loads.   *)
THEOREM InterventionsSettleOnce ==
  ASSUME Arb!ArbitrationAssumption
  PROVE  Arb!Spec => []Arb!SettledOnce
  <1>1. ArbInv => Arb!SettledOnce
    BY DEF ArbInv, WellKept, Unsettled, Arb!SettledOnce
  <1> QED
    BY <1>1, ArbitrationInvariant, PTL

------------------------------------------------------------------------------
(* Each part takes its own steps or none. *)
LEMMA PartSteps ==
  ASSUME [Next]_vars
  PROVE  /\ [Arb!Next]_(Arb!vars)
         /\ [Con!Next]_(Con!cvars)
         /\ [Deep!Next]_(Deep!svars)
         /\ [Hear!Next]_(Hear!hvars)
         /\ part' = part
  <1>1. CASE UNCHANGED vars
    BY <1>1 DEF vars, ArbVars, ConVars, DeepVars, BaseVars, HearVars,
                Arb!vars, Con!cvars, Deep!svars, Hear!hvars
  <1>2. CASE Next
    BY <1>2 DEF Next, Others, ArbVars, ConVars, DeepVars, BaseVars, HearVars,
                Arb!vars, Con!cvars, Deep!svars, Hear!hvars
  <1> QED
    BY <1>1, <1>2

LEMMA ArbiterSpec == Spec => Arb!Spec
  <1>1. Init => Arb!Init
    BY DEF Init
  <1>2. [Next]_vars => [Arb!Next]_(Arb!vars)
    BY PartSteps
  <1> QED
    BY <1>1, <1>2, PTL DEF Spec, Arb!Spec

------------------------------------------------------------------------------
(* What the arbiter does to a draft is spaced and rationed: whatever was     *)
(* decided, saved, killed or raised, and however many parts stand beside it. *)
THEOREM SessionIsSpaced == Spec => []Spaced
  <1>1. Arb!ArbitrationAssumption
    BY Constants
  <1>2. Arb!Spec => []Arb!InterventionGap /\ []Arb!ConservativeBudget
    BY <1>1, InterventionsAreSpaced, ConservativeKeepsItsBudget
  <1>3. Arb!InterventionGap /\ Arb!ConservativeBudget => Spaced
    BY DEF Spaced
  <1> QED
    BY <1>2, <1>3, ArbiterSpec, PTL

(* No policy swallows once P has narrowed, none is harsher than the table.   *)
THEOREM SessionIsGentle == Spec => []Gentle
  <1>1. Arb!ArbitrationAssumption
    BY Constants
  <1>2. Arb!Spec => []Arb!NarrowNeverSwallows /\ []Arb!NeverHarsherThanCore
    BY <1>1, NarrowedSheSwallowsNothing, NoHarsherThanTheTable
  <1>3. Arb!NarrowNeverSwallows /\ Arb!NeverHarsherThanCore => Gentle
    BY DEF Gentle
  <1> QED
    BY <1>2, <1>3, ArbiterSpec, PTL

------------------------------------------------------------------------------
(* What the engine has heard. *)

Heard == [main : SUBSET [by : {"user", "her"}, text : Texts, resets : Nat],
          shadow : SUBSET [by : {"user", "her"}, text : Texts, resets : Nat]]

Uttered == [by : {"user", "her"}, text : Texts, resets : Nat]

Tales == [turns : Nat, resets : Nat, trouble : Nat, late : SUBSET Uttered,
          held : [Texts -> Nat], echo : [Texts -> Nat]]

Places == {"none", "main", "shadow", "reset main", "reset shadow"}

HearTypes ==
  /\ heard \in Heard /\ feeds \subseteq Uttered /\ tale \in Tales
  /\ call.at \in Places
  /\ call.at \in {"main", "shadow"} => call \in [at : {"main", "shadow"}, text : Texts, on : Nat]
  /\ moment \in Nat
  /\ \A t \in DOMAIN notes : notes[t].by \in {"user", "her"}

(* What outlived a reset is hers, and was on its way when the reset ended.   *)
ForgetInv ==
  /\ \A e \in feeds : e.by = "her" /\ (e.resets < tale.resets => e \in tale.late)
  /\ call.at = "reset shadow" => \A e \in heard.main : e.by = "her"
  /\ Hear!ResetForgets

(* While nothing failed, the main session is ahead of glance and shadow,     *)
(* but for the time a reset takes.                                           *)
AheadInv ==
  tale.trouble = 0 =>
    /\ call.at # "reset shadow" => glance \subseteq heard.main /\ heard.shadow \subseteq heard.main
    /\ call.at = "shadow" => Hear!Entry("user", call.text) \in heard.main

(* An echo of hers that is still noted has not been held against the user.   *)
Armed(n, t) == IF t \in DOMAIN n /\ n[t].by = "her" THEN 1 ELSE 0

EchoInv == \A t \in Texts : tale.held[t] + Armed(notes, t) <= tale.echo[t]

HearInv == HearTypes /\ ForgetInv /\ AheadInv /\ EchoInv

(* A step that moves the soul or the clock alone. *)
LEMMA SoulMoves ==
  ASSUME HearInv, UNCHANGED <<notes, feeds, glance, heard, call, tale>>, moment' \in Nat
  PROVE  HearInv'
  BY DEF HearInv, HearTypes, ForgetInv, AheadInv, EchoInv, Hear!ResetForgets, Hear!Entry

(* The tale, when a turn is taken, an echo heard, a call fails. *)
LEMMA TaleFacts ==
  ASSUME tale \in Tales
  PROVE  /\ tale.turns \in Nat /\ tale.resets \in Nat /\ tale.trouble \in Nat
         /\ tale.late \subseteq Uttered /\ tale.held \in [Texts -> Nat] /\ tale.echo \in [Texts -> Nat]
         /\ ~(tale.resets < tale.resets)
         /\ \A n \in Nat : [tale EXCEPT !.turns = n] \in Tales
         /\ \A n \in Nat : [tale EXCEPT !.trouble = n] \in Tales
  BY DEF Tales

LEMMA FreshFacts ==
  ASSUME NEW t, NEW by, NEW on, NEW u
  PROVE  Armed(Hear!Fresh(t, by, on), u)
           <= IF u = t THEN (IF by = "her" THEN 1 ELSE 0) ELSE Armed(notes, u)
  <1> DEFINE live == {v \in DOMAIN notes : on - notes[v].on <= Window}
             n == [v \in live \cup {t} |-> IF v = t THEN [by |-> by, on |-> on] ELSE notes[v]]
  <1>1. Hear!Fresh(t, by, on) = n
    BY DEF Hear!Fresh
  <1>2. live \subseteq DOMAIN notes
    OBVIOUS
  <1> HIDE DEF live
  <1>3. DOMAIN n = live \cup {t} /\ n[t].by = by /\ \A v \in live : v # t => n[v] = notes[v]
    OBVIOUS
  <1> HIDE DEF n
  <1> QED
    BY <1>1, <1>2, <1>3 DEF Armed

LEMMA FreshSpeakers ==
  ASSUME HearTypes, NEW t, NEW by \in {"user", "her"}, NEW on
  PROVE  \A u \in DOMAIN Hear!Fresh(t, by, on) : Hear!Fresh(t, by, on)[u].by \in {"user", "her"}
  <1> DEFINE live == {v \in DOMAIN notes : on - notes[v].on <= Window}
             n == [v \in live \cup {t} |-> IF v = t THEN [by |-> by, on |-> on] ELSE notes[v]]
  <1>1. Hear!Fresh(t, by, on) = n
    BY DEF Hear!Fresh
  <1>2. \A v \in live : notes[v].by \in {"user", "her"}
    BY DEF HearTypes
  <1> HIDE DEF live
  <1>3. \A u \in DOMAIN n : n[u].by \in {"user", "her"}
    BY <1>2
  <1> QED
    BY <1>1, <1>3

(* One more turn is all that happened to the tale. *)
LEMMA TurnTaken ==
  ASSUME tale \in Tales, tale' = [tale EXCEPT !.turns = tale.turns + 1]
  PROVE  /\ tale' \in Tales /\ tale'.resets = tale.resets /\ tale'.late = tale.late
         /\ tale'.trouble = tale.trouble /\ tale'.held = tale.held /\ tale'.echo = tale.echo
  <1> DEFINE n == tale.turns + 1
  <1>1. n \in Nat
    BY TaleFacts
  <1>2. tale' = [tale EXCEPT !.turns = n]
    OBVIOUS
  <1> HIDE DEF n
  <1> QED
    BY <1>1, <1>2 DEF Tales

LEMMA UserTurnKeeps ==
  ASSUME HearInv, NEW t \in Texts, Hear!UserTurn(t)
  PROVE  HearInv'
  <1>1. /\ call' = [at |-> "main", text |-> t, on |-> moment]
        /\ tale' = [tale EXCEPT !.turns = tale.turns + 1] /\ call.at = "none"
        /\ UNCHANGED <<notes, feeds, glance, heard, moment>>
    BY DEF Hear!UserTurn, Hear!Idle
  <1>2. /\ tale \in Tales /\ tale' \in Tales /\ tale'.resets = tale.resets /\ tale'.late = tale.late
        /\ tale'.trouble = tale.trouble /\ tale'.held = tale.held /\ tale'.echo = tale.echo
    BY <1>1, TurnTaken DEF HearInv, HearTypes
  <1>3. /\ call'.at = "main" /\ call' \in [at : {"main", "shadow"}, text : Texts, on : Nat]
    BY <1>1 DEF HearInv, HearTypes
  <1> QED
    BY <1>1, <1>2, <1>3 DEF HearInv, HearTypes, ForgetInv, AheadInv, EchoInv, Hear!ResetForgets, Places

LEMMA MainAnswersKeeps ==
  ASSUME HearInv, Hear!MainAnswers
  PROVE  HearInv'
  <1> DEFINE t == call.text
             held == soul.mode = "companion" /\ Hear!Conflict(t, "user", call.on)
             e == Hear!Entry("user", t)
             x == IF held THEN 1 ELSE 0
  <1>1. /\ call.at = "main"
        /\ heard' = [heard EXCEPT !.main = heard.main \cup {e}]
        /\ glance' = heard'.main
        /\ notes' = Hear!Fresh(t, "user", call.on)
        /\ \/ call' = [call EXCEPT !.at = "shadow"]
           \/ call' = Hear!NoCall
        /\ tale' = [tale EXCEPT !.held[t] = tale.held[t] + x]
        /\ UNCHANGED <<feeds, moment>>
    BY DEF Hear!MainAnswers
  <1>2. /\ t \in Texts /\ tale \in Tales /\ heard \in Heard
        /\ call \in [at : {"main", "shadow"}, text : Texts, on : Nat]
    BY <1>1 DEF HearInv, HearTypes
  <1>3. /\ e.by = "user" /\ e.text = t /\ e.resets = tale.resets /\ e \in Uttered
    BY <1>2, TaleFacts DEF Hear!Entry, Uttered
  <1>4. held => Armed(notes, t) = 1
    BY DEF Hear!Conflict, Armed, HearInv, HearTypes
  <1>5. x \in Nat /\ x <= Armed(notes, t)
    BY <1>4 DEF Armed
  <1> HIDE DEF held, x, e
  <1>6. /\ heard' \in Heard /\ heard'.main = heard.main \cup {e} /\ heard'.shadow = heard.shadow
    BY <1>1, <1>2, <1>3 DEF Heard, Uttered
  <1>7. /\ tale' \in Tales /\ tale'.resets = tale.resets /\ tale'.late = tale.late
        /\ tale'.trouble = tale.trouble /\ tale'.echo = tale.echo
        /\ \A u \in Texts : tale'.held[u] = IF u = t THEN tale.held[u] + x ELSE tale.held[u]
    <2> DEFINE h == [tale.held EXCEPT ![t] = tale.held[t] + x]
    <2>1. tale' = [tale EXCEPT !.held = h]
      BY <1>1, <1>2 DEF Tales
    <2>2. h \in [Texts -> Nat] /\ \A u \in Texts : h[u] = IF u = t THEN tale.held[u] + x ELSE tale.held[u]
      BY <1>2, <1>5, TaleFacts
    <2> HIDE DEF h
    <2> QED
      BY <1>2, <2>1, <2>2 DEF Tales
  <1>8. /\ call'.at \in {"shadow", "none"}
        /\ call'.at = "shadow" => call' \in [at : {"main", "shadow"}, text : Texts, on : Nat]
                                  /\ call'.text = t
    BY <1>1, <1>2 DEF Hear!NoCall
  <1>9. HearTypes'
    <2>1. \A u \in DOMAIN notes' : notes'[u].by \in {"user", "her"}
      <3>1. notes' = Hear!Fresh(t, "user", call.on)
        BY <1>1
      <3> QED
        BY <3>1, FreshSpeakers DEF HearInv
    <2> QED
      BY <1>1, <1>6, <1>7, <1>8, <2>1 DEF HearInv, HearTypes, Places
  <1>10. ForgetInv'
    <2>1. \A f \in heard'.main \cup heard'.shadow : f.resets < tale.resets => f.by = "her" /\ f \in tale.late
      <3> SUFFICES ASSUME NEW f \in heard'.main \cup heard'.shadow, f.resets < tale.resets
                   PROVE  f.by = "her" /\ f \in tale.late
        OBVIOUS
      <3>1. f = e \/ f \in heard.main \cup heard.shadow
        BY <1>6
      <3>2. f # e
        BY <1>2, <1>3, TaleFacts
      <3> QED
        BY <3>1, <3>2 DEF HearInv, ForgetInv, Hear!ResetForgets
    <2> QED
      BY <1>1, <1>7, <1>8, <2>1 DEF HearInv, ForgetInv, Hear!ResetForgets
  <1>11. AheadInv'
    <2>1. tale.trouble = 0 => heard.shadow \subseteq heard.main
      BY <1>1 DEF HearInv, AheadInv
    <2>3. call'.at = "shadow" => Hear!Entry("user", call.text)' \in heard'.main
      BY <1>6, <1>7, <1>8 DEF Hear!Entry, e
    <2> QED
      BY <1>1, <1>6, <1>7, <2>1, <2>3 DEF AheadInv
  <1>12. EchoInv'
    <2> SUFFICES ASSUME NEW u \in Texts
                 PROVE  tale'.held[u] + Armed(notes', u) <= tale'.echo[u]
      BY DEF EchoInv
    <2>1. Armed(notes', u) <= IF u = t THEN 0 ELSE Armed(notes, u)
      <3>1. notes' = Hear!Fresh(t, "user", call.on)
        BY <1>1
      <3> QED
        BY <3>1, FreshFacts
    <2>2. tale.held[u] + Armed(notes, u) <= tale.echo[u]
      BY DEF HearInv, EchoInv
    <2>3. tale.held[u] \in Nat /\ tale.echo[u] \in Nat /\ Armed(notes, u) \in Nat /\ Armed(notes', u) \in Nat
      BY <1>2, TaleFacts DEF Armed
    <2> QED
      BY <1>5, <1>7, <2>1, <2>2, <2>3
  <1> QED
    BY <1>9, <1>10, <1>11, <1>12 DEF HearInv

LEMMA ShadowAnswersKeeps ==
  ASSUME HearInv, Hear!ShadowAnswers
  PROVE  HearInv'
  <1> DEFINE e == Hear!Entry("user", call.text)
  <1>1. /\ call.at = "shadow"
        /\ heard' = [heard EXCEPT !.shadow = heard.shadow \cup {e}]
        /\ call' = [at |-> "none"]
        /\ UNCHANGED <<notes, feeds, glance, moment, tale>>
    BY DEF Hear!ShadowAnswers, Hear!NoCall
  <1>2. /\ call.text \in Texts /\ tale \in Tales /\ heard \in Heard
    BY <1>1 DEF HearInv, HearTypes
  <1>3. /\ e.by = "user" /\ e.resets = tale.resets /\ e \in Uttered
    BY <1>2, TaleFacts DEF Hear!Entry, Uttered
  <1>4. tale.trouble = 0 => e \in heard.main
    BY <1>1 DEF HearInv, AheadInv
  <1> HIDE DEF e
  <1>5. /\ heard' \in Heard /\ heard'.main = heard.main /\ heard'.shadow = heard.shadow \cup {e}
    BY <1>1, <1>2, <1>3 DEF Heard, Uttered
  <1>6. call'.at = "none"
    BY <1>1
  <1>7. HearTypes'
    BY <1>1, <1>5, <1>6 DEF HearInv, HearTypes, Places
  <1>8. ForgetInv'
    <2>1. \A f \in heard'.main \cup heard'.shadow : f.resets < tale.resets => f.by = "her" /\ f \in tale.late
      <3> SUFFICES ASSUME NEW f \in heard'.main \cup heard'.shadow, f.resets < tale.resets
                   PROVE  f.by = "her" /\ f \in tale.late
        OBVIOUS
      <3>1. f = e \/ f \in heard.main \cup heard.shadow
        BY <1>5
      <3>2. f # e
        BY <1>2, <1>3, TaleFacts
      <3> QED
        BY <3>1, <3>2 DEF HearInv, ForgetInv, Hear!ResetForgets
    <2> QED
      BY <1>1, <1>6, <2>1 DEF HearInv, ForgetInv, Hear!ResetForgets
  <1>9. AheadInv'
    BY <1>1, <1>4, <1>5, <1>6 DEF HearInv, AheadInv
  <1> QED
    BY <1>1, <1>7, <1>8, <1>9 DEF HearInv, EchoInv

(* Words of hers are sent on their way. *)
LEMMA FeedFacts ==
  ASSUME HearInv, NEW t \in Texts, Hear!Feed(t)
  PROVE  \A e \in feeds' : /\ e \in Uttered /\ e.by = "her"
                           /\ e.resets < tale.resets => e \in tale.late
  <1> DEFINE w == Hear!Entry("her", t)
  <1>1. tale \in Tales /\ feeds \subseteq Uttered /\ feeds' = feeds \cup {w}
    BY DEF HearInv, HearTypes, Hear!Feed
  <1>2. w.by = "her" /\ w.resets = tale.resets /\ w \in Uttered
    BY <1>1, TaleFacts DEF Hear!Entry, Uttered
  <1> HIDE DEF w
  <1> SUFFICES ASSUME NEW e \in feeds'
               PROVE  /\ e \in Uttered /\ e.by = "her"
                      /\ e.resets < tale.resets => e \in tale.late
    OBVIOUS
  <1>3. CASE e = w
    BY <1>1, <1>2, <1>3, TaleFacts
  <1>4. CASE e \in feeds
    BY <1>1, <1>4 DEF HearInv, ForgetInv
  <1> QED
    BY <1>1, <1>3, <1>4

LEMMA AgentTurnKeeps ==
  ASSUME HearInv, NEW t \in Texts, Hear!AgentTurn(t)
  PROVE  HearInv'
  <1> DEFINE h == [tale.echo EXCEPT ![t] = tale.echo[t] + 1]
             n == tale.turns + 1
  <1>1. /\ call.at = "none" /\ Hear!Feed(t) /\ notes' = Hear!Fresh(t, "her", moment)
        /\ tale' = [tale EXCEPT !.turns = tale.turns + 1, !.echo[t] = tale.echo[t] + 1]
        /\ UNCHANGED <<glance, heard, call, moment>>
    BY DEF Hear!AgentTurn, Hear!Idle
  <1>2. tale \in Tales
    BY DEF HearInv, HearTypes
  <1>3. /\ h \in [Texts -> Nat] /\ n \in Nat
        /\ \A u \in Texts : h[u] = IF u = t THEN tale.echo[u] + 1 ELSE tale.echo[u]
    BY <1>2, TaleFacts
  <1>4. tale' = [tale EXCEPT !.turns = n, !.echo = h]
    BY <1>1, <1>2 DEF Tales
  <1> HIDE DEF h, n
  <1>5. /\ tale' \in Tales /\ tale'.resets = tale.resets /\ tale'.late = tale.late
        /\ tale'.trouble = tale.trouble /\ tale'.held = tale.held /\ tale'.echo = h
    BY <1>2, <1>3, <1>4 DEF Tales
  <1>6. \A e \in feeds' : /\ e \in Uttered /\ e.by = "her"
                          /\ e.resets < tale.resets => e \in tale.late
    BY <1>1, FeedFacts
  <1>7. HearTypes' /\ ForgetInv' /\ AheadInv'
    <2>1. \A u \in DOMAIN notes' : notes'[u].by \in {"user", "her"}
      <3>1. notes' = Hear!Fresh(t, "her", moment)
        BY <1>1
      <3> QED
        BY <3>1, FreshSpeakers DEF HearInv
    <2> QED
      BY <1>1, <1>5, <1>6, <2>1 DEF HearInv, HearTypes, ForgetInv, AheadInv, Hear!ResetForgets
  <1>8. EchoInv'
    <2> SUFFICES ASSUME NEW u \in Texts
                 PROVE  tale'.held[u] + Armed(notes', u) <= tale'.echo[u]
      BY DEF EchoInv
    <2>1. Armed(notes', u) <= IF u = t THEN 1 ELSE Armed(notes, u)
      <3>1. notes' = Hear!Fresh(t, "her", moment)
        BY <1>1
      <3> QED
        BY <3>1, FreshFacts
    <2>2. tale.held[u] + Armed(notes, u) <= tale.echo[u]
      BY DEF HearInv, EchoInv
    <2>3. tale.held[u] \in Nat /\ tale.echo[u] \in Nat /\ Armed(notes, u) \in Nat /\ Armed(notes', u) \in Nat
      BY <1>2, TaleFacts DEF Armed
    <2>4. tale'.echo[u] = IF u = t THEN tale.echo[u] + 1 ELSE tale.echo[u]
      BY <1>3, <1>5
    <2> QED
      BY <1>5, <2>1, <2>2, <2>3, <2>4
  <1> QED
    BY <1>7, <1>8 DEF HearInv

LEMMA SaidKeeps ==
  ASSUME HearInv, NEW t \in Texts, Hear!Said(t)
  PROVE  HearInv'
  <1>1. /\ Hear!Feed(t) /\ tale' = [tale EXCEPT !.turns = tale.turns + 1]
        /\ UNCHANGED <<notes, glance, heard, call, moment>>
    BY DEF Hear!Said
  <1>2. /\ tale \in Tales /\ tale' \in Tales /\ tale'.resets = tale.resets /\ tale'.late = tale.late
        /\ tale'.trouble = tale.trouble /\ tale'.held = tale.held /\ tale'.echo = tale.echo
    BY <1>1, TurnTaken DEF HearInv, HearTypes
  <1>3. \A e \in feeds' : /\ e \in Uttered /\ e.by = "her"
                          /\ e.resets < tale.resets => e \in tale.late
    BY <1>1, FeedFacts
  <1> QED
    BY <1>1, <1>2, <1>3 DEF HearInv, HearTypes, ForgetInv, AheadInv, EchoInv, Hear!ResetForgets, Hear!Entry

LEMMA FeedArrivesKeeps ==
  ASSUME HearInv, NEW f \in feeds, Hear!FeedArrives(f)
  PROVE  HearInv'
  <1>1. /\ feeds' = feeds \ {f} /\ heard' = [heard EXCEPT !.main = heard.main \cup {f}]
        /\ UNCHANGED <<notes, glance, call, moment, tale>>
    BY DEF Hear!FeedArrives
  <1>2. heard \in Heard /\ f \in Uttered
    BY DEF HearInv, HearTypes
  <1>3. /\ heard' \in Heard /\ heard'.main = heard.main \cup {f} /\ heard'.shadow = heard.shadow
    BY <1>1, <1>2 DEF Heard, Uttered
  <1>4. HearTypes'
    BY <1>1, <1>3 DEF HearInv, HearTypes
  <1>5. f.by = "her" /\ (f.resets < tale.resets => f \in tale.late)
    BY DEF HearInv, ForgetInv
  <1>6. ForgetInv'
    BY <1>1, <1>3, <1>5 DEF HearInv, ForgetInv, Hear!ResetForgets
  <1>7. AheadInv'
    BY <1>1, <1>3 DEF HearInv, AheadInv, Hear!Entry
  <1> QED
    BY <1>1, <1>4, <1>6, <1>7 DEF HearInv, EchoInv

LEMMA FeedRaisesKeeps ==
  ASSUME HearInv, NEW f \in feeds, Hear!FeedRaises(f)
  PROVE  HearInv'
  BY DEF Hear!FeedRaises, HearInv, HearTypes, ForgetInv, AheadInv, EchoInv, Hear!ResetForgets, Hear!Entry

LEMMA TickKeeps ==
  ASSUME HearInv, Hear!Tick
  PROVE  HearInv'
  BY DEF Hear!Tick, Hear!Idle, HearInv, HearTypes, ForgetInv, AheadInv, EchoInv, Hear!ResetForgets, Hear!Entry

LEMMA ResetKeeps ==
  ASSUME HearInv, Hear!Reset
  PROVE  HearInv'
  <1>1. /\ call.at = "none" /\ call' = [at |-> "reset main"]
        /\ UNCHANGED <<notes, feeds, glance, heard, moment, tale>>
    BY DEF Hear!Reset, Hear!Idle
  <1>2. call'.at = "reset main"
    BY <1>1
  <1> QED
    BY <1>1, <1>2 DEF HearInv, HearTypes, ForgetInv, AheadInv, EchoInv, Hear!ResetForgets, Places

LEMMA MainEmptiedKeeps ==
  ASSUME HearInv, Hear!MainEmptied
  PROVE  HearInv'
  <1>1. /\ heard' = [heard EXCEPT !.main = {}] /\ call' = [at |-> "reset shadow"]
        /\ UNCHANGED <<notes, feeds, glance, moment, tale>>
    BY DEF Hear!MainEmptied
  <1>2. heard' \in Heard /\ heard'.main = {} /\ heard'.shadow = heard.shadow
    BY <1>1 DEF HearInv, HearTypes, Heard
  <1>3. call'.at = "reset shadow"
    BY <1>1
  <1> QED
    BY <1>1, <1>2, <1>3 DEF HearInv, HearTypes, ForgetInv, AheadInv, EchoInv, Hear!ResetForgets, Places

(* All a reset leaves behind are her words: what she said to the emptied     *)
(* main session, and what is still on its way, are late from now on.         *)
LEMMA ShadowEmptiedKeeps ==
  ASSUME HearInv, Hear!ShadowEmptied
  PROVE  HearInv'
  <1> DEFINE n == tale.resets + 1
             l == tale.late \cup feeds \cup heard.main
  <1>1. /\ call.at = "reset shadow" /\ heard' = [heard EXCEPT !.shadow = {}]
        /\ glance' = {} /\ notes' = [t \in {} |-> 0] /\ call' = [at |-> "none"]
        /\ tale' = [tale EXCEPT !.resets = n, !.late = l]
        /\ UNCHANGED <<feeds, moment>>
    BY DEF Hear!ShadowEmptied, Hear!Evicted, Hear!NoCall
  <1>2. tale \in Tales /\ heard \in Heard /\ heard.main \subseteq Uttered
    BY DEF HearInv, HearTypes, Heard, Uttered
  <1>3. n \in Nat /\ l \subseteq Uttered /\ feeds \subseteq l /\ heard.main \subseteq l
    BY <1>2, TaleFacts DEF HearInv, HearTypes
  <1> HIDE DEF n, l
  <1>4. /\ tale' \in Tales /\ tale'.resets = n /\ tale'.late = l
        /\ tale'.trouble = tale.trouble /\ tale'.held = tale.held /\ tale'.echo = tale.echo
    BY <1>1, <1>2, <1>3 DEF Tales
  <1>5. heard' \in Heard /\ heard'.main = heard.main /\ heard'.shadow = {}
    BY <1>1, <1>2 DEF Heard
  <1>6. call'.at = "none" /\ DOMAIN notes' = {}
    BY <1>1
  <1>7. HearTypes'
    BY <1>1, <1>4, <1>5, <1>6 DEF HearInv, HearTypes, Places
  <1>8. ForgetInv'
    BY <1>1, <1>3, <1>4, <1>5, <1>6 DEF HearInv, ForgetInv, Hear!ResetForgets
  <1>9. AheadInv'
    BY <1>1, <1>5, <1>6 DEF AheadInv
  <1>10. EchoInv'
    <2> SUFFICES ASSUME NEW u \in Texts
                 PROVE  tale'.held[u] + Armed(notes', u) <= tale'.echo[u]
      BY DEF EchoInv
    <2>1. tale.held[u] + Armed(notes, u) <= tale.echo[u]
      BY DEF HearInv, EchoInv
    <2>2. Armed(notes, u) \in Nat /\ Armed(notes', u) = 0
      BY <1>6 DEF Armed
    <2>3. tale.held[u] \in Nat /\ tale.echo[u] \in Nat
      BY <1>2, TaleFacts
    <2> QED
      BY <1>4, <2>1, <2>2, <2>3
  <1> QED
    BY <1>7, <1>8, <1>9, <1>10 DEF HearInv

(* The caches are evicted, or they are not; a trouble is counted, or not. *)
LEMMA Failing ==
  ASSUME HearTypes, tale' = [tale EXCEPT !.trouble = tale.trouble + 1]
  PROVE  /\ tale' \in Tales /\ tale'.resets = tale.resets /\ tale'.late = tale.late
         /\ tale'.trouble # 0 /\ tale'.held = tale.held /\ tale'.echo = tale.echo
  <1> DEFINE n == tale.trouble + 1
  <1>1. n \in Nat /\ n # 0 /\ tale \in Tales
    BY TaleFacts DEF HearTypes
  <1>2. tale' = [tale EXCEPT !.trouble = n]
    OBVIOUS
  <1> HIDE DEF n
  <1> QED
    BY <1>1, <1>2 DEF Tales

LEMMA EvictedKeeps ==
  ASSUME HearInv, notes' = notes \/ DOMAIN notes' = {}, tale' \in Tales,
         tale'.held = tale.held, tale'.echo = tale.echo
  PROVE  EchoInv' /\ \A u \in DOMAIN notes' : notes'[u].by \in {"user", "her"}
  <1>1. ASSUME NEW u \in Texts
        PROVE  tale'.held[u] + Armed(notes', u) <= tale'.echo[u]
    <2>1. tale.held[u] + Armed(notes, u) <= tale.echo[u]
      BY DEF HearInv, EchoInv
    <2>2. Armed(notes, u) \in Nat /\ Armed(notes', u) \in Nat /\ Armed(notes', u) <= Armed(notes, u)
      BY DEF Armed
    <2>3. tale.held[u] \in Nat /\ tale.echo[u] \in Nat
      BY TaleFacts DEF HearInv, HearTypes
    <2> QED
      BY <2>1, <2>2, <2>3
  <1> QED
    BY <1>1 DEF EchoInv, HearInv, HearTypes

LEMMA SealKeeps ==
  ASSUME HearInv, Hear!Seal
  PROVE  HearInv'
  <1>1. call.at = "none" /\ UNCHANGED <<feeds, heard, call, moment>>
    BY DEF Hear!Seal, Hear!Idle
  <1>2. \/ glance' = {} /\ DOMAIN notes' = {} /\ tale' = tale
        \/ tale' = [tale EXCEPT !.trouble = tale.trouble + 1] /\ UNCHANGED <<notes, glance>>
    BY DEF Hear!Seal, Hear!Evicted
  <1>3. /\ tale' \in Tales /\ tale'.resets = tale.resets /\ tale'.late = tale.late
        /\ tale'.held = tale.held /\ tale'.echo = tale.echo
        /\ \/ glance' = {} /\ tale' = tale
           \/ glance' = glance /\ tale'.trouble # 0
    BY <1>2, Failing DEF HearInv, HearTypes
  <1>4. EchoInv' /\ \A u \in DOMAIN notes' : notes'[u].by \in {"user", "her"}
    BY <1>2, <1>3, EvictedKeeps
  <1> QED
    BY <1>1, <1>3, <1>4 DEF HearInv, HearTypes, ForgetInv, AheadInv, Hear!ResetForgets

LEMMA RaisesKeeps ==
  ASSUME HearInv, Hear!Raises
  PROVE  HearInv'
  <1>1. /\ call'.at = "none" /\ tale' = [tale EXCEPT !.trouble = tale.trouble + 1]
        /\ UNCHANGED <<notes, feeds, glance, heard, moment>>
    BY DEF Hear!Raises, Hear!NoCall
  <1>2. /\ tale' \in Tales /\ tale'.resets = tale.resets /\ tale'.late = tale.late
        /\ tale'.trouble # 0 /\ tale'.held = tale.held /\ tale'.echo = tale.echo
    BY <1>1, Failing DEF HearInv
  <1>3. EchoInv' /\ \A u \in DOMAIN notes' : notes'[u].by \in {"user", "her"}
    BY <1>1, <1>2, EvictedKeeps
  <1> QED
    BY <1>1, <1>2, <1>3 DEF HearInv, HearTypes, ForgetInv, AheadInv, Hear!ResetForgets, Places

LEMMA RestartKeeps ==
  ASSUME HearInv, Hear!Restart
  PROVE  HearInv'
  <1>1. /\ feeds' = {} /\ glance' = {} /\ DOMAIN notes' = {} /\ call'.at = "none"
        /\ UNCHANGED <<heard, moment>>
        /\ \/ call.at = "none" /\ tale' = tale
           \/ tale' = [tale EXCEPT !.trouble = tale.trouble + 1]
    BY DEF Hear!Restart, Hear!Evicted, Hear!NoCall, Hear!Idle
  <1>2. /\ tale' \in Tales /\ tale'.resets = tale.resets /\ tale'.late = tale.late
        /\ tale'.held = tale.held /\ tale'.echo = tale.echo
        /\ \/ call.at = "none" /\ tale' = tale
           \/ tale'.trouble # 0
    BY <1>1, Failing DEF HearInv, HearTypes
  <1>3. EchoInv' /\ \A u \in DOMAIN notes' : notes'[u].by \in {"user", "her"}
    BY <1>1, <1>2, EvictedKeeps
  <1> QED
    BY <1>1, <1>2, <1>3 DEF HearInv, HearTypes, ForgetInv, AheadInv, Hear!ResetForgets, Places

LEMMA HearInit == Hear!Init => HearInv
  <1> SUFFICES ASSUME Hear!Init PROVE HearInv
    OBVIOUS
  <1> DEFINE z == [t \in Texts |-> 0]
  <1>1. /\ feeds = {} /\ glance = {} /\ call.at = "none" /\ moment = 0 /\ DOMAIN notes = {}
        /\ heard = [main |-> {}, shadow |-> {}]
        /\ tale = [turns |-> 0, resets |-> 0, trouble |-> 0, late |-> {}, held |-> z, echo |-> z]
    BY DEF Hear!Init, Hear!NoCall
  <1>2. z \in [Texts -> Nat] /\ \A t \in Texts : z[t] = 0
    OBVIOUS
  <1> HIDE DEF z
  <1>3. tale \in Tales /\ tale.held = z /\ tale.echo = z
    BY <1>1, <1>2 DEF Tales
  <1>4. heard \in Heard /\ heard.main = {} /\ heard.shadow = {}
    BY <1>1 DEF Heard
  <1>5. HearTypes /\ ForgetInv /\ AheadInv
    BY <1>1, <1>3, <1>4 DEF HearTypes, ForgetInv, AheadInv, Hear!ResetForgets, Places
  <1>6. EchoInv
    BY <1>1, <1>2, <1>3 DEF EchoInv, Armed
  <1> QED
    BY <1>5, <1>6 DEF HearInv

LEMMA HearStep == HearInv /\ [Hear!Next]_HearVars => HearInv'
  <1> SUFFICES ASSUME HearInv, [Hear!Next]_HearVars PROVE HearInv'
    OBVIOUS
  <1> USE DEF HearInv
  <1>1. ASSUME NEW t \in Texts, Hear!UserTurn(t) PROVE HearInv'
    BY <1>1, UserTurnKeeps
  <1>2. ASSUME NEW t \in Texts, Hear!AgentTurn(t) PROVE HearInv'
    BY <1>2, AgentTurnKeeps
  <1>3. ASSUME NEW t \in Texts, Hear!Said(t) PROVE HearInv'
    BY <1>3, SaidKeeps
  <1>4. ASSUME NEW f \in feeds, Hear!FeedArrives(f) \/ Hear!FeedRaises(f) PROVE HearInv'
    BY <1>4, FeedArrivesKeeps, FeedRaisesKeeps
  <1>5. ASSUME NEW m, Hear!Bind(m) PROVE HearInv'
    BY <1>5, SoulMoves DEF Hear!Bind, HearTypes
  <1>6. CASE Hear!Pause
    BY <1>6, SoulMoves DEF Hear!Pause, HearTypes
  <1>7. CASE Hear!Pass
    <2>1. moment' \in Nat
      BY <1>7 DEF Hear!Pass, HearTypes
    <2> QED
      BY <1>7, <2>1, SoulMoves DEF Hear!Pass
  <1>8. CASE UNCHANGED HearVars
    BY <1>8, SoulMoves DEF HearVars, HearTypes
  <1>9. CASE Hear!MainAnswers \/ Hear!ShadowAnswers
    BY <1>9, MainAnswersKeeps, ShadowAnswersKeeps
  <1>10. CASE Hear!Reset \/ Hear!MainEmptied \/ Hear!ShadowEmptied
    BY <1>10, ResetKeeps, MainEmptiedKeeps, ShadowEmptiedKeeps
  <1>11. CASE Hear!Tick \/ Hear!Seal \/ Hear!Raises \/ Hear!Restart
    BY <1>11, TickKeeps, SealKeeps, RaisesKeeps, RestartKeeps
  <1> QED
    BY <1>1, <1>2, <1>3, <1>4, <1>5, <1>6, <1>7, <1>8, <1>9, <1>10, <1>11 DEF Hear!Next

LEMMA HearingInvariant == Spec => []HearInv
  <1>1. Init => HearInv
    BY HearInit DEF Init
  <1>2. HearInv /\ [Next]_vars => HearInv'
    <2>1. [Next]_vars => [Hear!Next]_HearVars
      BY PartSteps DEF Hear!hvars, HearVars
    <2> QED
      BY <2>1, HearStep
  <1> QED
    BY <1>1, <1>2, PTL DEF Spec

(* Every swallow is on record with its verdict, a recovery is spoken once a  *)
(* day and a verdict settled once; and nothing the user said before a reset  *)
(* is in the engine after it, nor in what she decides from.                  *)
THEOREM SessionRemembers == Spec => []Remembered
  <1>1. Arb!ArbitrationAssumption
    BY Constants
  <1>2. Arb!Spec => []Arb!SwallowsRemembered /\ []Arb!SettledOnce /\ []Arb!RecoverOnce
    BY <1>1, EverySwallowIsRemembered, InterventionsSettleOnce, OneRecoverWordADay
  <1>3. HearInv => Hear!ResetForgets /\ Hear!GlanceOfNow
    BY DEF HearInv, ForgetInv, AheadInv, Hear!GlanceOfNow, Hear!Idle
  <1>4. HearInv /\ Arb!SwallowsRemembered /\ Arb!SettledOnce /\ Arb!RecoverOnce => Remembered
    BY <1>3 DEF Remembered
  <1> QED
    BY <1>2, <1>4, ArbiterSpec, HearingInvariant, PTL

(* The shadow never knows of a turn the engine has not heard, unless a call  *)
(* failed; and what is kept from it is an echo of the agent, once for each.  *)
HearingKept == Hear!ShadowKnowsNoMore /\ Hear!HeldForEcho

LEMMA HearingIsKept ==
  ASSUME HearInv
  PROVE  HearingKept
  <1>1. Hear!ShadowKnowsNoMore
    BY DEF HearInv, AheadInv, Hear!ShadowKnowsNoMore, Hear!Idle
  <1>2. ASSUME NEW t \in Texts
        PROVE  tale.held[t] <= tale.echo[t]
    <2>1. tale.held[t] + Armed(notes, t) <= tale.echo[t]
      BY DEF HearInv, EchoInv
    <2>2. tale.held[t] \in Nat /\ tale.echo[t] \in Nat /\ Armed(notes, t) \in {0, 1}
      BY TaleFacts DEF HearInv, HearTypes, Armed
    <2> QED
      BY <2>1, <2>2
  <1> QED
    BY <1>1, <1>2 DEF HearingKept, Hear!HeldForEcho

------------------------------------------------------------------------------
(* The concern of the first shadow. *)

Warmths == (0..100) \cup {Con!None}

Concerns == [armed : SUBSET Con!Types, injected : Nat, types : SUBSET Con!Types, day : Nat, high : Nat,
             baseline : [day : Nat, warmth : Warmths]]

Beats == [on : {TRUE}, todo : Seq(Con!Types), triggers : SUBSET Con!Types, injected : Nat,
          types : SUBSET Con!Types, first : BOOLEAN, did : BOOLEAN, signal : BOOLEAN, at : Nat]

InStep == step \in Beats

(* A record that is not of the future. *)
Dated(c) == c \in Concerns /\ c.injected <= c.day /\ c.day <= today

ConTypes ==
  /\ Dated(concern) /\ Dated(concernDisk)
  /\ InStep \/ step = Con!NoStep
  /\ InStep => Con!ToSet(step.todo) \subseteq step.triggers
  /\ today \in 1..MaxDay /\ faults \in 0..MaxFaults
  /\ injections \in [Con!Types -> Nat]

OnRecord(c) == c.injected = c.day /\ c.types # {}

Agrees(c) == c.high = IF OnRecord(c) THEN 1 ELSE 0

(* The locals of a beat are the record it read and what it has done since.  *)
BeatInv ==
  InStep =>
    /\ step.at = today /\ concern.day = today
    /\ step.first = ~OnRecord(concern)
    /\ ~step.signal => step.todo = <<>> /\ ~step.did
    /\ ~step.did => step.injected = concern.injected /\ step.types = concern.types
    /\ step.did => step.injected = today /\ step.types # {}

(* The types that memory knows to have been injected today. *)
Known(t) == IF InStep THEN step.injected = step.at /\ t \in step.types
                      ELSE concern.injected = today /\ t \in concern.types

Spent == \A t \in Con!Types : injections[t] <= faults + IF Known(t) THEN 1 ELSE 0

ConInv == ConTypes /\ Agrees(concern) /\ Agrees(concernDisk) /\ BeatInv /\ Spent

LEMMA InBeat ==
  ASSUME ConTypes
  PROVE  (step.on <=> InStep) /\ (~step.on => step = Con!NoStep /\ ~InStep)
  <1>1. InStep => step.on = TRUE
    BY DEF InStep, Beats
  <1>2. step = Con!NoStep => step.on = FALSE
    BY DEF Con!NoStep
  <1> QED
    BY <1>1, <1>2 DEF ConTypes

LEMMA OutOfBeat == ASSUME step' = Con!NoStep PROVE ~InStep'
  <1>1. step'.on = FALSE
    BY DEF Con!NoStep
  <1> QED
    BY <1>1 DEF InStep, Beats

(* What the triggers are made of. *)
LEMMA TriggersAreTypes ==
  ASSUME NEW r, NEW start
  PROVE  Con!Triggers(r, start) \in Seq(Con!Types)
  <1>1. \A t \in Con!Types : (IF Con!Hits(t, r, start) THEN <<t>> ELSE <<>>) \in Seq(Con!Types)
    OBVIOUS
  <1>2. "pressure" \in Con!Types /\ "warmth_drop" \in Con!Types /\ "damage" \in Con!Types
    BY DEF Con!Types
  <1> QED
    BY <1>1, <1>2 DEF Con!Triggers

LEMMA SetOfSeq ==
  ASSUME NEW S, NEW s \in Seq(S)
  PROVE  /\ Con!ToSet(s) \subseteq S
         /\ s # <<>> => /\ Head(s) \in S /\ Tail(s) \in Seq(S) /\ Head(s) \in Con!ToSet(s)
                        /\ Con!ToSet(Tail(s)) \subseteq Con!ToSet(s)
  <1>1. Con!ToSet(s) = {s[i] : i \in 1..Len(s)}
    BY DEF Con!ToSet
  <1>2. ASSUME s # <<>>
        PROVE  /\ Head(s) \in S /\ Tail(s) \in Seq(S) /\ Head(s) \in Con!ToSet(s)
               /\ Con!ToSet(Tail(s)) \subseteq Con!ToSet(s)
    <2>1. Len(s) \in Nat /\ Len(s) >= 1 /\ Head(s) = s[1] /\ Tail(s) \in Seq(S)
      BY <1>2
    <2>2. Len(Tail(s)) = Len(s) - 1 /\ \A i \in 1..(Len(s) - 1) : Tail(s)[i] = s[i + 1]
      BY <1>2
    <2>3. DOMAIN Tail(s) = 1..(Len(s) - 1)
      BY <2>1, <2>2
    <2>4. Con!ToSet(Tail(s)) = {Tail(s)[i] : i \in 1..(Len(s) - 1)}
      BY <2>3 DEF Con!ToSet
    <2> QED
      BY <1>1, <2>1, <2>2, <2>4
  <1> QED
    BY <1>1, <1>2

(* A beat reads a record of today: the day's count begins with the day.      *)
LEMMA OfTodayFacts ==
  ASSUME ConTypes, Agrees(concern), NEW r \in Surfaces
  PROVE  /\ Dated(Con!Based(Con!OfToday(concern), r)) /\ Agrees(Con!Based(Con!OfToday(concern), r))
         /\ Con!Based(Con!OfToday(concern), r).day = today
         /\ Con!Based(Con!OfToday(concern), r).injected = concern.injected
         /\ Con!Based(Con!OfToday(concern), r).types = concern.types
  <1> DEFINE c == Con!OfToday(concern)
             b == Con!Based(c, r)
  <1>1. concern \in Concerns /\ concern.injected <= concern.day /\ concern.day <= today /\ today \in Nat
        /\ concern.injected \in Nat /\ concern.day \in Nat
    BY DEF ConTypes, Dated, Concerns
  <1>2. /\ c \in Concerns /\ c.day = today /\ c.injected = concern.injected /\ c.types = concern.types
        /\ c.high = IF concern.day = today THEN concern.high ELSE 0
    BY <1>1 DEF Con!OfToday, Concerns
  <1>3. Agrees(c)
    BY <1>1, <1>2 DEF Agrees, OnRecord
  <1> HIDE DEF c
  <1>4. r.warmth \in Warmths
    BY Constants DEF Con!ConcernAssumption, Warmths
  <1>5. /\ b \in Concerns /\ b.day = c.day /\ b.injected = c.injected /\ b.types = c.types /\ b.high = c.high
    <2>1. CASE c.baseline.day = today
      BY <1>2, <2>1 DEF Con!Based
    <2>2. CASE c.baseline.day # today
      <3>1. b = [c EXCEPT !.baseline = [day |-> today, warmth |-> r.warmth]]
        BY <2>2 DEF Con!Based
      <3> QED
        BY <1>1, <1>2, <1>4, <3>1 DEF Concerns
    <2> QED
      BY <2>1, <2>2
  <1> HIDE DEF b
  <1>6. Dated(b) /\ Agrees(b) /\ b.day = today /\ b.injected = concern.injected /\ b.types = concern.types
    BY <1>1, <1>2, <1>3, <1>5 DEF Dated, Agrees, OnRecord
  <1> QED
    BY <1>6 DEF b, c

LEMMA ReadKeeps ==
  ASSUME ConInv, NEW r \in Surfaces, Con!Read(r)
  PROVE  ConInv'
  <1> DEFINE c == Con!Based(Con!OfToday(concern), r)
             ts == Con!Triggers(r, c.baseline.warmth)
             p == ~(c.injected = today /\ c.types # {})
             q == ts # <<>>
             tr == Con!ToSet(ts)
  <1>1. /\ ~step.on /\ concern' = c
        /\ step' = [on |-> TRUE, todo |-> ts, triggers |-> tr, injected |-> c.injected, types |-> c.types,
                    first |-> p, did |-> FALSE, signal |-> q, at |-> today]
        /\ UNCHANGED <<concernDisk, today, injections, faults>>
    BY DEF Con!Read
  <1>2. ConTypes /\ Agrees(concern) /\ ~InStep
    BY <1>1, InBeat DEF ConInv
  <1>3. Dated(c) /\ Agrees(c) /\ c.day = today /\ c.injected = concern.injected /\ c.types = concern.types
    BY <1>2, OfTodayFacts
  <1>4. ts \in Seq(Con!Types) /\ tr \subseteq Con!Types
    BY TriggersAreTypes, SetOfSeq
  <1>5. p \in BOOLEAN /\ q \in BOOLEAN /\ (q <=> ts # <<>>) /\ (p <=> ~OnRecord(c))
    BY <1>3 DEF OnRecord
  <1> HIDE DEF c, ts, p, q, tr
  <1>6. c.injected \in Nat /\ c.types \in SUBSET Con!Types /\ today \in Nat
    BY <1>2, <1>3 DEF Dated, Concerns, ConTypes
  <1>7. step' \in Beats
    BY <1>1, <1>4, <1>5, <1>6 DEF Beats
  <1>8. /\ step'.todo = ts /\ step'.triggers = tr /\ step'.injected = c.injected /\ step'.types = c.types
        /\ step'.at = today
    BY <1>1
  <1>9. step'.first = p /\ step'.did = FALSE /\ step'.signal = q
    BY <1>1, Zenon
  <1>10. ConTypes'
    <2>1. Con!ToSet(step'.todo) \subseteq step'.triggers
      BY <1>8 DEF tr
    <2> QED
      BY <1>1, <1>2, <1>3, <1>7, <2>1 DEF ConTypes, InStep, Dated
  <1>11. BeatInv'
    BY <1>1, <1>3, <1>5, <1>8, <1>9 DEF BeatInv, OnRecord
  <1>12. Spent'
    BY <1>1, <1>2, <1>3, <1>7, <1>8 DEF Spent, Known, InStep, ConInv
  <1> QED
    BY <1>1, <1>3, <1>10, <1>11, <1>12 DEF ConInv, Agrees, OnRecord

LEMMA BeatFacts ==
  ASSUME ConInv, step.on
  PROVE  /\ step \in Beats /\ concern \in Concerns /\ today \in Nat /\ faults \in Nat
         /\ Con!ToSet(step.todo) \subseteq step.triggers /\ step.todo \in Seq(Con!Types)
         /\ step.triggers \in SUBSET Con!Types /\ step.types \in SUBSET Con!Types /\ step.injected \in Nat
         /\ step.at = today /\ concern.day = today /\ concern.injected <= today
         /\ InStep /\ Con!ConcernAssumption
  <1>1. InStep /\ ConTypes
    BY InBeat DEF ConInv
  <1>2. step.at = today /\ concern.day = today
    BY <1>1 DEF ConInv, BeatInv
  <1>3. /\ concern \in Concerns /\ concern.injected <= concern.day
        /\ Con!ToSet(step.todo) \subseteq step.triggers
        /\ today \in 1..MaxDay /\ faults \in 0..MaxFaults
    BY <1>1 DEF ConTypes, Dated
  <1>4. MaxDay \in Nat /\ MaxFaults \in Nat /\ Con!ConcernAssumption
    BY Constants DEF Con!ConcernAssumption
  <1>5. today \in Nat /\ faults \in Nat
    BY <1>3, <1>4
  <1>6. /\ step \in Beats /\ step.todo \in Seq(Con!Types) /\ step.triggers \in SUBSET Con!Types
        /\ step.types \in SUBSET Con!Types /\ step.injected \in Nat
    BY <1>1 DEF InStep, Beats
  <1> QED
    BY <1>1, <1>2, <1>3, <1>4, <1>5, <1>6

LEMMA SkipKeeps ==
  ASSUME ConInv, Con!Skip
  PROVE  ConInv'
  <1> DEFINE td == Tail(step.todo)
  <1>1. /\ step.on /\ step.todo # <<>> /\ step' = [step EXCEPT !.todo = td]
        /\ UNCHANGED <<concern, concernDisk, today, injections, faults>>
    BY DEF Con!Skip
  <1>2. step \in Beats /\ Con!ToSet(step.todo) \subseteq step.triggers /\ step.todo \in Seq(Con!Types) /\ InStep
    BY <1>1, BeatFacts
  <1>3. td \in Seq(Con!Types) /\ Con!ToSet(td) \subseteq step.triggers
    BY <1>1, <1>2, SetOfSeq
  <1> HIDE DEF td
  <1>4. step' \in Beats /\ step'.todo = td /\ step'.triggers = step.triggers
    BY <1>1, <1>2, <1>3 DEF Beats
  <1>5. /\ step'.injected = step.injected /\ step'.types = step.types /\ step'.first = step.first
        /\ step'.did = step.did /\ step'.signal = step.signal /\ step'.at = step.at
    BY <1>1, <1>2 DEF Beats
  <1>6. ConTypes'
    BY <1>1, <1>3, <1>4 DEF ConInv, ConTypes, InStep, Dated
  <1>7. BeatInv'
    BY <1>1, <1>2, <1>5 DEF ConInv, BeatInv, OnRecord
  <1>8. Spent'
    BY <1>1, <1>2, <1>4, <1>5 DEF ConInv, Spent, Known, InStep
  <1> QED
    BY <1>1, <1>6, <1>7, <1>8 DEF ConInv, Agrees, OnRecord

(* An injection goes to a type that nobody knows of today. *)
LEMMA InjectKeeps ==
  ASSUME ConInv, Con!Inject
  PROVE  ConInv'
  <1> DEFINE t == Head(step.todo)
             td == Tail(step.todo)
             ty == (IF step.injected = step.at THEN step.types ELSE {}) \cup {t}
             ar == concern.armed \ {t}
             n == injections[t] + 1
  <1>1. /\ step.on /\ step.todo # <<>> /\ Con!Wants(t)
        /\ step' = [step EXCEPT !.todo = td, !.did = TRUE, !.injected = step.at, !.types = ty]
        /\ concern' = [concern EXCEPT !.armed = ar]
        /\ injections' = [injections EXCEPT ![t] = n]
        /\ UNCHANGED <<concernDisk, today, faults>>
    BY DEF Con!Inject, Con!Remember
  <1>2. /\ step \in Beats /\ concern \in Concerns /\ today \in Nat /\ faults \in Nat
        /\ Con!ToSet(step.todo) \subseteq step.triggers /\ step.todo \in Seq(Con!Types)
        /\ step.types \in SUBSET Con!Types
        /\ step.at = today /\ InStep
    BY <1>1, BeatFacts
  <1>3. t \in Con!Types /\ td \in Seq(Con!Types) /\ Con!ToSet(td) \subseteq step.triggers
    BY <1>1, <1>2, SetOfSeq
  <1>4. injections \in [Con!Types -> Nat]
    BY DEF ConInv, ConTypes
  <1>5. ~(step.injected = today /\ t \in step.types) /\ ~Known(t)
    BY <1>1, <1>2 DEF Con!Wants, Known
  <1>6. n \in Nat /\ n <= faults + 1
    BY <1>2, <1>3, <1>4, <1>5 DEF ConInv, Spent
  <1>7. /\ ty \in SUBSET Con!Types /\ ty # {} /\ t \in ty /\ ar \in SUBSET Con!Types
        /\ step.injected = step.at => step.types \subseteq ty
    BY <1>2, <1>3 DEF Concerns
  <1> HIDE DEF t, td, ty, ar, n
  <1>8. /\ step' \in Beats /\ step'.todo = td /\ step'.triggers = step.triggers /\ step'.injected = today
        /\ step'.types = ty /\ step'.at = today
    BY <1>1, <1>2, <1>3, <1>7 DEF Beats
  <1>9. step'.first = step.first /\ step'.signal = step.signal /\ step'.did = TRUE
    BY <1>1, <1>2 DEF Beats
  <1>10. /\ concern' \in Concerns /\ concern'.injected = concern.injected /\ concern'.types = concern.types
         /\ concern'.day = concern.day /\ concern'.high = concern.high
    BY <1>1, <1>2, <1>7 DEF Concerns
  <1>11. /\ injections' \in [Con!Types -> Nat] /\ injections'[t] = n
         /\ \A u \in Con!Types : u # t => injections'[u] = injections[u]
    BY <1>1, <1>3, <1>4, <1>6
  <1>12. ConTypes'
    BY <1>1, <1>3, <1>8, <1>10, <1>11 DEF ConInv, ConTypes, InStep, Dated
  <1>13. step.signal
    BY <1>1, <1>2 DEF ConInv, BeatInv
  <1>14. BeatInv'
    <2>1. OnRecord(concern)' = OnRecord(concern)
      BY <1>10 DEF OnRecord
    <2> QED
      BY <1>1, <1>2, <1>7, <1>8, <1>9, <1>10, <1>13, <2>1 DEF ConInv, BeatInv
  <1>15. Spent'
    <2> SUFFICES ASSUME NEW u \in Con!Types
                 PROVE  injections'[u] <= faults + IF Known(u)' THEN 1 ELSE 0
      BY <1>1 DEF Spent
    <2>1. Known(u)' <=> u \in ty
      BY <1>8 DEF Known, InStep
    <2>2. CASE u = t
      BY <1>6, <1>7, <1>11, <2>1, <2>2
    <2>3. CASE u # t
      <3>1. injections[u] <= faults + IF Known(u) THEN 1 ELSE 0
        BY DEF ConInv, Spent
      <3>2. Known(u) => u \in ty
        BY <1>2, <1>7 DEF Known
      <3> QED
        BY <1>2, <1>4, <1>11, <2>1, <2>3, <3>1, <3>2
    <2> QED
      BY <2>2, <2>3
  <1> QED
    BY <1>1, <1>10, <1>12, <1>14, <1>15 DEF ConInv, Agrees, OnRecord

(* A raise or a crash forgets at most what one more fault allows. *)
LEMMA ForgettingIsPaid ==
  ASSUME ConInv, faults' = faults + 1, UNCHANGED injections
  PROVE  Spent'
  <1> SUFFICES ASSUME NEW u \in Con!Types
               PROVE  injections[u] <= faults + 1 + IF Known(u)' THEN 1 ELSE 0
    BY DEF Spent
  <1>1. injections[u] <= faults + IF Known(u) THEN 1 ELSE 0
    BY DEF ConInv, Spent
  <1>2. faults \in Nat /\ injections[u] \in Nat
    BY Constants DEF ConInv, ConTypes, Con!ConcernAssumption
  <1> QED
    BY <1>1, <1>2

LEMMA InjectRaisesKeeps ==
  ASSUME ConInv, Con!InjectRaises
  PROVE  ConInv'
  <1>1. /\ faults < MaxFaults /\ faults' = faults + 1 /\ step' = Con!NoStep
        /\ concernDisk' \in {concern, concernDisk}
        /\ UNCHANGED <<concern, today, injections>>
    BY DEF Con!InjectRaises
  <1>2. ~InStep'
    BY <1>1, OutOfBeat
  <1>3. faults' \in 0..MaxFaults
    BY <1>1, Constants DEF ConInv, ConTypes, Con!ConcernAssumption
  <1>4. Spent'
    BY <1>1, ForgettingIsPaid
  <1>5. Dated(concernDisk)' /\ Agrees(concernDisk)'
    BY <1>1 DEF ConInv, ConTypes, Dated, Agrees, OnRecord
  <1> QED
    BY <1>1, <1>2, <1>3, <1>4, <1>5 DEF ConInv, ConTypes, BeatInv, Dated, Agrees, OnRecord

LEMMA CrashKeeps ==
  ASSUME ConInv, Con!Crash
  PROVE  ConInv'
  <1>1. /\ faults < MaxFaults /\ faults' = faults + 1 /\ step' = Con!NoStep
        /\ concern' = concernDisk /\ UNCHANGED <<concernDisk, today, injections>>
    BY DEF Con!Crash
  <1>2. ~InStep'
    BY <1>1, OutOfBeat
  <1>3. faults' \in 0..MaxFaults
    BY <1>1, Constants DEF ConInv, ConTypes, Con!ConcernAssumption
  <1>4. Spent'
    BY <1>1, ForgettingIsPaid
  <1> QED
    BY <1>1, <1>2, <1>3, <1>4 DEF ConInv, ConTypes, BeatInv, Dated, Agrees, OnRecord

LEMMA MidnightKeeps ==
  ASSUME ConInv, Con!Midnight
  PROVE  ConInv'
  <1>1. /\ today < MaxDay /\ ~step.on /\ today' = today + 1
        /\ injections' = [t \in Con!Types |-> 0] /\ faults' = 0
        /\ UNCHANGED <<concern, concernDisk, step>>
    BY DEF Con!Midnight
  <1>2. ~InStep /\ step = Con!NoStep /\ ~InStep'
    BY <1>1, InBeat, OutOfBeat DEF ConInv
  <1>3. MaxDay \in Nat /\ MaxFaults \in Nat /\ today \in 1..MaxDay
    BY Constants DEF ConInv, ConTypes, Con!ConcernAssumption
  <1>4. injections' \in [Con!Types -> Nat] /\ \A t \in Con!Types : injections'[t] = 0
    BY <1>1
  <1>5. Spent'
    BY <1>1, <1>4 DEF Spent
  <1>6. Dated(concern)' /\ Dated(concernDisk)'
    <2>1. \A c : Dated(c) => c.day \in Nat
      BY DEF Dated, Concerns
    <2> QED
      BY <1>1, <1>3, <2>1 DEF ConInv, ConTypes, Dated
  <1> QED
    BY <1>1, <1>2, <1>3, <1>4, <1>5, <1>6 DEF ConInv, ConTypes, BeatInv, Agrees, OnRecord

LEMMA OtherSaveKeeps ==
  ASSUME ConInv, concernDisk' \in {concern, concernDisk},
         UNCHANGED <<concern, step, today, injections, faults>>
  PROVE  ConInv'
  BY DEF ConInv, ConTypes, BeatInv, Spent, Known, InStep, Dated, Agrees, OnRecord

(* A day whose first concern this was counts it. *)
LEMMA DoneKeeps ==
  ASSUME ConInv, Con!Done
  PROVE  ConInv'
  <1> DEFINE a == Con!Noted(concern)
             b == Con!Counted(a)
             c == Con!Rearmed(b)
  <1>1. /\ step.on /\ concern' = c /\ concernDisk' = c /\ step' = Con!NoStep
        /\ UNCHANGED <<today, injections, faults>>
    BY DEF Con!Done
  <1>2. /\ step \in Beats /\ concern \in Concerns /\ today \in Nat
        /\ step.triggers \in SUBSET Con!Types /\ step.types \in SUBSET Con!Types /\ step.injected \in Nat
        /\ step.at = today /\ concern.day = today /\ concern.injected <= today /\ InStep
    BY <1>1, BeatFacts
  <1>3. /\ step.first <=> ~OnRecord(concern)
        /\ step.did => step.signal
        /\ ~step.did => step.injected = concern.injected /\ step.types = concern.types
        /\ step.did => step.injected = today /\ step.types # {}
    BY <1>2 DEF ConInv, BeatInv
  <1>4. Agrees(concern)
    BY DEF ConInv
  <1>5. /\ a \in Concerns /\ a.injected = step.injected /\ a.types = step.types /\ a.day = today
        /\ a.high = concern.high
    <2>1. CASE step.signal
      <3>1. a = [concern EXCEPT !.injected = step.injected, !.types = step.types]
        BY <2>1 DEF Con!Noted
      <3> QED
        BY <1>2, <3>1 DEF Concerns
    <2>2. CASE ~step.signal
      BY <1>2, <1>3, <2>2 DEF Con!Noted
    <2> QED
      BY <2>1, <2>2
  <1> HIDE DEF a
  <1>6. /\ b \in Concerns /\ b.injected = a.injected /\ b.types = a.types /\ b.day = a.day
        /\ step.did /\ step.first => b.high = a.high + 1
        /\ ~(step.did /\ step.first) => b.high = a.high
    <2>1. CASE step.did /\ step.first
      <3> DEFINE n == a.high + 1
      <3>1. b = [a EXCEPT !.high = n]
        BY <2>1 DEF Con!Counted
      <3>2. n \in Nat
        BY <1>5 DEF Concerns
      <3> HIDE DEF n
      <3>3. b \in Concerns /\ b.injected = a.injected /\ b.types = a.types /\ b.day = a.day /\ b.high = n
        BY <1>5, <3>1, <3>2 DEF Concerns
      <3> QED
        BY <2>1, <3>3 DEF n
    <2>2. CASE ~(step.did /\ step.first)
      BY <1>5, <2>2 DEF Con!Counted
    <2> QED
      BY <2>1, <2>2
  <1> HIDE DEF b
  <1>7. c \in Concerns /\ c.injected = b.injected /\ c.types = b.types /\ c.day = b.day /\ c.high = b.high
    BY <1>2, <1>6 DEF Con!Rearmed, Concerns
  <1> HIDE DEF c
  <1>8. c.injected <= c.day /\ c.day = today
    BY <1>2, <1>3, <1>5, <1>6, <1>7
  <1>9. Agrees(c)
    <2>1. CASE step.did
      <3>1. OnRecord(c)
        BY <1>3, <1>5, <1>6, <1>7, <2>1 DEF OnRecord
      <3>2. c.high = 1
        BY <1>3, <1>4, <1>5, <1>6, <1>7, <2>1 DEF Agrees
      <3> QED
        BY <3>1, <3>2 DEF Agrees
    <2>2. CASE ~step.did
      <3>1. OnRecord(c) <=> OnRecord(concern)
        BY <1>2, <1>3, <1>5, <1>6, <1>7, <2>2 DEF OnRecord
      <3> QED
        BY <1>4, <1>5, <1>6, <1>7, <2>2, <3>1 DEF Agrees
    <2> QED
      BY <2>1, <2>2
  <1>10. ~InStep'
    BY <1>1, OutOfBeat
  <1>11. Dated(concern)' /\ Dated(concernDisk)' /\ Agrees(concern)' /\ Agrees(concernDisk)'
    BY <1>1, <1>2, <1>7, <1>8, <1>9 DEF Dated, Agrees, OnRecord
  <1>12. ConTypes' /\ BeatInv'
    BY <1>1, <1>10, <1>11 DEF ConInv, ConTypes, BeatInv
  <1>13. Spent'
    <2> SUFFICES ASSUME NEW u \in Con!Types
                 PROVE  injections[u] <= faults + IF Known(u)' THEN 1 ELSE 0
      BY <1>1 DEF Spent
    <2>1. Known(u)' <=> Known(u)
      BY <1>1, <1>2, <1>5, <1>6, <1>7, <1>10 DEF Known
    <2> QED
      BY <2>1 DEF ConInv, Spent
  <1> QED
    BY <1>11, <1>12, <1>13 DEF ConInv

LEMMA ConcernBegins == Con!Init => ConInv
  <1> SUFFICES ASSUME Con!Init PROVE ConInv
    OBVIOUS
  <1>1. /\ concern = Con!NewConcern /\ concernDisk = Con!NewConcern /\ step = Con!NoStep
        /\ today = 1 /\ faults = 0 /\ injections = [t \in Con!Types |-> 0]
    BY DEF Con!Init
  <1>2. /\ Con!NewConcern \in Concerns /\ Con!NewConcern.injected = 0 /\ Con!NewConcern.day = 1
        /\ Con!NewConcern.high = 0 /\ Con!NewConcern.types = {}
    BY DEF Con!NewConcern, Concerns, Warmths
  <1>3. ~InStep
    <2>1. step.on = FALSE
      BY <1>1 DEF Con!NoStep
    <2> QED
      BY <2>1 DEF InStep, Beats
  <1>4. MaxDay \in Nat \ {0} /\ MaxFaults \in Nat
    BY Constants DEF Con!ConcernAssumption
  <1>5. ConTypes
    BY <1>1, <1>2, <1>3, <1>4 DEF ConTypes, Dated
  <1>6. Agrees(concern) /\ Agrees(concernDisk)
    BY <1>1, <1>2 DEF Agrees, OnRecord
  <1> QED
    BY <1>1, <1>3, <1>5, <1>6 DEF ConInv, BeatInv, Spent

LEMMA ConcernStep == ConInv /\ [Con!Next]_(Con!cvars) => ConInv'
  <1> SUFFICES ASSUME ConInv, [Con!Next]_(Con!cvars) PROVE ConInv'
    OBVIOUS
  <1>1. ASSUME NEW r \in Surfaces, Con!Read(r) PROVE ConInv'
    BY <1>1, ReadKeeps
  <1>2. CASE Con!Skip \/ Con!Inject \/ Con!InjectRaises
    BY <1>2, SkipKeeps, InjectKeeps, InjectRaisesKeeps
  <1>3. CASE Con!Done \/ Con!Midnight \/ Con!Crash
    BY <1>3, DoneKeeps, MidnightKeeps, CrashKeeps
  <1>4. CASE Con!OtherSave
    BY <1>4, OtherSaveKeeps DEF Con!OtherSave
  <1>5. CASE UNCHANGED Con!cvars
    BY <1>5, OtherSaveKeeps DEF Con!cvars
  <1> QED
    BY <1>1, <1>2, <1>3, <1>4, <1>5 DEF Con!Next

------------------------------------------------------------------------------
(* The deep shadow: the ledger of its predictions, the tier of a detector's   *)
(* gate, and the budget of the beats.                                        *)

LEMMA SameCardinality == \A S : Deep!Cardinality(S) = Cardinality(S) /\ (Deep!IsFiniteSet(S) <=> IsFiniteSet(S))
  <1>1. \A S : Deep!IsFiniteSet(S) <=> IsFiniteSet(S)
    BY DEF Deep!IsFiniteSet, IsFiniteSet
  <1>2. \A S : Deep!Cardinality(S) = Cardinality(S)
    BY DEF Deep!Cardinality, Cardinality
  <1> QED
    BY <1>1, <1>2

(* The rows of a settlement are those of the kinds it settles, one for each. *)
LEMMA ListsOnce ==
  ASSUME NEW S, IsFiniteSet(S)
  PROVE  /\ Cardinality(S) \in Nat
         /\ Deep!SetToSeq(S) \in [1..Cardinality(S) -> S]
         /\ \A i, j \in 1..Cardinality(S) : Deep!SetToSeq(S)[i] = Deep!SetToSeq(S)[j] => i = j
         /\ \A s \in S : \E i \in 1..Cardinality(S) : Deep!SetToSeq(S)[i] = s
  <1> DEFINE n == Cardinality(S)
             f == Deep!SetToSeq(S)
  <1>1. n \in Nat /\ ExistsBijection(1..n, S)
    BY FS_CardinalityType
  <1>2. PICK g \in [1..n -> S] : Deep!IsInjective(g)
    BY <1>1 DEF ExistsBijection, Bijection, Injection, IsInjective, Deep!IsInjective
  <1>3. f = CHOOSE h \in [1..n -> S] : Deep!IsInjective(h)
    BY SameCardinality DEF Deep!SetToSeq
  <1> HIDE DEF f
  <1>4. f \in [1..n -> S] /\ Deep!IsInjective(f)
    BY <1>2, <1>3
  <1>5. f \in Injection(1..n, S)
    BY <1>4 DEF Injection, IsInjective, Deep!IsInjective
  <1>6. IsFiniteSet(1..n) /\ Cardinality(1..n) = n
    BY <1>1, FS_Interval
  <1>7. f \in Surjection(1..n, S)
    BY <1>5, <1>6, FS_Injection
  <1> QED
    BY <1>1, <1>4, <1>7 DEF f, Surjection, Deep!IsInjective

Judgements == {"none", "tight", "silent"}

Predictions == [ts : Nat, q : Qs, fire : Nat]

Blocks == [armed : BOOLEAN, day : Nat, beta : -10..15, tier : Deep!Tiers, worse : Judgements, streak : 0..1,
           asked : Deep!Tiers, fires : Nat, lost : Nat, prediction : Predictions \cup {Deep!NoPrediction}]

Ledger == [kind : Kinds, fire : Nat, q : Qs, y : 0..1]

Open(c) == c.prediction # Deep!NoPrediction

(* What is known of a detector: the judgement it waits to hear again is the  *)
(* last one, and neither its day nor its prediction is of the future.        *)
Sound(c) ==
  /\ c \in Blocks /\ c.day <= Deep!DayOf(clock)
  /\ (c.worse = "none" <=> c.streak = 0) /\ (c.worse # "none" => c.asked = c.worse)
  /\ c.lost <= c.fires /\ c.fires <= MaxFires
  /\ Open(c) => c.prediction \in Predictions /\ c.prediction.ts <= clock /\ c.prediction.fire <= c.fires

DeepTypes ==
  /\ shadow \in [Kinds -> Blocks] /\ shadowDisk \in [Kinds -> Blocks]
  /\ \A k \in Kinds : Sound(shadow[k]) /\ Sound(shadowDisk[k]) /\ shadowDisk[k].fires <= shadow[k].fires
  /\ rows \in Seq(Ledger) /\ clock \in 0..HalfDays /\ lives \in 0..MaxKills

LEMMA DeepConstants ==
  /\ IsFiniteSet(Kinds) /\ HalfDays \in Nat /\ MaxKills \in Nat /\ MaxFires \in Nat /\ Quota \in Nat
  /\ Hypotheses \in 1..3 /\ Qs \subseteq 0..100 /\ Strengths \subseteq 0..100
  BY Constants, SameCardinality DEF Deep!DeepShadowAssumption

LEMMA OpenIsWhole == \A c \in Blocks : Open(c) => c.prediction \in Predictions
  BY DEF Blocks, Open

(* A judgement: worse only when it is asked for twice. *)
Judged(c, d, tier) ==
  /\ d \in Blocks /\ d.prediction = Deep!NoPrediction /\ d.asked = tier
  /\ d.day = c.day /\ d.fires = c.fires /\ d.lost = c.lost /\ d.beta = c.beta /\ d.armed = c.armed
  /\ (d.worse = "none" <=> d.streak = 0) /\ (d.worse # "none" => d.worse = tier)
  /\ c.tier # "observe" /\ d.tier # "observe" /\ Deep!Severity[d.tier] > Deep!Severity[c.tier]
       => c.asked = d.tier /\ tier = d.tier

LEMMA CandidateIsATier == \A rs : Deep!Candidate(rs) \in Deep!Tiers
  BY DEF Deep!Candidate, Deep!Tiers, Deep!Severity

Rewritten(c, e, t, w, n) == e = [c EXCEPT !.tier = t, !.worse = w, !.streak = n]

LEMMA Rejudged ==
  ASSUME NEW c \in Blocks, NEW t \in Deep!Tiers, NEW w \in Judgements, NEW n \in 0..1, NEW e,
         Rewritten(c, e, t, w, n)
  PROVE  /\ e \in Blocks /\ e.day = c.day /\ e.fires = c.fires /\ e.lost = c.lost /\ e.beta = c.beta
         /\ e.armed = c.armed /\ e.worse = w /\ e.streak = n /\ e.tier = t
  BY DEF Blocks, Rewritten

LEMMA JudgementIsEarned ==
  ASSUME NEW c \in Blocks, NEW tier \in Deep!Tiers, c.worse # "none" => c.asked = c.worse
  PROVE  Judged(c, [Deep!Evaluated(c, tier) EXCEPT !.prediction = Deep!NoPrediction, !.asked = tier], tier)
  <1> DEFINE e == Deep!Evaluated(c, tier)
             d == [e EXCEPT !.prediction = Deep!NoPrediction, !.asked = tier]
             stays == \/ tier = "observe" \/ c.tier = "observe"
                      \/ Deep!Severity[tier] <= Deep!Severity[c.tier] \/ c.worse = tier
  <1>0. /\ stays => Rewritten(c, e, tier, "none", 0)
        /\ ~stays => e = [c EXCEPT !.worse = tier, !.streak = 1]
    BY DEF Deep!Evaluated, Deep!Settled, Rewritten
  <1> HIDE DEF e
  <1>1. /\ e \in Blocks /\ e.day = c.day /\ e.fires = c.fires /\ e.lost = c.lost /\ e.beta = c.beta
        /\ e.armed = c.armed
        /\ (e.worse = "none" <=> e.streak = 0) /\ (e.worse # "none" => e.worse = tier)
        /\ c.tier # "observe" /\ e.tier # "observe" /\ Deep!Severity[e.tier] > Deep!Severity[c.tier]
             => c.worse = tier /\ tier = e.tier
    <2>1. tier \in {"normal", "tight", "silent", "observe"} /\ c.tier \in {"normal", "tight", "silent", "observe"}
      BY DEF Deep!Tiers, Deep!Severity, Blocks
    <2>2. Deep!Severity["normal"] = 0 /\ Deep!Severity["tight"] = 1 /\ Deep!Severity["silent"] = 2
      BY DEF Deep!Severity
    <2>3. CASE stays
      <3>1. Rewritten(c, e, tier, "none", 0)
        BY <1>0, <2>3
      <3>2. /\ e \in Blocks /\ e.day = c.day /\ e.fires = c.fires /\ e.lost = c.lost /\ e.beta = c.beta
            /\ e.armed = c.armed /\ e.worse = "none" /\ e.streak = 0 /\ e.tier = tier
        BY <3>1, Rejudged DEF Judgements
      <3> QED
        BY <2>1, <2>2, <2>3, <3>2
    <2>4. CASE ~stays
      <3>1. e = [c EXCEPT !.worse = tier, !.streak = 1]
        BY <1>0, <2>4
      <3>2. tier \in {"tight", "silent"}
        BY <2>1, <2>2, <2>4
      <3>3. c.tier \in Deep!Tiers /\ tier \in Judgements /\ Rewritten(c, e, c.tier, tier, 1)
        BY <3>1, <3>2 DEF Blocks, Judgements, Rewritten
      <3>4. /\ e \in Blocks /\ e.day = c.day /\ e.fires = c.fires /\ e.lost = c.lost /\ e.beta = c.beta
            /\ e.armed = c.armed /\ e.worse = tier /\ e.streak = 1 /\ e.tier = c.tier
        BY <3>3, Rejudged
      <3> QED
        BY <2>1, <2>2, <3>2, <3>4
    <2> QED
      BY <2>3, <2>4
  <1>2. /\ d \in Blocks /\ d.prediction = Deep!NoPrediction /\ d.asked = tier
        /\ d.day = e.day /\ d.fires = e.fires /\ d.lost = e.lost /\ d.beta = e.beta /\ d.armed = e.armed
        /\ d.worse = e.worse /\ d.streak = e.streak /\ d.tier = e.tier
    BY <1>1 DEF Blocks
  <1> HIDE DEF d
  <1>3. tier # "none"
    BY DEF Deep!Tiers, Deep!Severity
  <1>4. Judged(c, d, tier)
    BY <1>1, <1>2, <1>3 DEF Judged
  <1> QED
    BY <1>4 DEF d, e

(* A sum of at most five costs, unfolded. *)
UpTo(s, g) == g = [i \in 0..Len(s) |-> IF i = 0 THEN 0 ELSE g[i - 1] + s[i]]

Summed(s, t) ==
  /\ Len(s) = 0 => t = 0
  /\ Len(s) = 1 => t = s[1]
  /\ Len(s) = 2 => t = s[1] + s[2]
  /\ Len(s) = 3 => t = s[1] + s[2] + s[3]
  /\ Len(s) = 4 => t = s[1] + s[2] + s[3] + s[4]
  /\ Len(s) = 5 => t = s[1] + s[2] + s[3] + s[4] + s[5]

LEMMA Unfolded ==
  ASSUME NEW s \in Seq(Int), Len(s) <= 5
  PROVE  Summed(s, Deep!Total(s))
  <1> DEFINE n == Len(s)
             a == s[1]
             b == a + s[2]
             c == b + s[3]
             d == c + s[4]
             e == d + s[5]
             w == [i \in 0..n |-> IF i = 0 THEN 0 ELSE IF i = 1 THEN a ELSE IF i = 2 THEN b
                                  ELSE IF i = 3 THEN c ELSE IF i = 4 THEN d ELSE e]
             u == CHOOSE g : UpTo(s, g)
  <1> HIDE DEF a, b, c, d, e, w, u
  <1>0. n \in Nat /\ n <= 5
    OBVIOUS
  <1> HIDE DEF n
  <1>1. n \in 0..5
    BY <1>0
  <1> USE DEF n, a, b, c, d, e, w, u
  <1>2. UpTo(s, w)
    <2>1. \A i \in 0..n : i # 0 => i - 1 \in 0..n /\ i \in {1, 2, 3, 4, 5}
      BY <1>1
    <2>2. \A i \in 0..n : w[i] = IF i = 0 THEN 0 ELSE w[i - 1] + s[i]
      BY <1>1, <2>1
    <2> QED
      BY <2>2 DEF UpTo
  <1>3. UpTo(s, u)
    BY <1>2
  <1>4. Deep!Total(s) = u[n]
    BY DEF Deep!Total, UpTo
  <1> HIDE DEF u, w
  <1>5. \A i \in 0..n : u[i] = IF i = 0 THEN 0 ELSE u[i - 1] + s[i]
    BY <1>3 DEF UpTo
  <1>6. u[0] = 0
    BY <1>1, <1>5
  <1>7. \A i \in 1..n : u[i] = u[i - 1] + s[i] /\ s[i] \in Int
    BY <1>1, <1>5
  <1>8. /\ n >= 1 => u[1] = u[0] + s[1] /\ s[1] \in Int
        /\ n >= 2 => u[2] = u[1] + s[2] /\ s[2] \in Int
        /\ n >= 3 => u[3] = u[2] + s[3] /\ s[3] \in Int
        /\ n >= 4 => u[4] = u[3] + s[4] /\ s[4] \in Int
        /\ n >= 5 => u[5] = u[4] + s[5] /\ s[5] \in Int
    BY <1>1, <1>7
  <1>9. /\ n >= 1 => u[1] = a /\ a \in Int
        /\ n >= 2 => u[2] = b /\ b \in Int
        /\ n >= 3 => u[3] = c /\ c \in Int
        /\ n >= 4 => u[4] = d /\ d \in Int
        /\ n >= 5 => u[5] = e
    <2>1. n >= 1 => u[1] = a /\ a \in Int
      BY <1>6, <1>8
    <2>2. n >= 2 => u[2] = b /\ b \in Int
      <3> HIDE DEF a
      <3> QED
        BY <1>0, <1>8, <2>1
    <2>3. n >= 3 => u[3] = c /\ c \in Int
      <3> HIDE DEF a, b
      <3> QED
        BY <1>0, <1>8, <2>2
    <2>4. n >= 4 => u[4] = d /\ d \in Int
      <3> HIDE DEF a, b, c
      <3> QED
        BY <1>0, <1>8, <2>3
    <2>5. n >= 5 => u[5] = e
      <3> HIDE DEF a, b, c, d
      <3> QED
        BY <1>0, <1>8, <2>4
    <2> QED
      BY <2>1, <2>2, <2>3, <2>4, <2>5
  <1>10. n \in {0, 1, 2, 3, 4, 5}
    BY <1>1
  <1>11. Deep!Total(s) = u[Len(s)]
    BY <1>4
  <1> HIDE DEF n
  <1>12. /\ n = 0 => Deep!Total(s) = 0
         /\ n = 1 => Deep!Total(s) = a
         /\ n = 2 => Deep!Total(s) = b
         /\ n = 3 => Deep!Total(s) = c
         /\ n = 4 => Deep!Total(s) = d
         /\ n = 5 => Deep!Total(s) = e
    <2> HIDE DEF a, b, c, d, e
    <2> QED
      BY <1>4, <1>6, <1>9, <1>10
  <1> QED
    BY <1>12, Zenon DEF n, Summed

------------------------------------------------------------------------------
OfKind(r, k) == {i \in 1..Len(r) : r[i].kind = k}
OfFire(r, k, n) == {i \in 1..Len(r) : r[i].kind = k /\ r[i].fire = n}

LEMMA RowsAreFinite ==
  ASSUME NEW r \in Seq(Ledger), NEW k, NEW n
  PROVE  /\ IsFiniteSet(OfKind(r, k)) /\ IsFiniteSet(OfFire(r, k, n))
         /\ Cardinality(OfKind(r, k)) \in Nat /\ Cardinality(OfFire(r, k, n)) \in Nat
  <1>1. Len(r) \in Nat
    OBVIOUS
  <1>2. IsFiniteSet(1..Len(r))
    BY <1>1, FS_Interval
  <1>3. OfKind(r, k) \in SUBSET (1..Len(r)) /\ OfFire(r, k, n) \in SUBSET (1..Len(r))
    BY DEF OfKind, OfFire
  <1>4. IsFiniteSet(OfKind(r, k)) /\ IsFiniteSet(OfFire(r, k, n))
    BY <1>2, <1>3, FS_Subset
  <1> QED
    BY <1>4, FS_CardinalityType

(* What a settlement of ks adds to the ledger.                               *)
Filed(r, ks) ==
  /\ r \in Seq(Ledger)
  /\ \A k \in Kinds : Cardinality(OfKind(r, k)) = Cardinality(OfKind(rows, k)) + IF k \in ks THEN 1 ELSE 0
  /\ \A k \in Kinds : \A n \in Nat :
       Cardinality(OfFire(r, k, n))
         = Cardinality(OfFire(rows, k, n)) + IF k \in ks /\ shadow[k].prediction.fire = n THEN 1 ELSE 0

LEMMA SettlementIsFiled ==
  ASSUME DeepTypes, NEW ks \in SUBSET Deep!Pending, NEW y \in 0..1
  PROVE  Filed(Deep!FileWith(ks, y), ks)
  <1> DEFINE m == Cardinality(ks)
             f == Deep!SetToSeq(ks)
             g == [i \in 1..m |-> Deep!Row(f[i], y)]
             r == rows \o g
             l == Len(rows)
  <1>1. IsFiniteSet(ks) /\ ks \subseteq Kinds
    BY DeepConstants, FS_Subset DEF Deep!Pending
  <1>2. /\ m \in Nat /\ f \in [1..m -> ks]
        /\ \A i, j \in 1..m : f[i] = f[j] => i = j
        /\ \A s \in ks : \E i \in 1..m : f[i] = s
    BY <1>1, ListsOnce
  <1>3. Deep!FileWith(ks, y) = r
    BY SameCardinality DEF Deep!FileWith
  <1> HIDE DEF m, f
  <1>4. \A k \in ks : shadow[k] \in Blocks /\ Open(shadow[k])
    BY <1>1 DEF DeepTypes, Deep!Pending, Open
  <1>5. \A k \in ks : Deep!Row(k, y) \in Ledger /\ Deep!Row(k, y).kind = k
                      /\ Deep!Row(k, y).fire = shadow[k].prediction.fire
    BY <1>1, <1>4, OpenIsWhole DEF Deep!Row, Ledger, Predictions
  <1>6. /\ g \in [1..m -> Ledger]
        /\ \A i \in 1..m : g[i].kind = f[i] /\ g[i].fire = shadow[f[i]].prediction.fire
    BY <1>2, <1>5
  <1> HIDE DEF g
  <1>7. rows \in Seq(Ledger) /\ l \in Nat /\ g \in Seq(Ledger) /\ Len(g) = m
    <2>1. rows \in Seq(Ledger)
      BY DEF DeepTypes
    <2>2. m \in Nat /\ g \in [1..m -> Ledger]
      BY <1>2, <1>6
    <2>3. g \in Seq(Ledger) /\ Len(g) = m
      BY <2>2
    <2> QED
      BY <2>1, <2>3
  <1>8. /\ r \in Seq(Ledger) /\ Len(r) = l + m
        /\ \A i \in 1..l : r[i] = rows[i]
        /\ \A i \in 1..m : r[l + i] = g[i]
    BY <1>7, <1>2
  <1>9. \A i \in 1..(l + m) : i \in 1..l \/ \E j \in 1..m : i = l + j
    <2> SUFFICES ASSUME NEW i \in 1..(l + m), i \notin 1..l
                 PROVE  \E j \in 1..m : i = l + j
      OBVIOUS
    <2>1. i - l \in 1..m /\ i = l + (i - l)
      BY <1>2, <1>7
    <2> QED
      BY <2>1
  <1> HIDE DEF r, l
  <1>10. ASSUME NEW k \in Kinds, NEW n \in Nat, k \notin ks
         PROVE  OfKind(r, k) = OfKind(rows, k) /\ OfFire(r, k, n) = OfFire(rows, k, n)
    <2>1. \A i \in 1..m : g[i].kind # k
      BY <1>2, <1>6, <1>10
    <2>2. \A i \in 1..(l + m) : r[i].kind = k => i \in 1..l
      BY <1>8, <1>9, <2>1
    <2>3. \A i \in 1..l : i \in 1..(l + m) /\ r[i] = rows[i]
      BY <1>2, <1>7, <1>8
    <2> QED
      BY <1>8, <2>2, <2>3 DEF OfKind, OfFire, l
  <1>11. ASSUME NEW k \in ks
         PROVE  \E x : /\ x \notin OfKind(rows, k) /\ OfKind(r, k) = OfKind(rows, k) \cup {x}
                       /\ \A n \in Nat : OfFire(r, k, n)
                            = OfFire(rows, k, n) \cup IF shadow[k].prediction.fire = n THEN {x} ELSE {}
    <2>1. PICK j \in 1..m : f[j] = k
      BY <1>2
    <2>2. \A i \in 1..m : g[i].kind = k <=> i = j
      BY <1>2, <1>6, <2>1
    <2>3. r[l + j].kind = k /\ r[l + j].fire = shadow[k].prediction.fire
      BY <1>6, <1>8, <2>1
    <2>4. l + j \in 1..(l + m) /\ l + j \notin 1..l
      BY <1>2, <1>7, <2>1
    <2>5. \A i \in 1..(l + m) : r[i].kind = k => i \in 1..l \/ i = l + j
      BY <1>8, <1>9, <2>2
    <2>6. \A i \in 1..l : i \in 1..(l + m) /\ r[i] = rows[i]
      BY <1>2, <1>7, <1>8
    <2>7. l + j \notin OfKind(rows, k)
      BY <2>4 DEF OfKind, l
    <2>8. OfKind(r, k) = OfKind(rows, k) \cup {l + j}
      BY <1>8, <2>3, <2>4, <2>5, <2>6 DEF OfKind, l
    <2>9. ASSUME NEW n \in Nat
          PROVE  OfFire(r, k, n) = OfFire(rows, k, n) \cup IF shadow[k].prediction.fire = n THEN {l + j} ELSE {}
      BY <1>8, <2>3, <2>4, <2>5, <2>6 DEF OfFire, l
    <2> QED
      BY <2>7, <2>8, <2>9
  <1>12. ASSUME NEW k \in ks
         PROVE  /\ Cardinality(OfKind(r, k)) = Cardinality(OfKind(rows, k)) + 1
                /\ \A n \in Nat : Cardinality(OfFire(r, k, n)) = Cardinality(OfFire(rows, k, n))
                                    + IF shadow[k].prediction.fire = n THEN 1 ELSE 0
    <2>1. PICK x : /\ x \notin OfKind(rows, k) /\ OfKind(r, k) = OfKind(rows, k) \cup {x}
                   /\ \A n \in Nat : OfFire(r, k, n)
                        = OfFire(rows, k, n) \cup IF shadow[k].prediction.fire = n THEN {x} ELSE {}
      BY <1>11
    <2>2. Cardinality(OfKind(r, k)) = Cardinality(OfKind(rows, k)) + 1
      BY <1>7, <2>1, RowsAreFinite, FS_AddElement
    <2>3. ASSUME NEW n \in Nat
          PROVE  Cardinality(OfFire(r, k, n)) = Cardinality(OfFire(rows, k, n))
                                    + IF shadow[k].prediction.fire = n THEN 1 ELSE 0
      <3>1. IsFiniteSet(OfFire(rows, k, n)) /\ Cardinality(OfFire(rows, k, n)) \in Nat
        BY <1>7, RowsAreFinite
      <3>2. x \notin OfFire(rows, k, n)
        BY <2>1 DEF OfKind, OfFire
      <3>3. CASE shadow[k].prediction.fire = n
        <4>1. OfFire(r, k, n) = OfFire(rows, k, n) \cup {x}
          BY <2>1, <3>3
        <4> QED
          BY <3>1, <3>2, <3>3, <4>1, FS_AddElement
      <3>4. CASE shadow[k].prediction.fire # n
        <4>1. OfFire(r, k, n) = OfFire(rows, k, n)
          BY <2>1, <3>4
        <4> QED
          BY <3>1, <3>4, <4>1
      <3> QED
        BY <3>3, <3>4
    <2> QED
      BY <2>2, <2>3
  <1>13. \A k \in Kinds : \A n \in Nat :
           Cardinality(OfKind(rows, k)) \in Nat /\ Cardinality(OfFire(rows, k, n)) \in Nat
    BY <1>7, RowsAreFinite
  <1>14. Filed(r, ks)
    <2>1. ASSUME NEW k \in Kinds
          PROVE  Cardinality(OfKind(r, k)) = Cardinality(OfKind(rows, k)) + IF k \in ks THEN 1 ELSE 0
      <3>1. CASE k \in ks
        BY <1>12, <3>1
      <3>2. CASE k \notin ks
        <4>1. OfKind(r, k) = OfKind(rows, k)
          BY <1>10, <3>2
        <4> QED
          BY <1>13, <3>2, <4>1
      <3> QED
        BY <3>1, <3>2
    <2>2. ASSUME NEW k \in Kinds, NEW n \in Nat
          PROVE  Cardinality(OfFire(r, k, n))
                   = Cardinality(OfFire(rows, k, n)) + IF k \in ks /\ shadow[k].prediction.fire = n THEN 1 ELSE 0
      <3>1. CASE k \in ks
        BY <1>12, <3>1
      <3>2. CASE k \notin ks
        <4>1. OfFire(r, k, n) = OfFire(rows, k, n)
          BY <1>10, <3>2
        <4> QED
          BY <1>13, <3>2, <4>1
      <3> QED
        BY <3>1, <3>2
    <2> QED
      BY <1>8, <2>1, <2>2 DEF Filed
  <1> QED
    BY <1>3, <1>14

------------------------------------------------------------------------------
(* A fire that may still get a row: it is open, or is still to come. *)
Owed(c, n) == n > c.fires \/ (Open(c) /\ c.prediction.fire = n)

RowsInv ==
  /\ \A k \in Kinds : \A n \in Nat :
       Cardinality(OfFire(rows, k, n)) + (IF Owed(shadow[k], n) THEN 1 ELSE 0) <= 1 + lives
  /\ lives = 0 =>
       \A k \in Kinds :
         shadow[k].fires = shadow[k].lost + Cardinality(OfKind(rows, k)) + IF Open(shadow[k]) THEN 1 ELSE 0

Earned(c, d) ==
  /\ d.fires > c.fires => c.fires = 0 \/ c.day < Deep!DayOf(clock)
  /\ c.tier # "observe" /\ d.tier # "observe" /\ Deep!Severity[d.tier] > Deep!Severity[c.tier]
       => c.asked = d.tier /\ d.asked = d.tier

DeepSteps ==
  \A k \in Kinds :
    /\ shadow'[k].fires > shadow[k].fires => shadow[k].fires = 0 \/ shadow[k].day < Deep!DayOf(clock)
    /\ lives' = lives => Earned(shadow[k], shadow'[k])

DeepCore == DeepTypes /\ RowsInv

LEMMA TierUnmoved ==
  ASSUME NEW c, NEW d, d.tier = c.tier, c.tier \in Deep!Tiers
  PROVE  ~(c.tier # "observe" /\ d.tier # "observe" /\ Deep!Severity[d.tier] > Deep!Severity[c.tier])
  <1>1. c.tier # "observe" => Deep!Severity[c.tier] \in Nat
    BY DEF Deep!Tiers, Deep!Severity
  <1> QED
    BY <1>1

LEMMA ClockAndLives ==
  ASSUME DeepTypes
  PROVE  clock \in Nat /\ lives \in Nat /\ clock <= HalfDays /\ lives <= MaxKills
         /\ Deep!DayOf(clock) \in Nat
  <1>1. clock \in 0..HalfDays /\ lives \in 0..MaxKills
    BY DEF DeepTypes
  <1>2. HalfDays \in Nat /\ MaxKills \in Nat
    BY DeepConstants
  <1>3. clock \in Nat /\ lives \in Nat /\ clock <= HalfDays /\ lives <= MaxKills
    BY <1>1, <1>2
  <1> QED
    BY <1>3 DEF Deep!DayOf

LEMMA RowCounts ==
  ASSUME DeepTypes
  PROVE  \A k \in Kinds : /\ Cardinality(OfKind(rows, k)) \in Nat
                          /\ \A n \in Nat : Cardinality(OfFire(rows, k, n)) \in Nat
  BY RowsAreFinite DEF DeepTypes

(* One detector moves, the ledger stands still. *)
LEMMA OneMoves ==
  ASSUME DeepCore, NEW k \in Kinds, NEW d, Sound(d),
         shadow' = [shadow EXCEPT ![k] = d],
         UNCHANGED <<shadowDisk, rows, clock, lives>>,
         d.fires >= shadow[k].fires,
         d.fires + shadow[k].lost + (IF Open(shadow[k]) THEN 1 ELSE 0)
           = shadow[k].fires + d.lost + (IF Open(d) THEN 1 ELSE 0),
         \A n \in Nat : Owed(d, n) => Owed(shadow[k], n),
         Earned(shadow[k], d)
  PROVE  DeepCore' /\ DeepSteps
  <1>1. /\ shadow \in [Kinds -> Blocks] /\ shadowDisk \in [Kinds -> Blocks]
        /\ \A j \in Kinds : Sound(shadow[j]) /\ Sound(shadowDisk[j]) /\ shadowDisk[j].fires <= shadow[j].fires
    BY DEF DeepCore, DeepTypes
  <1>2. /\ shadow' \in [Kinds -> Blocks] /\ shadow'[k] = d
        /\ \A j \in Kinds : j # k => shadow'[j] = shadow[j]
    BY <1>1 DEF Sound
  <1>3. \A j \in Kinds : /\ shadow[j].fires \in Nat /\ shadowDisk[j].fires \in Nat /\ shadow'[j].fires \in Nat
                         /\ shadow[j].lost \in Nat /\ shadow'[j].lost \in Nat
                         /\ shadow[j].tier \in Deep!Tiers
    BY <1>1, <1>2 DEF Blocks
  <1>4. \A j \in Kinds : shadowDisk'[j].fires <= shadow'[j].fires
    <2> SUFFICES ASSUME NEW j \in Kinds PROVE shadowDisk[j].fires <= shadow'[j].fires
      OBVIOUS
    <2>1. CASE j = k
      BY <1>1, <1>2, <1>3, <2>1
    <2>2. CASE j # k
      BY <1>1, <1>2, <2>2
    <2> QED
      BY <2>1, <2>2
  <1>5. \A c : Sound(c)' <=> Sound(c)
    BY DEF Sound
  <1>6. DeepTypes'
    <2>1. \A j \in Kinds : Sound(shadow'[j]) /\ Sound(shadowDisk'[j])
      BY <1>1, <1>2
    <2>2. \A j \in Kinds : Sound(shadow[j])' /\ Sound(shadowDisk[j])'
      BY <2>1 DEF Sound
    <2> QED
      BY <1>1, <1>2, <1>4, <2>2 DEF DeepCore, DeepTypes
  <1>7. RowsInv'
    <2>1. ASSUME NEW j \in Kinds, NEW n \in Nat
          PROVE  Cardinality(OfFire(rows, j, n)) + (IF Owed(shadow'[j], n) THEN 1 ELSE 0) <= 1 + lives
      <3>1. Cardinality(OfFire(rows, j, n)) + (IF Owed(shadow[j], n) THEN 1 ELSE 0) <= 1 + lives
        BY DEF DeepCore, RowsInv
      <3>2. Owed(shadow'[j], n) => Owed(shadow[j], n)
        BY <1>2
      <3>3. Cardinality(OfFire(rows, j, n)) \in Nat /\ lives \in Nat
        BY RowCounts, ClockAndLives DEF DeepCore
      <3> QED
        BY <3>1, <3>2, <3>3
    <2>2. ASSUME NEW j \in Kinds, lives = 0
          PROVE  shadow'[j].fires
                   = shadow'[j].lost + Cardinality(OfKind(rows, j)) + IF Open(shadow'[j]) THEN 1 ELSE 0
      <3>1. shadow[j].fires = shadow[j].lost + Cardinality(OfKind(rows, j)) + IF Open(shadow[j]) THEN 1 ELSE 0
        BY <2>2 DEF DeepCore, RowsInv
      <3>2. Cardinality(OfKind(rows, j)) \in Nat
        BY RowCounts DEF DeepCore
      <3>3. CASE j = k
        BY <1>2, <1>3, <3>1, <3>2, <3>3
      <3>4. CASE j # k
        BY <1>2, <3>1, <3>4
      <3> QED
        BY <3>3, <3>4
    <2>3. \A j \in Kinds : \A n \in Nat : Owed(shadow'[j], n) <=> Owed(shadow[j], n)'
      BY DEF Owed, Open
    <2>4. \A j \in Kinds : Open(shadow'[j]) <=> Open(shadow[j])'
      BY DEF Open
    <2>5. \A j \in Kinds : \A n \in Nat : OfFire(rows, j, n)' = OfFire(rows, j, n)
                                          /\ OfKind(rows, j)' = OfKind(rows, j)
      BY DEF OfFire, OfKind
    <2> QED
      BY <2>1, <2>2, <2>3, <2>4, <2>5 DEF RowsInv
  <1>8. DeepSteps
    <2> SUFFICES ASSUME NEW j \in Kinds
                 PROVE  Earned(shadow[j], shadow'[j])
      BY DEF DeepSteps, Earned
    <2>1. CASE j = k
      BY <1>2, <2>1
    <2>2. CASE j # k
      BY <1>2, <1>3, <2>2, TierUnmoved DEF Earned
    <2> QED
      BY <2>1, <2>2
  <1> QED
    BY <1>6, <1>7, <1>8 DEF DeepCore

LEMMA ClearKeeps ==
  ASSUME DeepCore, NEW k \in Kinds, Deep!Clear(k)
  PROVE  DeepCore' /\ DeepSteps
  <1> DEFINE c == shadow[k]
             d == [c EXCEPT !.armed = TRUE]
  <1>1. shadow' = [shadow EXCEPT ![k] = d] /\ UNCHANGED <<shadowDisk, rows, clock, lives>>
    BY DEF Deep!Clear, Deep!Rearmed
  <1>2. Sound(c) /\ c \in Blocks
    BY DEF DeepCore, DeepTypes, Sound
  <1> HIDE DEF c
  <1>3. /\ d \in Blocks /\ d.day = c.day /\ d.tier = c.tier /\ d.worse = c.worse /\ d.streak = c.streak
        /\ d.asked = c.asked /\ d.fires = c.fires /\ d.lost = c.lost /\ d.prediction = c.prediction
    BY <1>2 DEF Blocks
  <1> HIDE DEF d
  <1>4. Sound(d)
    BY <1>2, <1>3 DEF Sound, Open
  <1>5. c.fires \in Nat /\ c.lost \in Nat /\ c.tier \in Deep!Tiers
    BY <1>2 DEF Blocks
  <1>6. Earned(c, d)
    BY <1>3, <1>5, TierUnmoved DEF Earned
  <1>7. (Open(d) <=> Open(c)) /\ \A n \in Nat : Owed(d, n) => Owed(c, n)
    BY <1>3 DEF Owed, Open
  <1>8. /\ d.fires >= c.fires
        /\ d.fires + c.lost + (IF Open(c) THEN 1 ELSE 0) = c.fires + d.lost + (IF Open(d) THEN 1 ELSE 0)
    BY <1>3, <1>5, <1>7
  <1> USE DEF c
  <1> QED
    BY <1>1, <1>4, <1>6, <1>7, <1>8, OneMoves

LEMMA TooWeakKeeps ==
  ASSUME DeepCore, NEW k \in Kinds, NEW s, Deep!TooWeak(k, s)
  PROVE  DeepCore' /\ DeepSteps
  <1> DEFINE c == shadow[k]
             t == Deep!DayOf(clock)
             d == [c EXCEPT !.armed = FALSE, !.day = t]
  <1>1. shadow' = [shadow EXCEPT ![k] = d] /\ UNCHANGED <<shadowDisk, rows, clock, lives>>
    BY DEF Deep!TooWeak
  <1>2. Sound(c) /\ c \in Blocks /\ t \in Nat
    BY ClockAndLives DEF DeepCore, DeepTypes, Sound
  <1> HIDE DEF c, t
  <1>3. /\ d \in Blocks /\ d.day = t /\ d.tier = c.tier /\ d.worse = c.worse /\ d.streak = c.streak
        /\ d.asked = c.asked /\ d.fires = c.fires /\ d.lost = c.lost /\ d.prediction = c.prediction
    BY <1>2 DEF Blocks
  <1> HIDE DEF d
  <1>4. Sound(d)
    BY <1>2, <1>3 DEF Sound, Open, t
  <1>5. c.fires \in Nat /\ c.lost \in Nat /\ c.tier \in Deep!Tiers
    BY <1>2 DEF Blocks
  <1>6. Earned(c, d)
    BY <1>3, <1>5, TierUnmoved DEF Earned
  <1>7. (Open(d) <=> Open(c)) /\ \A n \in Nat : Owed(d, n) => Owed(c, n)
    BY <1>3 DEF Owed, Open
  <1>8. /\ d.fires >= c.fires
        /\ d.fires + c.lost + (IF Open(c) THEN 1 ELSE 0) = c.fires + d.lost + (IF Open(d) THEN 1 ELSE 0)
    BY <1>3, <1>5, <1>7
  <1> USE DEF c
  <1> QED
    BY <1>1, <1>4, <1>6, <1>7, <1>8, OneMoves

(* The new prediction is owed a row; one that it replaces is owed none.      *)
LEMMA FireKeeps ==
  ASSUME DeepCore, NEW k \in Kinds, NEW s, NEW q \in Qs, Deep!Fire(k, s, q)
  PROVE  DeepCore' /\ DeepSteps
  <1> DEFINE c == shadow[k]
             t == Deep!DayOf(clock)
             f == c.fires + 1
             l == IF c.prediction = Deep!NoPrediction THEN c.lost ELSE c.lost + 1
             p == [ts |-> clock, q |-> q, fire |-> f]
             d == [c EXCEPT !.armed = FALSE, !.day = t, !.fires = f, !.lost = l, !.prediction = p]
  <1>1. /\ shadow' = [shadow EXCEPT ![k] = d] /\ UNCHANGED <<shadowDisk, rows, clock, lives>>
        /\ c.day # t /\ c.fires < MaxFires
    BY DEF Deep!Fire, Deep!Predicted, Deep!Fires
  <1>2. Sound(c) /\ c \in Blocks /\ t \in Nat /\ clock \in Nat /\ MaxFires \in Nat
    BY ClockAndLives, DeepConstants DEF DeepCore, DeepTypes, Sound
  <1>3. c.fires \in Nat /\ c.lost \in Nat /\ c.tier \in Deep!Tiers /\ c.day \in Nat /\ c.day <= t /\ c.lost <= c.fires
    BY <1>2 DEF Blocks, Sound
  <1>4. f \in Nat /\ l \in Nat /\ l <= f /\ l = c.lost + IF Open(c) THEN 1 ELSE 0
    BY <1>3 DEF Open
  <1>5. p \in Predictions /\ p.ts = clock /\ p.fire = f
    BY <1>2, <1>4 DEF Predictions
  <1>6. p # Deep!NoPrediction
    <2>1. "fire" \in DOMAIN p /\ "fire" \notin DOMAIN Deep!NoPrediction
      BY DEF Deep!NoPrediction
    <2> QED
      BY <2>1
  <1> HIDE DEF c, t, l, p, f
  <1>7. /\ d \in Blocks /\ d.day = t /\ d.tier = c.tier /\ d.worse = c.worse /\ d.streak = c.streak
        /\ d.asked = c.asked /\ d.fires = f /\ d.lost = l /\ d.prediction = p
    BY <1>2, <1>4, <1>5 DEF Blocks
  <1> HIDE DEF d
  <1>8. Open(d)
    BY <1>6, <1>7 DEF Open
  <1>9. Sound(d)
    BY <1>1, <1>2, <1>3, <1>4, <1>5, <1>7 DEF Sound, t, f
  <1>10. Earned(c, d)
    BY <1>1, <1>2, <1>3, <1>7, TierUnmoved DEF Earned, t
  <1>11. \A n \in Nat : Owed(d, n) => Owed(c, n)
    BY <1>3, <1>5, <1>7 DEF Owed, f
  <1>12. /\ d.fires >= c.fires
         /\ d.fires + c.lost + (IF Open(c) THEN 1 ELSE 0) = c.fires + d.lost + (IF Open(d) THEN 1 ELSE 0)
    BY <1>3, <1>4, <1>7, <1>8 DEF f
  <1> USE DEF c
  <1> QED
    BY <1>1, <1>9, <1>10, <1>11, <1>12, OneMoves

(* A settlement: every detector of ks is judged anew and owed no row more.   *)
Closed(c, d) ==
  /\ d \in Blocks /\ d.prediction = Deep!NoPrediction
  /\ d.day = c.day /\ d.fires = c.fires /\ d.lost = c.lost
  /\ (d.worse = "none" <=> d.streak = 0) /\ (d.worse # "none" => d.asked = d.worse)
  /\ c.tier # "observe" /\ d.tier # "observe" /\ Deep!Severity[d.tier] > Deep!Severity[c.tier]
       => c.asked = d.tier /\ d.asked = d.tier

LEMMA ResolvedIsClosed ==
  ASSUME DeepTypes, NEW k \in Kinds, NEW file
  PROVE  Closed(shadow[k], Deep!Resolved(k, file))
  <1> DEFINE c == shadow[k]
             tier == Deep!Candidate(Deep!RowsOf(file, k))
             d == [Deep!Evaluated(c, tier) EXCEPT !.prediction = Deep!NoPrediction, !.asked = tier]
  <1>1. Deep!Resolved(k, file) = d
    BY DEF Deep!Resolved
  <1>2. c \in Blocks /\ (c.worse # "none" => c.asked = c.worse)
    BY DEF DeepTypes, Sound
  <1>3. tier \in Deep!Tiers
    BY CandidateIsATier
  <1> HIDE DEF c, tier
  <1>4. Judged(c, d, tier)
    BY <1>2, <1>3, JudgementIsEarned
  <1> HIDE DEF d
  <1>5. Closed(c, d)
    BY <1>4 DEF Judged, Closed
  <1> QED
    BY <1>1, <1>5 DEF c

LEMMA ScarredIsClosed ==
  ASSUME NEW c, NEW d, Closed(c, d), NEW y \in 0..1
  PROVE  Closed(c, Deep!Scarred(d, y))
  <1> DEFINE b == IF y = 1 THEN (IF d.beta - 1 < -10 THEN -10 ELSE d.beta - 1)
                  ELSE IF d.beta + 2 > 15 THEN 15 ELSE d.beta + 2
             e == [d EXCEPT !.beta = b]
  <1>1. Deep!Scarred(d, y) = e
    BY DEF Deep!Scarred
  <1>2. d \in Blocks
    BY DEF Closed
  <1>3. d.beta \in -10..15
    BY <1>2 DEF Blocks
  <1>4. b \in -10..15
    BY <1>3
  <1> HIDE DEF b
  <1>5. /\ e \in Blocks /\ e.prediction = d.prediction /\ e.day = d.day /\ e.fires = d.fires /\ e.lost = d.lost
        /\ e.worse = d.worse /\ e.streak = d.streak /\ e.asked = d.asked /\ e.tier = d.tier
    BY <1>2, <1>4 DEF Blocks
  <1> HIDE DEF e
  <1>6. Closed(c, e)
    BY <1>5 DEF Closed
  <1> QED
    BY <1>1, <1>6

LEMMA Settlement ==
  ASSUME DeepCore, NEW ks \in SUBSET Deep!Pending, Filed(rows', ks),
         shadow' \in [Kinds -> Blocks],
         \A k \in Kinds : IF k \in ks THEN Closed(shadow[k], shadow'[k]) ELSE shadow'[k] = shadow[k],
         shadowDisk' \in {shadow', shadowDisk}, UNCHANGED <<clock, lives>>
  PROVE  DeepCore' /\ DeepSteps
  <1>1. /\ shadow \in [Kinds -> Blocks] /\ shadowDisk \in [Kinds -> Blocks]
        /\ \A j \in Kinds : Sound(shadow[j]) /\ Sound(shadowDisk[j]) /\ shadowDisk[j].fires <= shadow[j].fires
    BY DEF DeepCore, DeepTypes
  <1>2. ks \subseteq Kinds /\ \A k \in ks : Open(shadow[k])
    BY DEF Deep!Pending, Open
  <1>3. \A j \in Kinds : /\ shadow[j].fires \in Nat /\ shadow[j].lost \in Nat /\ shadow[j].tier \in Deep!Tiers
                         /\ shadow'[j].fires = shadow[j].fires /\ shadow'[j].lost = shadow[j].lost
    BY <1>1 DEF Blocks, Closed
  <1>4. \A j \in Kinds : Sound(shadow'[j])
    <2> SUFFICES ASSUME NEW j \in Kinds PROVE Sound(shadow'[j])
      OBVIOUS
    <2>1. CASE j \in ks
      <3>1. Sound(shadow[j]) /\ Closed(shadow[j], shadow'[j])
        BY <1>1, <2>1
      <3> QED
        BY <3>1 DEF Sound, Closed, Open
    <2>2. CASE j \notin ks
      BY <1>1, <2>2
    <2> QED
      BY <2>1, <2>2
  <1>5. DeepTypes'
    <2>1. rows' \in Seq(Ledger)
      BY DEF Filed
    <2>2. \A j \in Kinds : Sound(shadow'[j]) /\ Sound(shadowDisk'[j])
      BY <1>1, <1>4
    <2>3. \A j \in Kinds : shadowDisk'[j].fires <= shadow'[j].fires
      BY <1>1, <1>3
    <2>4. \A j \in Kinds : Sound(shadow[j])' /\ Sound(shadowDisk[j])'
      BY <2>2 DEF Sound
    <2>5. shadowDisk' \in [Kinds -> Blocks]
      BY <1>1
    <2>6. clock' \in 0..HalfDays /\ lives' \in 0..MaxKills
      BY DEF DeepCore, DeepTypes
    <2> QED
      BY <2>1, <2>3, <2>4, <2>5, <2>6 DEF DeepTypes
  <1>6. RowsInv'
    <2>1. ASSUME NEW j \in Kinds, NEW n \in Nat
          PROVE  Cardinality(OfFire(rows', j, n)) + (IF Owed(shadow'[j], n) THEN 1 ELSE 0) <= 1 + lives
      <3>1. Cardinality(OfFire(rows, j, n)) + (IF Owed(shadow[j], n) THEN 1 ELSE 0) <= 1 + lives
        BY DEF DeepCore, RowsInv
      <3>2. Cardinality(OfFire(rows, j, n)) \in Nat /\ lives \in Nat
        BY RowCounts, ClockAndLives DEF DeepCore
      <3>3. Cardinality(OfFire(rows', j, n))
              = Cardinality(OfFire(rows, j, n)) + IF j \in ks /\ shadow[j].prediction.fire = n THEN 1 ELSE 0
        BY DEF Filed
      <3>4. CASE j \in ks
        <4>1. ~Open(shadow'[j]) /\ Open(shadow[j]) /\ shadow[j].prediction.fire \in Nat
              /\ shadow[j].prediction.fire <= shadow[j].fires
          BY <1>1, <1>2, <3>4 DEF Closed, Open, Sound, Predictions
        <4>2. Owed(shadow'[j], n) <=> n > shadow[j].fires
          BY <1>3, <4>1 DEF Owed
        <4>3. Owed(shadow[j], n) <=> n > shadow[j].fires \/ shadow[j].prediction.fire = n
          BY <4>1 DEF Owed
        <4> QED
          BY <1>3, <3>1, <3>2, <3>3, <3>4, <4>1, <4>2, <4>3
      <3>5. CASE j \notin ks
        <4>1. Owed(shadow'[j], n) <=> Owed(shadow[j], n)
          BY <3>5
        <4> QED
          BY <3>1, <3>2, <3>3, <3>5, <4>1
      <3> QED
        BY <3>4, <3>5
    <2>2. ASSUME NEW j \in Kinds, lives = 0
          PROVE  shadow'[j].fires
                   = shadow'[j].lost + Cardinality(OfKind(rows', j)) + IF Open(shadow'[j]) THEN 1 ELSE 0
      <3>1. shadow[j].fires = shadow[j].lost + Cardinality(OfKind(rows, j)) + IF Open(shadow[j]) THEN 1 ELSE 0
        BY <2>2 DEF DeepCore, RowsInv
      <3>2. Cardinality(OfKind(rows, j)) \in Nat
        BY RowCounts DEF DeepCore
      <3>3. Cardinality(OfKind(rows', j)) = Cardinality(OfKind(rows, j)) + IF j \in ks THEN 1 ELSE 0
        BY DEF Filed
      <3>4. Open(shadow'[j]) <=> Open(shadow[j]) /\ j \notin ks
        BY DEF Closed, Open
      <3>5. j \in ks => Open(shadow[j])
        BY <1>2
      <3> QED
        BY <1>3, <3>1, <3>2, <3>3, <3>4, <3>5
    <2>3. \A j \in Kinds : \A n \in Nat : Owed(shadow'[j], n) <=> Owed(shadow[j], n)'
      BY DEF Owed, Open
    <2>4. \A j \in Kinds : Open(shadow'[j]) <=> Open(shadow[j])'
      BY DEF Open
    <2>5. \A j \in Kinds : \A n \in Nat : OfFire(rows, j, n)' = OfFire(rows', j, n)
                                          /\ OfKind(rows, j)' = OfKind(rows', j)
      BY DEF OfFire, OfKind
    <2> QED
      BY <2>1, <2>2, <2>3, <2>4, <2>5 DEF RowsInv
  <1>7. DeepSteps
    <2> SUFFICES ASSUME NEW j \in Kinds
                 PROVE  Earned(shadow[j], shadow'[j])
      BY DEF DeepSteps, Earned
    <2>1. CASE j \in ks
      BY <1>3, <2>1 DEF Earned, Closed
    <2>2. CASE j \notin ks
      BY <1>3, <2>2, TierUnmoved DEF Earned
    <2> QED
      BY <2>1, <2>2
  <1> QED
    BY <1>5, <1>6, <1>7 DEF DeepCore

LEMMA BeatReadKeeps ==
  ASSUME DeepCore, Deep!BeatRead
  PROVE  DeepCore' /\ DeepSteps
  <1> DEFINE ks == Deep!TimedOut
  <1>1. /\ rows' = Deep!FileWith(ks, 1)
        /\ shadow' = [k \in Kinds |-> IF k \in ks THEN Deep!Resolved(k, rows') ELSE shadow[k]]
        /\ UNCHANGED <<shadowDisk, clock, lives>>
    BY DEF Deep!BeatRead
  <1>2. ks \in SUBSET Deep!Pending
    BY DEF Deep!TimedOut
  <1> HIDE DEF ks
  <1>3. Filed(rows', ks)
    BY <1>1, <1>2, SettlementIsFiled DEF DeepCore
  <1>4. \A k \in Kinds : IF k \in ks THEN Closed(shadow[k], shadow'[k]) ELSE shadow'[k] = shadow[k]
    BY <1>1, ResolvedIsClosed DEF DeepCore
  <1>5. shadow' \in [Kinds -> Blocks]
    <2>1. \A k \in Kinds : (IF k \in ks THEN Deep!Resolved(k, rows') ELSE shadow[k]) \in Blocks
      BY ResolvedIsClosed DEF DeepCore, DeepTypes, Closed
    <2> QED
      BY <1>1, <2>1
  <1> QED
    BY <1>1, <1>2, <1>3, <1>4, <1>5, Settlement

LEMMA TurnSettles ==
  ASSUME DeepCore, NEW y \in 0..1, Deep!UserTurn(y)
  PROVE  DeepCore' /\ DeepSteps
  <1> DEFINE ks == Deep!Pending
  <1>1. /\ rows' = Deep!FileWith(ks, y)
        /\ shadow' = [k \in Kinds |-> IF k \in ks THEN Deep!Scarred(Deep!Resolved(k, rows'), y) ELSE shadow[k]]
        /\ shadowDisk' \in {shadow', shadowDisk} /\ UNCHANGED <<clock, lives>>
    BY DEF Deep!UserTurn
  <1>2. ks \in SUBSET Deep!Pending
    OBVIOUS
  <1> HIDE DEF ks
  <1>3. Filed(rows', ks)
    BY <1>1, <1>2, SettlementIsFiled DEF DeepCore
  <1>4. \A k \in Kinds : Closed(shadow[k], Deep!Scarred(Deep!Resolved(k, rows'), y))
    BY ResolvedIsClosed, ScarredIsClosed DEF DeepCore
  <1>5. shadow' \in [Kinds -> Blocks]
    <2>1. \A k \in Kinds : (IF k \in ks THEN Deep!Scarred(Deep!Resolved(k, rows'), y) ELSE shadow[k]) \in Blocks
      BY <1>4 DEF DeepCore, DeepTypes, Closed
    <2> QED
      BY <1>1, <2>1
  <1>6. \A k \in Kinds : IF k \in ks THEN Closed(shadow[k], shadow'[k]) ELSE shadow'[k] = shadow[k]
    BY <1>1, <1>4
  <1> QED
    BY <1>1, <1>2, <1>3, <1>5, <1>6, Settlement

LEMMA Standing ==
  ASSUME DeepTypes, shadow' = shadow
  PROVE  DeepSteps
  <1> SUFFICES ASSUME NEW j \in Kinds
               PROVE  Earned(shadow[j], shadow'[j])
    BY DEF DeepSteps, Earned
  <1>1. shadow[j].fires \in Nat /\ shadow[j].tier \in Deep!Tiers
    BY DEF DeepTypes, Blocks
  <1> QED
    BY <1>1, TierUnmoved DEF Earned

(* A save, or nothing at all. *)
LEMMA Saved ==
  ASSUME DeepCore, shadowDisk' \in {shadow, shadowDisk}, UNCHANGED <<shadow, rows, clock, lives>>
  PROVE  DeepCore' /\ DeepSteps
  <1>1. \A j \in Kinds : shadow[j].fires \in Nat /\ shadow[j].fires <= shadow[j].fires
    BY DEF DeepCore, DeepTypes, Blocks
  <1>2. \A j \in Kinds : Sound(shadow[j])' /\ Sound(shadowDisk[j])'
    BY DEF DeepCore, DeepTypes, Sound
  <1>3. DeepTypes'
    BY <1>1, <1>2 DEF DeepCore, DeepTypes
  <1>4. RowsInv'
    BY DEF DeepCore, RowsInv, Owed, Open, OfFire, OfKind
  <1> QED
    BY <1>3, <1>4, Standing DEF DeepCore

LEMMA ClockTicks ==
  ASSUME DeepCore, Deep!Tick
  PROVE  DeepCore' /\ DeepSteps
  <1>1. clock < HalfDays /\ clock' = clock + 1 /\ UNCHANGED <<shadow, shadowDisk, rows, lives>>
    BY DEF Deep!Tick
  <1>2. clock \in Nat /\ HalfDays \in Nat /\ lives \in 0..MaxKills
    BY ClockAndLives, DeepConstants DEF DeepCore, DeepTypes
  <1>3. Deep!DayOf(clock) \in Nat /\ Deep!DayOf(clock)' \in Nat /\ Deep!DayOf(clock) <= Deep!DayOf(clock)'
    BY <1>1, <1>2 DEF Deep!DayOf
  <1>5. \A j \in Kinds : Sound(shadow[j])' /\ Sound(shadowDisk[j])'
    <2> SUFFICES ASSUME NEW j \in Kinds PROVE Sound(shadow[j])' /\ Sound(shadowDisk[j])'
      OBVIOUS
    <2>1. Sound(shadow[j]) /\ Sound(shadowDisk[j]) /\ shadow'[j] = shadow[j] /\ shadowDisk'[j] = shadowDisk[j]
      BY <1>1 DEF DeepCore, DeepTypes
    <2>2. /\ shadow[j].day \in Nat /\ (Open(shadow[j]) => shadow[j].prediction.ts \in Nat)
          /\ shadowDisk[j].day \in Nat /\ (Open(shadowDisk[j]) => shadowDisk[j].prediction.ts \in Nat)
      BY <2>1 DEF Sound, Blocks, Predictions
    <2>3. Sound(shadow[j])'
      BY <1>1, <1>2, <1>3, <2>1, <2>2 DEF Sound, Open
    <2>4. Sound(shadowDisk[j])'
      BY <1>1, <1>2, <1>3, <2>1, <2>2 DEF Sound, Open
    <2> QED
      BY <2>3, <2>4
  <1>6. DeepTypes'
    BY <1>1, <1>2, <1>5 DEF DeepCore, DeepTypes
  <1>7. RowsInv'
    BY <1>1 DEF DeepCore, RowsInv, Owed, Open, OfFire, OfKind
  <1> QED
    BY <1>1, <1>6, <1>7, Standing DEF DeepCore

(* A crash brings the record on disk back, the ledger stays.                 *)
LEMMA CrashForgets ==
  ASSUME DeepCore, Deep!Crash
  PROVE  DeepCore' /\ DeepSteps
  <1>1. lives < MaxKills /\ lives' = lives + 1 /\ shadow' = shadowDisk /\ UNCHANGED <<shadowDisk, rows, clock>>
    BY DEF Deep!Crash
  <1>2. lives \in Nat /\ MaxKills \in Nat
    BY ClockAndLives, DeepConstants DEF DeepCore
  <1>3. /\ shadow \in [Kinds -> Blocks] /\ shadowDisk \in [Kinds -> Blocks]
        /\ \A j \in Kinds : Sound(shadow[j]) /\ Sound(shadowDisk[j]) /\ shadowDisk[j].fires <= shadow[j].fires
    BY DEF DeepCore, DeepTypes
  <1>4. \A j \in Kinds : shadow[j].fires \in Nat /\ shadowDisk[j].fires \in Nat
    BY <1>3 DEF Blocks
  <1>5. \A j \in Kinds : Sound(shadow[j])' /\ Sound(shadowDisk[j])'
    BY <1>1, <1>3 DEF Sound
  <1>6. DeepTypes'
    <2>1. lives' \in 0..MaxKills
      BY <1>1, <1>2
    <2>2. \A j \in Kinds : shadowDisk[j].fires <= shadowDisk[j].fires
      BY <1>4
    <2> QED
      BY <1>1, <1>3, <1>5, <2>1, <2>2 DEF DeepCore, DeepTypes
  <1>7. RowsInv'
    <2>1. ASSUME NEW j \in Kinds, NEW n \in Nat
          PROVE  Cardinality(OfFire(rows, j, n)) <= 1 + lives /\ Cardinality(OfFire(rows, j, n)) \in Nat
      <3>1. Cardinality(OfFire(rows, j, n)) + (IF Owed(shadow[j], n) THEN 1 ELSE 0) <= 1 + lives
        BY DEF DeepCore, RowsInv
      <3>2. Cardinality(OfFire(rows, j, n)) \in Nat
        BY RowCounts DEF DeepCore
      <3> QED
        BY <1>2, <3>1, <3>2
    <2>2. ASSUME NEW j \in Kinds, NEW n \in Nat
          PROVE  Cardinality(OfFire(rows, j, n)) + (IF Owed(shadow[j], n)' THEN 1 ELSE 0) <= 1 + lives'
      BY <1>1, <1>2, <2>1
    <2>3. \A j \in Kinds : \A n \in Nat : OfFire(rows, j, n)' = OfFire(rows, j, n)
      BY <1>1 DEF OfFire
    <2>4. lives' # 0
      BY <1>1, <1>2
    <2> QED
      BY <2>2, <2>3, <2>4 DEF RowsInv
  <1>8. DeepSteps
    <2>1. lives' # lives
      BY <1>1, <1>2
    <2>2. \A j \in Kinds : ~(shadow'[j].fires > shadow[j].fires)
      BY <1>1, <1>3, <1>4
    <2> QED
      BY <2>1, <2>2 DEF DeepSteps
  <1> QED
    BY <1>6, <1>7, <1>8 DEF DeepCore

LEMMA DeepBegins == Deep!Init => DeepCore
  <1> SUFFICES ASSUME Deep!Init PROVE DeepCore
    OBVIOUS
  <1> DEFINE b == [armed |-> TRUE, day |-> 0, beta |-> 0, tier |-> "observe", worse |-> "none", streak |-> 0,
                   asked |-> "observe", fires |-> 0, lost |-> 0, prediction |-> Deep!NoPrediction]
  <1>1. /\ shadow = [k \in Kinds |-> b] /\ shadowDisk = [k \in Kinds |-> b]
        /\ rows = <<>> /\ clock = 0 /\ lives = 0
    BY DEF Deep!Init, Deep!NewBlock
  <1>2. b \in Blocks /\ b.day = 0 /\ b.worse = "none" /\ b.streak = 0 /\ b.fires = 0 /\ b.lost = 0 /\ ~Open(b)
    BY DEF Blocks, Judgements, Deep!Tiers, Open
  <1> HIDE DEF b
  <1>3. HalfDays \in Nat /\ MaxKills \in Nat /\ MaxFires \in Nat
    BY DeepConstants
  <1>4. Sound(b)
    <2>1. Deep!DayOf(clock) = 1
      BY <1>1 DEF Deep!DayOf
    <2> QED
      BY <1>2, <1>3, <2>1 DEF Sound
  <1>5. \A k \in Kinds : shadow[k] = b /\ shadowDisk[k] = b
    BY <1>1
  <1>6. DeepTypes
    BY <1>1, <1>2, <1>3, <1>4, <1>5 DEF DeepTypes
  <1>7. \A k : \A n : OfKind(rows, k) = {} /\ OfFire(rows, k, n) = {}
    <2>1. Len(rows) = 0
      BY <1>1
    <2> QED
      BY <2>1 DEF OfKind, OfFire
  <1>8. RowsInv
    <2>1. Cardinality({}) = 0
      BY FS_EmptySet
    <2>2. \A k \in Kinds : \A n \in Nat :
            Cardinality(OfFire(rows, k, n)) + (IF Owed(shadow[k], n) THEN 1 ELSE 0) <= 1 + lives
      BY <1>1, <1>7, <2>1
    <2>3. \A k \in Kinds : Cardinality(OfKind(rows, k)) = 0
      BY <1>7, <2>1
    <2>4. \A k \in Kinds : shadow[k].fires = 0 /\ shadow[k].lost = 0 /\ ~Open(shadow[k])
      BY <1>2, <1>5
    <2> QED
      BY <2>2, <2>3, <2>4 DEF RowsInv
  <1> QED
    BY <1>6, <1>8 DEF DeepCore

LEMMA DeepMoves == DeepCore /\ [Deep!Next]_(Deep!svars) => DeepCore' /\ DeepSteps
  <1> SUFFICES ASSUME DeepCore, [Deep!Next]_(Deep!svars) PROVE DeepCore' /\ DeepSteps
    OBVIOUS
  <1>1. CASE Deep!BeatRead
    BY <1>1, BeatReadKeeps
  <1>2. CASE Deep!BeatDone
    BY <1>2, Saved DEF Deep!BeatDone
  <1>3. CASE Deep!OtherSave
    BY <1>3, Saved DEF Deep!OtherSave
  <1>4. CASE Deep!Tick \/ Deep!Crash
    BY <1>4, ClockTicks, CrashForgets
  <1>5. ASSUME NEW k \in Kinds, Deep!Clear(k) PROVE DeepCore' /\ DeepSteps
    BY <1>5, ClearKeeps
  <1>6. ASSUME NEW k \in Kinds, Deep!HeldBack(k) PROVE DeepCore' /\ DeepSteps
    BY <1>6, Saved DEF Deep!HeldBack
  <1>7. ASSUME NEW k \in Kinds, NEW s \in Strengths, Deep!TooWeak(k, s) PROVE DeepCore' /\ DeepSteps
    BY <1>7, TooWeakKeeps
  <1>8. ASSUME NEW k \in Kinds, NEW s \in Strengths, NEW q \in Qs, Deep!Fire(k, s, q) PROVE DeepCore' /\ DeepSteps
    BY <1>8, FireKeeps
  <1>9. ASSUME NEW y \in 0..1, Deep!UserTurn(y) PROVE DeepCore' /\ DeepSteps
    BY <1>9, TurnSettles
  <1>10. CASE UNCHANGED Deep!svars
    BY <1>10, Saved DEF Deep!svars
  <1> QED
    BY <1>1, <1>2, <1>3, <1>4, <1>5, <1>6, <1>7, <1>8, <1>9, <1>10 DEF Deep!Next

------------------------------------------------------------------------------
(* The window of the budget: a beat costs two calls or what the ensemble     *)
(* costs, and the window is over the quota by one ensemble at most.          *)
Dear == Deep!CallsFor(Hypotheses)

Budgeted ==
  /\ calls \in Seq({2, Dear}) /\ Len(calls) <= 5
  /\ Quota >= 2 /\ Len(calls) >= 1 => Deep!Total(calls) <= Len(calls) * Quota + Dear - Quota

LEMMA DearFacts == Dear \in 2..4 /\ (Hypotheses = 1 => Dear = 2) /\ Deep!CallsFor(1) = 2 /\ Quota \in Nat
  BY DeepConstants DEF Dear, Deep!CallsFor

(* The window slides: the oldest beat leaves, the newest enters. *)
LEMMA WindowSlides ==
  ASSUME Budgeted, NEW n \in {2, Dear}, calls' = Deep!Record(n)
  PROVE  /\ calls' \in Seq({2, Dear})
         /\ Len(calls) < 5 => /\ Len(calls') = Len(calls) + 1
                              /\ Deep!Total(calls') = Deep!Total(calls) + n
         /\ Len(calls) = 5 => /\ Len(calls') = 5
                              /\ Deep!Total(calls') = Deep!Total(calls) - calls[1] + n
  <1> DEFINE s == calls
             l == Len(s)
             h == Append(s, n)
             r == calls'
  <1>1. /\ s \in Seq({2, Dear}) /\ l \in Nat /\ l <= 5 /\ Dear \in Int
    BY DearFacts DEF Budgeted
  <1>2. h \in Seq({2, Dear}) /\ Len(h) = l + 1 /\ h[l + 1] = n /\ \A i \in 1..l : h[i] = s[i]
    BY <1>1
  <1>3. r = SubSeq(h, IF Len(h) > 5 THEN Len(h) - 4 ELSE 1, Len(h))
    BY DEF Deep!Record
  <1> HIDE DEF h, r, s, l
  <1>4. ASSUME l < 5
        PROVE  /\ calls' \in Seq({2, Dear}) /\ Len(calls') = l + 1
               /\ Deep!Total(calls') = Deep!Total(calls) + n
    <2>1. r = SubSeq(h, 1, l + 1)
      BY <1>1, <1>2, <1>3, <1>4
    <2>2. r \in Seq({2, Dear}) /\ Len(r) = l + 1 /\ \A i \in 1..(l + 1) : r[i] = h[i]
      BY <1>1, <1>2, <1>4, <2>1
    <2>3. r \in Seq(Int) /\ s \in Seq(Int) /\ Len(s) = l
      BY <1>1, <2>2 DEF l
    <2>4. r[l + 1] = n /\ \A i \in 1..l : r[i] = s[i] /\ s[i] \in Int
      BY <1>1, <1>2, <2>2, <2>3
    <2>6. Summed(r, Deep!Total(r)) /\ Summed(s, Deep!Total(s)) /\ n \in Int
      BY <1>1, <1>4, <2>2, <2>3, Unfolded
    <2>5. Deep!Total(r) = Deep!Total(s) + n
      <3>1. CASE l = 0
        <4>1. r[1] = n
          BY <2>4, <3>1
        <4> QED
          BY <1>1, <2>2, <2>3, <2>6, <3>1, <4>1 DEF Summed
      <3>2. CASE l = 1
        <4>1. r[1] = s[1] /\ r[2] = n /\ s[1] \in Int
          BY <2>4, <3>2
        <4> QED
          BY <1>1, <2>2, <2>3, <2>6, <3>2, <4>1 DEF Summed
      <3>3. CASE l = 2
        <4>1. r[1] = s[1] /\ r[2] = s[2] /\ r[3] = n /\ s[1] \in Int /\ s[2] \in Int
          BY <2>4, <3>3
        <4> QED
          BY <1>1, <2>2, <2>3, <2>6, <3>3, <4>1 DEF Summed
      <3>4. CASE l = 3
        <4>1. r[1] = s[1] /\ r[2] = s[2] /\ r[3] = s[3] /\ r[4] = n /\ s[1] \in Int /\ s[2] \in Int /\ s[3] \in Int
          BY <2>4, <3>4
        <4> QED
          BY <1>1, <2>2, <2>3, <2>6, <3>4, <4>1 DEF Summed
      <3>5. CASE l = 4
        <4>1. /\ r[1] = s[1] /\ r[2] = s[2] /\ r[3] = s[3] /\ r[4] = s[4] /\ r[5] = n
              /\ s[1] \in Int /\ s[2] \in Int /\ s[3] \in Int /\ s[4] \in Int
          BY <2>4, <3>5
        <4> QED
          BY <1>1, <2>2, <2>3, <2>6, <3>5, <4>1 DEF Summed
      <3> QED
        BY <1>1, <1>4, <3>1, <3>2, <3>3, <3>4, <3>5
    <2> QED
      BY <1>4, <2>2, <2>5, Zenon DEF l, r, s
  <1>5. ASSUME l = 5
        PROVE  /\ calls' \in Seq({2, Dear}) /\ Len(calls') = 5
               /\ Deep!Total(calls') = Deep!Total(calls) - calls[1] + n
    <2>1. Len(h) = 6 /\ r = SubSeq(h, 2, 6)
      BY <1>2, <1>3, <1>5
    <2>2. r \in Seq({2, Dear}) /\ Len(r) = 5 /\ \A i \in 1..5 : r[i] = h[i + 1]
      <3>1. h \in Seq({2, Dear})
        BY <1>2
      <3>0. DOMAIN h = 1..6
        BY <2>1, <3>1
      <3>2. \A i \in 2..6 : h[i] \in {2, Dear}
        <4>1. \A i \in 2..6 : i \in DOMAIN h
          BY <3>0
        <4> QED
          BY <3>1, <4>1
      <3>3. r \in Seq({2, Dear})
        BY <2>1, <3>1, <3>2
      <3>4. Len(r) = 6 - 2 + 1 /\ \A i \in 1..5 : r[i] = h[2 + i - 1]
        BY <2>1, <3>1
      <3> QED
        BY <3>3, <3>4
    <2>3. r \in Seq(Int) /\ s \in Seq(Int) /\ Len(s) = 5
      BY <1>1, <1>5, <2>2 DEF l
    <2>4. /\ r[1] = s[2] /\ r[2] = s[3] /\ r[3] = s[4] /\ r[4] = s[5] /\ r[5] = n
      BY <1>2, <1>5, <2>2
    <2>5. s[1] \in Int /\ s[2] \in Int /\ s[3] \in Int /\ s[4] \in Int /\ s[5] \in Int /\ n \in Int
      <3>1. s \in [1..5 -> Int]
        BY <2>3
      <3> QED
        BY <1>1, <3>1
    <2>6. Deep!Total(s) = s[1] + s[2] + s[3] + s[4] + s[5]
      <3>0. Len(s) <= 5
        BY Zenon DEF Budgeted, s
      <3>1. Summed(s, Deep!Total(s))
        BY <2>3, <3>0, Unfolded
      <3> QED
        BY <2>3, <3>1 DEF Summed
    <2>7. Deep!Total(r) = r[1] + r[2] + r[3] + r[4] + r[5]
      <3>0. Len(r) <= 5
        <4>1. 5 <= 5
          OBVIOUS
        <4> QED
          BY <2>2, <4>1, Zenon
      <3>1. Summed(r, Deep!Total(r))
        BY <2>3, <3>0, Unfolded
      <3> QED
        BY <2>2, <3>1 DEF Summed
    <2>8. Deep!Total(r) = Deep!Total(s) - s[1] + n
      BY <2>4, <2>5, <2>6, <2>7
    <2> QED
      BY <1>5, <2>2, <2>8, Zenon DEF l, r, s
  <1>6. l < 5 \/ l = 5
    BY <1>1
  <1>7. /\ calls' \in Seq({2, Dear})
        /\ l < 5 => Len(calls') = l + 1 /\ Deep!Total(calls') = Deep!Total(calls) + n
        /\ l = 5 => Len(calls') = 5 /\ Deep!Total(calls') = Deep!Total(calls) - calls[1] + n
    <2>1. ~(l < 5 /\ l = 5)
      BY <1>1
    <2> QED
      BY <1>4, <1>5, <1>6, <2>1, Zenon DEF l, s
  <1> QED
    BY <1>7, Zenon DEF l, s

(* Five beats that are not over the quota leave room for an ensemble once    *)
(* the first of them is gone: costs are two, three or four.                  *)
LEMMA RoomForOne ==
  ASSUME NEW a \in {2, Dear}, NEW b \in {2, Dear}, NEW c \in {2, Dear}, NEW d \in {2, Dear}, NEW e \in {2, Dear},
         Quota >= 2, a + b + c + d + e <= 5 * Quota
  PROVE  b + c + d + e <= 4 * Quota
  <1>1. Quota \in Nat /\ Dear \in {2, 3, 4}
    BY DearFacts
  <1>2. CASE Quota >= 4
    BY <1>1, <1>2
  <1>3. CASE Quota = 2
    BY <1>1, <1>3
  <1>4. CASE Quota = 3
    <2>1. CASE Dear = 2 \/ Dear = 3
      BY <1>4, <2>1
    <2>2. CASE Dear = 4
      BY <1>4, <2>2
    <2> QED
      BY <1>1, <2>1, <2>2
  <1> QED
    BY <1>1, <1>2, <1>3, <1>4

LEMMA BudgetKept ==
  ASSUME Budgeted, Deep!BeatRead
  PROVE  Budgeted'
  <1> DEFINE n == Deep!CallsFor(IF Deep!Degraded THEN 1 ELSE Hypotheses)
             t == Deep!Total(calls)
             l == Len(calls)
  <1>1. calls' = Deep!Record(n)
    BY DEF Deep!BeatRead
  <1>2. n = IF Deep!Degraded THEN 2 ELSE Dear
    BY DearFacts DEF Dear
  <1>3. Deep!Degraded <=> Hypotheses > 1 /\ l # 0 /\ t > Quota * l
    BY DEF Deep!Degraded, Budgeted
  <1>4. calls \in Seq({2, Dear}) /\ l \in Nat /\ l <= 5 /\ Quota \in Nat /\ Dear \in 2..4 /\ Hypotheses \in 1..3
    BY DearFacts, DeepConstants DEF Budgeted
  <1>5. n \in {2, Dear}
    BY <1>2
  <1>6. Quota >= 2 /\ l >= 1 => t <= l * Quota + Dear - Quota
    BY DEF Budgeted
  <1> HIDE DEF n
  <1>7. /\ calls' \in Seq({2, Dear})
        /\ l < 5 => Len(calls') = l + 1 /\ Deep!Total(calls') = t + n
        /\ l = 5 => Len(calls') = 5 /\ Deep!Total(calls') = t - calls[1] + n
    BY <1>1, <1>5, WindowSlides
  <1>8. calls \in Seq(Int) /\ \A i \in 1..l : calls[i] \in {2, Dear}
    BY <1>4
  <1>9. Summed(calls, t) /\ Dear \in Int
    BY <1>4, <1>8, Unfolded
  <1> DEFINE m == Len(calls')
             u == Deep!Total(calls')
  <1>10. /\ l < 5 => m = l + 1 /\ u = t + n
         /\ l = 5 => m = 5 /\ u = t - calls[1] + n
    BY <1>7
  <1>11. /\ l = 0 => t = 0
         /\ l = 1 => t = calls[1]
         /\ l = 2 => t = calls[1] + calls[2]
         /\ l = 3 => t = calls[1] + calls[2] + calls[3]
         /\ l = 4 => t = calls[1] + calls[2] + calls[3] + calls[4]
         /\ l = 5 => t = calls[1] + calls[2] + calls[3] + calls[4] + calls[5]
    BY <1>9, Zenon DEF Summed
  <1> HIDE DEF l, t, m, u
  <1>12. l \in {0, 1, 2, 3, 4, 5}
    BY <1>4
  <1>13. \A i \in 1..l : calls[i] \in Int
    BY <1>8, <1>9
  <1>14. t \in Int
    <2>1. /\ l >= 1 => calls[1] \in Int
          /\ l >= 2 => calls[2] \in Int
          /\ l >= 3 => calls[3] \in Int
          /\ l >= 4 => calls[4] \in Int
          /\ l >= 5 => calls[5] \in Int
      BY <1>12, <1>13
    <2>2. CASE l = 0 \/ l = 1 \/ l = 2
      BY <1>11, <2>1, <2>2
    <2>3. CASE l = 3 \/ l = 4 \/ l = 5
      BY <1>11, <2>1, <2>3
    <2> QED
      BY <1>12, <2>2, <2>3
  <1>15. m <= 5
    BY <1>4, <1>10
  <1>16. ASSUME Quota >= 2
         PROVE  u <= m * Quota + Dear - Quota
    <2>1. CASE l = 0
      <3>1. t = 0 /\ m = 1 /\ u = t + n
        BY <1>10, <1>11, <2>1
      <3>2. n \in Int /\ n <= Dear
        BY <1>4, <1>5
      <3> QED
        BY <1>4, <3>1, <3>2
    <2>2. CASE l >= 1 /\ l < 5
      <3>1. (l + 1) * Quota = l * Quota + Quota /\ l * Quota \in Int
        BY <1>4
      <3>2. t + n <= l * Quota + Dear
        BY <1>2, <1>3, <1>4, <1>6, <1>14, <1>16, <2>2, <3>1, DearFacts
      <3> QED
        BY <1>4, <1>5, <1>10, <1>14, <2>2, <3>1, <3>2
    <2>3. CASE l = 5
      <3>1. /\ calls[1] \in {2, Dear} /\ calls[2] \in {2, Dear} /\ calls[3] \in {2, Dear}
            /\ calls[4] \in {2, Dear} /\ calls[5] \in {2, Dear}
            /\ t = calls[1] + calls[2] + calls[3] + calls[4] + calls[5]
        BY <1>8, <1>11, <2>3
      <3>2. t <= 4 * Quota + Dear
        BY <1>4, <1>6, <1>16, <2>3
      <3>3. CASE n = 2
        BY <1>4, <1>10, <1>14, <2>3, <3>1, <3>2, <3>3
      <3>4. CASE n = Dear /\ t <= 5 * Quota
        <4>1. calls[2] + calls[3] + calls[4] + calls[5] <= 4 * Quota
          BY <1>16, <3>1, <3>4, RoomForOne
        <4>0. /\ calls[1] \in Int /\ calls[2] \in Int /\ calls[3] \in Int /\ calls[4] \in Int /\ calls[5] \in Int
              /\ Dear \in Int /\ Quota \in Int
          BY <1>4, <1>9, <3>1
        <4> DEFINE a1 == calls[1]
                   a2 == calls[2]
                   a3 == calls[3]
                   a4 == calls[4]
                   a5 == calls[5]
        <4>6. m = 5 /\ u = t - a1 + Dear /\ t = a1 + a2 + a3 + a4 + a5
          BY <1>10, <2>3, <3>1, <3>4
        <4>7. a1 \in Int /\ a2 \in Int /\ a3 \in Int /\ a4 \in Int /\ a5 \in Int
          BY <4>0
        <4> HIDE DEF a1, a2, a3, a4, a5
        <4>2. m = 5 /\ u = a2 + a3 + a4 + a5 + Dear
          BY <4>0, <4>6, <4>7
        <4> DEFINE v == a2 + a3 + a4 + a5
        <4>8. v <= 4 * Quota
          BY <4>1 DEF a2, a3, a4, a5
        <4>3. v \in Int /\ u = v + Dear
          BY <4>0, <4>2, <4>7
        <4> HIDE DEF v
        <4> QED
          BY <4>0, <4>2, <4>3, <4>8
      <3> QED
        BY <1>2, <1>3, <1>4, <1>14, <2>3, <3>3, <3>4, DearFacts
    <2> QED
      BY <1>4, <2>1, <2>2, <2>3
  <1> QED
    BY <1>7, <1>15, <1>16, Zenon DEF Budgeted, m, u

------------------------------------------------------------------------------
LEMMA ConcernInvariant == Spec => []ConInv
  <1>1. Init => ConInv
    BY ConcernBegins DEF Init
  <1>2. ConInv /\ [Next]_vars => ConInv'
    BY PartSteps, ConcernStep
  <1> QED
    BY <1>1, <1>2, PTL DEF Spec

LEMMA BudgetBegins == Deep!Init => Budgeted
  <1> SUFFICES ASSUME Deep!Init PROVE Budgeted
    OBVIOUS
  <1>1. calls = <<>>
    BY DEF Deep!Init
  <1> QED
    BY <1>1 DEF Budgeted

LEMMA BudgetStep == Budgeted /\ [Deep!Next]_(Deep!svars) => Budgeted'
  <1> SUFFICES ASSUME Budgeted, [Deep!Next]_(Deep!svars) PROVE Budgeted'
    OBVIOUS
  <1>1. CASE Deep!BeatRead
    BY <1>1, BudgetKept
  <1>2. CASE calls' = <<>>
    BY <1>2 DEF Budgeted
  <1>3. CASE calls' = calls
    BY <1>3 DEF Budgeted
  <1>4. Deep!BeatRead \/ calls' = <<>> \/ calls' = calls
    BY DEF Deep!Next, Deep!svars, Deep!BeatDone, Deep!OtherSave, Deep!Tick, Deep!Crash, Deep!Clear,
           Deep!HeldBack, Deep!TooWeak, Deep!Fire, Deep!UserTurn
  <1> QED
    BY <1>1, <1>2, <1>3, <1>4

LEMMA DeepInvariant == Spec => [](DeepCore /\ Budgeted)
  <1>1. Init => DeepCore /\ Budgeted
    BY DeepBegins, BudgetBegins DEF Init
  <1>2. DeepCore /\ Budgeted /\ [Next]_vars => (DeepCore /\ Budgeted)'
    <2>1. [Next]_vars => [Deep!Next]_(Deep!svars)
      BY PartSteps
    <2> QED
      BY <2>1, DeepMoves, BudgetStep
  <1> QED
    BY <1>1, <1>2, PTL DEF Spec

LEMMA ConcernsAreBounded ==
  ASSUME ConInv
  PROVE  Con!InjectionBounded /\ Con!HighAgrees
  <1>1. ASSUME NEW t \in Con!Types
        PROVE  injections[t] <= 1 + faults
    <2>1. injections[t] <= faults + IF Known(t) THEN 1 ELSE 0
      BY DEF ConInv, Spent
    <2>2. injections[t] \in Nat /\ faults \in Nat
      BY Constants DEF ConInv, ConTypes, Con!ConcernAssumption
    <2> QED
      BY <2>1, <2>2
  <1>2. Con!HighAgrees
    BY DEF ConInv, Agrees, OnRecord, Con!HighAgrees
  <1> QED
    BY <1>1, <1>2 DEF Con!InjectionBounded

LEMMA LedgerIsKept ==
  ASSUME DeepCore, Budgeted
  PROVE  Deep!SettledOnceEach /\ Deep!Accounted /\ Deep!WithinQuota
  <1>1. ASSUME NEW k \in Kinds, NEW n \in 1..MaxFires
        PROVE  Deep!Cardinality(Deep!RowsFor(k, n)) <= 1 + lives
    <2>1. n \in Nat /\ lives \in Nat
      BY DeepConstants, ClockAndLives DEF DeepCore
    <2>2. Cardinality(OfFire(rows, k, n)) + (IF Owed(shadow[k], n) THEN 1 ELSE 0) <= 1 + lives
      BY <2>1 DEF DeepCore, RowsInv
    <2>3. Cardinality(OfFire(rows, k, n)) \in Nat
      BY <2>1, RowCounts DEF DeepCore
    <2>4. Deep!Cardinality(Deep!RowsFor(k, n)) = Cardinality(OfFire(rows, k, n))
      BY SameCardinality DEF Deep!RowsFor, OfFire
    <2> QED
      BY <2>1, <2>2, <2>3, <2>4
  <1>2. ASSUME NEW k \in Kinds, lives = 0
        PROVE  shadow[k].fires = shadow[k].lost + Deep!Cardinality({i \in 1..Len(rows) : rows[i].kind = k})
                                 + IF shadow[k].prediction = Deep!NoPrediction THEN 0 ELSE 1
    <2>1. shadow[k].fires = shadow[k].lost + Cardinality(OfKind(rows, k)) + IF Open(shadow[k]) THEN 1 ELSE 0
      BY <1>2 DEF DeepCore, RowsInv
    <2>2. Deep!Cardinality({i \in 1..Len(rows) : rows[i].kind = k}) = Cardinality(OfKind(rows, k))
      BY SameCardinality DEF OfKind
    <2> QED
      BY <2>1, <2>2 DEF Open
  <1>3. ASSUME Len(calls) = 5, Quota >= Deep!CallsFor(1)
        PROVE  Deep!Total(calls) <= 5 * Quota + Deep!CallsFor(Hypotheses) - Quota
    <2>1. Quota >= 2
      BY <1>3, DearFacts
    <2>2. Deep!Total(calls) <= Len(calls) * Quota + Dear - Quota
      <3>1. 5 >= 1
        OBVIOUS
      <3> QED
        BY <1>3, <2>1, <3>1 DEF Budgeted
    <2> QED
      BY <1>3, <2>2 DEF Dear
  <1> QED
    BY <1>1, <1>2, <1>3 DEF Deep!SettledOnceEach, Deep!Accounted, Deep!WithinQuota

(* The engine is told of a concern once a day and the day pays for it once;  *)
(* a prediction is settled once, none is lost, the beats keep to the budget; *)
(* and the shadow hears what the engine hears: but for crashes and failures. *)
THEOREM TheShadowIsKept == Spec => []ShadowKept
  <1>1. HearInv => HearingKept
    BY HearingIsKept
  <1>2. ConInv /\ (DeepCore /\ Budgeted) /\ HearInv => ShadowKept
    BY <1>1, ConcernsAreBounded, LedgerIsKept DEF ShadowKept, HearingKept
  <1> QED
    BY <1>2, ConcernInvariant, DeepInvariant, HearingInvariant, PTL

(* A detector fires once a day, and its gate closes further only after two   *)
(* judgements in a row: whatever is saved, killed or settled in between.     *)
THEOREM TheShadowStepsFairly == Spec => ShadowSteps
  <1>1. DeepCore /\ [Next]_vars =>
          [\A k \in Kinds : shadow'[k].fires > shadow[k].fires =>
             shadow[k].fires = 0 \/ shadow[k].day < Deep!DayOf(clock)]_(Deep!svars)
    <2>1. [Next]_vars => [Deep!Next]_(Deep!svars)
      BY PartSteps
    <2> QED
      BY <2>1, DeepMoves DEF DeepSteps
  <1>2. DeepCore /\ [Next]_vars =>
          [lives' = lives => \A k \in Kinds :
             LET old == shadow[k] new == shadow'[k]
             IN old.tier # "observe" /\ new.tier # "observe" /\ Deep!Severity[new.tier] > Deep!Severity[old.tier]
                  => old.asked = new.tier /\ new.asked = new.tier]_(Deep!svars)
    <2>1. [Next]_vars => [Deep!Next]_(Deep!svars)
      BY PartSteps
    <2> QED
      BY <2>1, DeepMoves DEF DeepSteps, Earned
  <1>3. Spec => Deep!OncePerDay
    BY <1>1, DeepInvariant, PTL DEF Spec, Deep!OncePerDay
  <1>4. Spec => Deep!TierEarned
    BY <1>2, DeepInvariant, PTL DEF Spec, Deep!TierEarned
  <1> QED
    BY <1>3, <1>4 DEF ShadowSteps
==============================================================================
