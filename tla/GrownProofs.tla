------------------------------ MODULE GrownProofs ------------------------------
(* Proofs about what she wishes and how she ages: the field of her needs,   *)
(* the deep intrinsic, the deep finitude and its book.                      *)
EXTENDS Grown, FiniteSetTheorems, WellFoundedInduction, SequenceTheorems, TLAPS

------------------------------------------------------------------------------
(* Induction, from the order of the natural numbers having no descent.       *)

LEMMA LeastNat ==
  ASSUME NEW T \in SUBSET Nat, T # {}
  PROVE  \E m \in T : \A k \in T : m <= k
  <1> DEFINE R == {ss \in Nat \X Nat : ss[1] < ss[2]}
  <1>1. IsWellFoundedOn(R, Nat)
    BY NatLessThanWellFounded DEF OpToRel
  <1>2. \E x \in T : \A y \in T : <<y, x>> \notin R
    <2> HIDE DEF R
    <2> QED
      BY <1>1, WFMin
  <1>3. PICK x \in T : \A y \in T : <<y, x>> \notin R
    BY <1>2
  <1>4. ASSUME NEW k \in T PROVE x <= k
    <2>1. x \in Nat /\ k \in Nat /\ <<k, x>> \notin R
      BY <1>3, <1>4
    <2>2. ~(k < x)
      BY <2>1 DEF R
    <2> QED
      BY <2>1, <2>2
  <1> QED
    BY <1>4

LEMMA Induction ==
  ASSUME NEW T, 0 \in T, \A n \in Nat : n \in T => n + 1 \in T
  PROVE  Nat \subseteq T
  <1> DEFINE C == {n \in Nat : n \notin T}
  <1> SUFFICES ASSUME C # {} PROVE FALSE
    OBVIOUS
  <1>1. PICK m \in C : \A k \in C : m <= k
    <2> HIDE DEF C
    <2> QED
      BY LeastNat, C \in SUBSET Nat DEF C
  <1>2. m \in Nat /\ m # 0 /\ m \notin T
    BY <1>1
  <1>3. m - 1 \in Nat /\ m - 1 \notin C
    BY <1>1, <1>2
  <1>4. (m - 1) + 1 \in T
    BY <1>3
  <1> QED
    BY <1>2, <1>4

(* What is bounded has a greatest element.                                   *)
LEMMA GreatestBelow ==
  ASSUME NEW n \in Nat, NEW T \in SUBSET (0..n), T # {}
  PROVE  \E m \in T : \A k \in T : k <= m
  <1> DEFINE D == {n - k : k \in T}
  <1>1. D \in SUBSET Nat /\ D # {}
    <2>1. \A k \in T : k \in 0..n
      OBVIOUS
    <2>2. \A k \in 0..n : n - k \in Nat
      OBVIOUS
    <2> QED
      BY <2>1, <2>2
  <1>2. PICK d \in D : \A k \in D : d <= k
    <2> HIDE DEF D
    <2> QED
      BY <1>1, LeastNat
  <1>3. PICK m \in T : d = n - m
    BY <1>2
  <1>4. ASSUME NEW k \in T PROVE k <= m
    <2>1. n - m <= n - k
      BY <1>2, <1>3
    <2> QED
      BY <2>1
  <1> QED
    BY <1>4

(* ... the one that Max chooses.                                             *)
LEMMA Greatest ==
  ASSUME NEW n \in Nat, NEW T \in SUBSET (0..n), T # {}
  PROVE  LET m == CHOOSE x \in T : \A y \in T : x >= y
         IN m \in T /\ (\A k \in T : k <= m)
  <1>1. PICK m \in T : \A k \in T : k <= m
    BY GreatestBelow
  <1>2. \A k \in T : k \in Nat
    OBVIOUS
  <1>3. \A k \in T : m >= k
    BY <1>1, <1>2
  <1> DEFINE c == CHOOSE x \in T : \A y \in T : x >= y
  <1>4. c \in T /\ (\A y \in T : c >= y)
    BY <1>3, Zenon
  <1> HIDE DEF c
  <1>5. \A k \in T : k <= c
    BY <1>2, <1>4
  <1> QED
    BY <1>4, <1>5 DEF c

------------------------------------------------------------------------------
(* The field of her needs. *)

FieldInv ==
  /\ wall \in Nat /\ felt.beats \in Nat
  /\ fieldTs \in Int /\ (fieldTs = Field!None \/ fieldTs > 0)
  /\ Field!FieldLagBounded

LEMMA FieldMoves ==
  ASSUME NEW gap, Field!Advance(gap), fieldTs # Field!None, wall' - fieldTs \in Int
  PROVE  fieldTs' = IF wall' - fieldTs <= 0 THEN fieldTs
                    ELSE IF wall' - fieldTs <= 2 * Field!Interval
                         THEN Field!Stepped(fieldTs, wall' - fieldTs)
                         ELSE Field!CaughtUp(fieldTs, wall' - fieldTs)
  <1> DEFINE E == wall' - fieldTs
  <1>1. CASE E <= 0
    BY <1>1 DEF Field!Advance
  <1>2. CASE E > 0 /\ E <= 2 * Field!Interval
    BY <1>2 DEF Field!Advance, Field!Interval, Field!Second
  <1>3. CASE E > 2 * Field!Interval
    BY <1>3 DEF Field!Advance, Field!Interval, Field!Second
  <1> QED
    BY <1>1, <1>2, <1>3 DEF Field!Interval, Field!Second

LEMMA FieldStep == FieldInv /\ [Field!Next]_fvars => FieldInv'
  <1> SUFFICES ASSUME FieldInv, [Field!Next]_fvars PROVE FieldInv'
    OBVIOUS
  <1>1. CASE UNCHANGED fvars
    BY <1>1 DEF fvars, FieldInv, Field!FieldLagBounded
  <1>2. ASSUME NEW gap \in Gaps, Field!Advance(gap) PROVE FieldInv'
    <2>1. gap \in Nat \ {0} /\ MaxCatchup \in Nat \ {0}
      BY GrownConstants DEF Field!FieldClockAssumption
    <2>2. wall' = wall + gap * 3600
      BY <1>2 DEF Field!Advance, Field!Interval, Field!Second
    <2> PICK v \in Nat : v = wall
      BY DEF FieldInv
    <2>3. PICK w \in Nat : w = wall' /\ w > 0 /\ w >= v
      BY <2>1, <2>2
    <2>31. w > 0 /\ w >= v
      BY <2>3
    <2>4. felt'.beats \in Nat
      BY <1>2 DEF Field!Advance, FieldInv
    <2>5. PICK lag \in Nat : lag = (IF MaxCatchup < 2 THEN 2 ELSE MaxCatchup) * 3600
      BY <2>1
    <2>6. lag >= 7200 /\ lag >= MaxCatchup * 3600
      BY <2>1, <2>5
    <2>7. \E t \in Nat : t = fieldTs' /\ t > 0 /\ t <= w /\ w - t <= lag
      <3>1. CASE fieldTs = Field!None
        <4>1. fieldTs' = wall'
          BY <1>2, <3>1, Zenon DEF Field!Advance
        <4>2. w > 0 /\ w <= w /\ w - w <= lag
          BY <2>31, <2>5
        <4> QED
          BY <4>1, <4>2, <2>3, Zenon
      <3>2. CASE fieldTs # Field!None
        <4>1. PICK f \in Nat : f = fieldTs /\ f > 0 /\ f <= v /\ v - f <= lag
          BY <3>2, <2>5 DEF FieldInv, Field!FieldLagBounded, Field!Interval, Field!Second
        <4>20. f <= v
          BY <4>1
        <4>2. PICK e \in Nat : e = w - f
          BY <4>20, <2>31
        <4>3. e = wall' - fieldTs /\ wall' - fieldTs \in Int
          BY <4>1, <4>2, <2>3
        <4>4. PICK q \in Nat : q = (e * 60) \div 3600 /\ q <= e
          OBVIOUS
        <4>5. PICK m \in Nat : m = MaxCatchup * 3600
          BY <2>1
        <4>6. PICK r \in Nat : r = MaxCatchup * 60 /\ r <= m
          BY <2>1, <4>5
        <4>7. Field!Stepped(fieldTs, e) = f + q
          BY <4>1, <4>4 DEF Field!Stepped, Field!Interval, Field!Second
        <4>8. Field!CaughtUp(fieldTs, e) = IF e <= m THEN f + q ELSE f + (e - m) + r
          BY <4>1, <4>5, <4>6, <4>7 DEF Field!CaughtUp, Field!Interval, Field!Second
        <4>9. fieldTs' = IF e <= 0 THEN f
                         ELSE IF e <= 7200 \/ e <= m THEN f + q ELSE f + (e - m) + r
          BY <4>1, <4>3, <4>7, <4>8, <1>2, <3>2, FieldMoves DEF Field!Interval, Field!Second
        <4>10. f + e = w
          BY <4>2
        <4>11. CASE e <= 0
          BY <4>1, <4>9, <4>10, <4>11
        <4>12. CASE e > 0 /\ (e <= 7200 \/ e <= m)
          <5>1. fieldTs' = f + q
            BY <4>9, <4>12
          <5> QED
            BY <5>1, <4>1, <4>4, <4>5, <4>10, <4>12, <2>6
        <4>13. CASE e > 0 /\ ~(e <= 7200 \/ e <= m)
          <5>1. fieldTs' = f + (e - m) + r /\ e - m \in Nat
            BY <4>9, <4>13
          <5> QED
            BY <5>1, <4>1, <4>5, <4>6, <4>10, <4>13, <2>6
        <4> QED
          BY <4>11, <4>12, <4>13
      <3> QED
        BY <3>1, <3>2
    <2>8. PICK t \in Nat : t = fieldTs' /\ t > 0 /\ t <= w /\ w - t <= lag
      BY <2>7
    <2>9. Field!FieldLagBounded'
      <3>0. t <= w
        BY <2>8
      <3>1. 0 <= w - t
        BY <3>0
      <3>11. 0 <= wall' - fieldTs'
        BY <3>1, <2>3, <2>8, Zenon
      <3>2. wall' - fieldTs' <= (IF MaxCatchup < 2 THEN 2 ELSE MaxCatchup) * 3600
        BY <2>3, <2>5, <2>8
      <3> QED
        BY <3>11, <3>2 DEF Field!FieldLagBounded, Field!Interval, Field!Second
    <2> QED
      BY <2>3, <2>4, <2>8, <2>9 DEF FieldInv
  <1> QED
    BY <1>1, <1>2 DEF Field!Next

LEMMA FieldBegins == Field!Init => FieldInv
  BY DEF Field!Init, FieldInv, Field!FieldLagBounded, Field!None
------------------------------------------------------------------------------
LEMMA SameGate ==
  ASSUME NEW s, NEW reach \in BOOLEAN
  PROVE  (~Wants!Threshold(s, reach))
           = (~(s.contact >= 60 /\ s.expression >= 45) /\ s.action # "reach_out" /\ ~reach)
  BY Zenon DEF Wants!Threshold

(* The verdict of the gates, by what the one for the trigger says.           *)
Verdict(s, d, silenced, gate) ==
  LET why == Wants!First(<<
        <<"p0",           silenced>>,
        <<"no_trigger",   gate>>,
        <<"pressure",     s.pressure >= 70>>,
        <<"quiet_need",   s.quiet >= 50>>,
        <<"budget",       s.budget < 30>>,
        <<"dormant",      s.phase = "dormant">>,
        <<"guard_frozen", d.frozen>>,
        <<"unanswered",   d.streak >= 2>>,
        <<"daily_cap",    d.sent >= Wants!CapOf(CapBase)>>,
        <<"min_gap",      d.last = hour.at>>,
        <<"quiet_hours",  Wants!Quiet>>,
        <<"night_done",   Wants!Window /\ d.night>> >>)
  IN [send |-> why = "open", why |-> why,
      occasion |-> IF why # "open" THEN "none"
                   ELSE IF Wants!Window THEN "contact_night" ELSE "contact_seek"]

LEMMA ThresholdHolds == Wants!ThresholdIsCore
  <1> SUFFICES ASSUME NEW s \in Surfaces, NEW reach \in BOOLEAN, NEW silenced \in BOOLEAN
               PROVE  Wants!ApplyGates(Wants!Threshold(s, reach), s, mind.daily, silenced)
                        = Wants!Core(s, mind.daily, reach, silenced)
    BY Zenon DEF Wants!ThresholdIsCore
  <1>1. (~Wants!Threshold(s, reach))
           = (~(s.contact >= 60 /\ s.expression >= 45) /\ s.action # "reach_out" /\ ~reach)
    BY SameGate
  <1>2. Wants!ApplyGates(Wants!Threshold(s, reach), s, mind.daily, silenced)
          = Verdict(s, mind.daily, silenced, ~Wants!Threshold(s, reach))
    BY Zenon DEF Wants!ApplyGates, Verdict
  <1>3. Wants!Core(s, mind.daily, reach, silenced)
          = Verdict(s, mind.daily, silenced,
                    ~(s.contact >= 60 /\ s.expression >= 45) /\ s.action # "reach_out" /\ ~reach)
    BY Zenon DEF Wants!Core, Verdict
  <1> QED
    BY <1>1, <1>2, <1>3, Zenon

------------------------------------------------------------------------------
(* What may be sent has passed every gate.                                   *)
LEMMA FirstOpen ==
  ASSUME NEW gates, DOMAIN gates \subseteq Nat,
         \A i \in DOMAIN gates : gates[i][1] # "open", Wants!First(gates) = "open"
  PROVE  \A i \in DOMAIN gates : ~gates[i][2]
  <1> DEFINE shut == {i \in DOMAIN gates : gates[i][2]}
  <1> SUFFICES ASSUME shut # {} PROVE FALSE
    OBVIOUS
  <1>1. Wants!Min(shut) \in shut
    <2> HIDE DEF shut
    <2>1. \E m \in shut : \A k \in shut : m <= k
      BY LeastNat, shut \in SUBSET Nat DEF shut
    <2> QED
      BY <2>1 DEF Wants!Min
  <1>2. Wants!First(gates) = gates[Wants!Min(shut)][1]
    BY DEF Wants!First
  <1> QED
    BY <1>1, <1>2

LEMMA VerdictThrough ==
  ASSUME NEW gate, NEW s, NEW d, NEW silenced, Verdict(s, d, silenced, gate).send
  PROVE  ~gate /\ ~(d.streak >= 2) /\ ~(d.sent >= Wants!CapOf(CapBase)) /\ d.last # hour.at
  <1> DEFINE gates == <<
        <<"p0",           silenced>>,
        <<"no_trigger",   gate>>,
        <<"pressure",     s.pressure >= 70>>,
        <<"quiet_need",   s.quiet >= 50>>,
        <<"budget",       s.budget < 30>>,
        <<"dormant",      s.phase = "dormant">>,
        <<"guard_frozen", d.frozen>>,
        <<"unanswered",   d.streak >= 2>>,
        <<"daily_cap",    d.sent >= Wants!CapOf(CapBase)>>,
        <<"min_gap",      d.last = hour.at>>,
        <<"quiet_hours",  Wants!Quiet>>,
        <<"night_done",   Wants!Window /\ d.night>> >>
  <1>1. Wants!First(gates) = "open"
    BY DEF Verdict
  <1>2. DOMAIN gates = 1..12
    OBVIOUS
  <1>3. \A i \in 1..12 : gates[i][1] # "open"
    OBVIOUS
  <1>4. \A i \in 1..12 : ~gates[i][2]
    <2> HIDE DEF gates
    <2> QED
      BY <1>1, <1>2, <1>3, FirstOpen
  <1>5. ~gates[2][2] /\ ~gates[8][2] /\ ~gates[9][2] /\ ~gates[10][2]
    <2> HIDE DEF gates
    <2> QED
      BY <1>4
  <1> QED
    BY <1>5

LEMMA SentThrough ==
  ASSUME NEW want, NEW s, NEW d, NEW silenced, Wants!ApplyGates(want, s, d, silenced).send
  PROVE  want /\ ~(d.streak >= 2) /\ ~(d.sent >= Wants!CapOf(CapBase)) /\ d.last # hour.at
  <1>1. Wants!ApplyGates(want, s, d, silenced) = Verdict(s, d, silenced, ~want)
    BY Zenon DEF Wants!ApplyGates, Verdict
  <1> QED
    BY <1>1, VerdictThrough

LEMMA CoreThrough ==
  ASSUME NEW s, NEW d, NEW reach, NEW silenced, Wants!Core(s, d, reach, silenced).send
  PROVE  ~(d.streak >= 2) /\ ~(d.sent >= Wants!CapOf(CapBase)) /\ d.last # hour.at
  <1>1. Wants!Core(s, d, reach, silenced)
          = Verdict(s, d, silenced,
                    ~(s.contact >= 60 /\ s.expression >= 45) /\ s.action # "reach_out" /\ ~reach)
    BY Zenon DEF Wants!Core, Verdict
  <1> QED
    BY <1>1, VerdictThrough

------------------------------------------------------------------------------
Dreams   == [count : Nat, pending : BOOLEAN, delivered : BOOLEAN]
Murmurs  == [count : Nat, night : Int, pending : BOOLEAN]
Dailies  == [day : Int, sent : 0..CapBase, last : Int, streak : 0..2,
             night : BOOLEAN, frozen : BOOLEAN, dreamt : BOOLEAN]
Minds    == [phi : {"low", "between", "high"}, armed : BOOLEAN, quiet : BOOLEAN, day : Int,
             dream : Dreams, murmur : Murmurs, daily : Dailies]

LEMMA WishConstants ==
  /\ CapBase \in Nat /\ LastHour \in Nat /\ LastHour >= 2 /\ MaxBeats \in Nat
  /\ "none" \notin Policies
  BY GrownConstants DEF Wants!DeepIntrinsicAssumption

LEMMA QuietIsBoolean == Wants!Quiet \in BOOLEAN
  BY DEF Wants!Quiet

LEMMA RolledMind ==
  ASSUME NEW m \in Minds, Wants!Day \in Int, NEW phi \in {"low", "between", "high"}
  PROVE  LET r == [Wants!Rolled(m) EXCEPT !.phi = phi]
         IN /\ r \in Minds /\ r.daily.day = Wants!Day /\ r.phi = phi
            /\ r.armed = m.armed /\ r.quiet = m.quiet /\ r.day = m.day
            /\ r.dream = m.dream /\ r.murmur = m.murmur
            /\ r.daily.dreamt = IF m.daily.day = Wants!Day THEN m.daily.dreamt ELSE FALSE
            /\ r.daily.sent = IF m.daily.day = Wants!Day THEN m.daily.sent ELSE 0
  <1>1. CASE m.daily.day = Wants!Day
    BY <1>1 DEF Wants!Rolled, Minds, Dailies
  <1>2. CASE m.daily.day # Wants!Day
    <2>1. Wants!Daily(Wants!Day) \in Dailies
      BY WishConstants DEF Wants!Daily, Dailies, Wants!Never
    <2>2. /\ Wants!Daily(Wants!Day).day = Wants!Day /\ Wants!Daily(Wants!Day).dreamt = FALSE
          /\ Wants!Daily(Wants!Day).sent = 0
      BY DEF Wants!Daily
    <2> HIDE DEF Dailies
    <2> QED
      BY <1>2, <2>1, <2>2 DEF Wants!Rolled, Minds
  <1> QED
    BY <1>1, <1>2

LEMMA DreamtMind ==
  ASSUME NEW m \in Minds, Wants!Day \in Int, NEW s
  PROVE  LET r == Wants!Dreamt(m, s)
         IN /\ r \in Minds /\ r.daily = m.daily /\ r.phi = m.phi /\ r.armed = m.armed
            /\ r.quiet = Wants!Quiet /\ r.day = Wants!Day
            /\ r.dream.delivered = IF m.day # Wants!Day THEN FALSE ELSE m.dream.delivered
  <1> DEFINE flipped == IF m.day # Wants!Day THEN [m.dream EXCEPT !.delivered = FALSE] ELSE m.dream
             ticked  == IF Wants!Above(s) THEN [flipped EXCEPT !.count = @ + 1] ELSE flipped
             d       == IF m.quiet /\ ~Wants!Quiet THEN Wants!Armed(ticked) ELSE ticked
  <1>1. /\ flipped \in Dreams
        /\ flipped.delivered = IF m.day # Wants!Day THEN FALSE ELSE m.dream.delivered
    BY DEF Minds, Dreams
  <1>2. ticked \in Dreams /\ ticked.delivered = flipped.delivered
    <2> HIDE DEF flipped
    <2>1. flipped.count + 1 \in Nat
      BY <1>1 DEF Dreams
    <2> QED
      BY <1>1, <2>1 DEF Dreams
  <1>3. d \in Dreams /\ d.delivered = ticked.delivered
    <2> HIDE DEF ticked
    <2> QED
      BY <1>2 DEF Dreams, Wants!Armed
  <1>4. Wants!Dreamt(m, s) = [m EXCEPT !.dream = d, !.day = Wants!Day, !.quiet = Wants!Quiet]
    BY DEF Wants!Dreamt
  <1> HIDE DEF d, ticked, flipped
  <1> QED
    BY <1>1, <1>2, <1>3, <1>4, QuietIsBoolean DEF Minds

LEMMA DeliveredMind ==
  ASSUME NEW m \in Minds
  PROVE  LET r == Wants!Delivered(m)
         IN /\ r \in Minds /\ r.daily.day = m.daily.day /\ r.phi = m.phi /\ r.armed = m.armed
            /\ r.quiet = m.quiet /\ r.day = m.day
            /\ r.dream.delivered = TRUE /\ r.daily.dreamt = TRUE
            /\ r.daily.sent = m.daily.sent
  BY DEF Wants!Delivered, Minds, Dreams, Dailies

LEMMA MurmuredMind ==
  ASSUME NEW m \in Minds, NEW s, Wants!Day \in Int
  PROVE  LET r == Wants!Murmured([m EXCEPT !.day = Wants!Day], s)
         IN /\ r \in Minds /\ r.daily = m.daily /\ r.phi = m.phi /\ r.armed = m.armed
            /\ r.quiet = m.quiet /\ r.day = Wants!Day /\ r.dream = m.dream
  <1> DEFINE n == [m EXCEPT !.day = Wants!Day]
             w == n.murmur
             c == IF w.night = Wants!NightOf THEN w.count ELSE 0
  <1>1. /\ n \in Minds /\ n.daily = m.daily /\ n.phi = m.phi /\ n.armed = m.armed
        /\ n.quiet = m.quiet /\ n.day = Wants!Day /\ n.dream = m.dream
    BY DEF Minds
  <1>2. w \in Murmurs /\ c \in Nat /\ Wants!NightOf \in Int
    BY <1>1 DEF Minds, Murmurs, Wants!NightOf
  <1>3. /\ [w EXCEPT !.night = Wants!NightOf, !.count = c + 1] \in Murmurs
        /\ [w EXCEPT !.pending = TRUE, !.count = 0] \in Murmurs
    <2> PICK k \in Nat : k = c + 1
      BY <1>2
    <2> HIDE DEF w, c
    <2> QED
      BY <1>2 DEF Murmurs
  <1>4. \/ Wants!Murmured(n, s) = [n EXCEPT !.murmur = [w EXCEPT !.night = Wants!NightOf, !.count = c + 1]]
        \/ Wants!Murmured(n, s) = [n EXCEPT !.murmur = [w EXCEPT !.pending = TRUE, !.count = 0]]
        \/ Wants!Murmured(n, s) = n
    BY DEF Wants!Murmured
  <1> HIDE DEF n, w, c
  <1> QED
    BY <1>1, <1>3, <1>4 DEF Minds, n
------------------------------------------------------------------------------
Histories == [dreams : Nat, raises : Nat, ticks : SUBSET Int, fallen : BOOLEAN,
              crossed : BOOLEAN, kills : Nat, mute : Nat, cut : Nat]

PulseOK ==
  /\ pulse.on \in BOOLEAN /\ pulse.decided \in BOOLEAN /\ (pulse.decided => pulse.on)
  /\ "decided" \in DOMAIN pulse /\ "on" \in DOMAIN pulse

WishTypes ==
  /\ mind \in Minds /\ mindDisk \in Minds
  /\ mind.daily.day <= Wants!Day /\ mindDisk.daily.day <= Wants!Day
  /\ PulseOK
  /\ pulse.on => mind.daily.day = Wants!Day
  /\ hour \in [at : 0..LastHour, beats : 0..MaxBeats]
  /\ wish \in [policy : Policies \cup {"none"}, reach : BOOLEAN]
  /\ diary \in [Wants!Kinds -> Nat]
  /\ history \in Histories

(* A word is spoken for in the record, or will be with the next save.       *)
Taken(m) == IF m.daily.day = Wants!Day THEN m.daily.sent ELSE 0
Accounted == diary["spoke"] + history.mute
Unsaved  == IF pulse.decided THEN 1 ELSE 0

WordInv ==
  /\ Taken(mind) <= Accounted /\ Taken(mindDisk) <= Accounted
  /\ Accounted <= Taken(mind) + history.cut
  /\ Accounted <= Taken(mindDisk) + history.cut + Unsaved

DreamInv ==
  /\ mind.day = -1 \/ mind.day = mind.daily.day
  /\ mind.day = -1 => history.dreams = 0
  /\ ~mind.daily.dreamt => history.dreams = 0
  /\ history.dreams <= IF history.raises = 0 THEN 1 ELSE 2
  /\ history.dreams > 0 /\ history.raises = 0 => mind.dream.delivered
  /\ history.dreams = 2 => mind.dream.delivered

FallInv ==
  /\ ~history.crossed
  /\ pulse.on => wish.policy # "none"
  /\ wish.policy \in {"none", "field_crossing"} =>
       /\ mind.armed => history.fallen
       /\ pulse.on /\ mind.phi = "low" => history.fallen

NightInv ==
  /\ history.ticks \subseteq {Wants!NightOf}
  /\ ~mind.quiet => history.ticks = {}

WishInv ==
  /\ WishTypes /\ WordInv
  /\ history.kills = 0 => DreamInv /\ FallInv /\ NightInv

LEMMA PulseStands == PulseOK /\ UNCHANGED pulse => PulseOK'
  BY DEF PulseOK

LEMMA PulseEnds == pulse' = Wants!NoPulse => PulseOK' /\ pulse'.on = FALSE /\ pulse'.decided = FALSE
  BY DEF PulseOK, Wants!NoPulse

LEMMA WishBegins == Wants!Init => WishInv
  <1> SUFFICES ASSUME Wants!Init PROVE WishInv
    OBVIOUS
  <1>0. hour.at \in Nat /\ Wants!Day = 0
    BY DEF Wants!Init, Wants!Day
  <1>1. Wants!Mind0 \in Minds /\ Wants!Mind0.daily.day = 0
    BY WishConstants DEF Wants!Mind0, Minds, Dreams, Murmurs, Dailies, Wants!Daily, Wants!Never
  <1>2. /\ history \in Histories /\ diary \in [Wants!Kinds -> Nat]
        /\ wish \in [policy : Policies \cup {"none"}, reach : BOOLEAN]
        /\ pulse.on = FALSE /\ PulseOK
    BY DEF Wants!Init, Histories, Wants!NoRows, Wants!NoPulse, PulseOK
  <1>3. hour \in [at : 0..LastHour, beats : 0..MaxBeats]
    BY WishConstants DEF Wants!Init
  <1>31. mind = Wants!Mind0 /\ mindDisk = Wants!Mind0
    BY DEF Wants!Init
  <1>4. WishTypes
    BY <1>0, <1>1, <1>2, <1>3, <1>31 DEF WishTypes
  <1>5. WordInv
    BY DEF Wants!Init, WordInv, Taken, Accounted, Unsaved, Wants!NoRows, Wants!Kinds, Wants!NoPulse,
           Wants!Mind0, Wants!Daily
  <1>6. DreamInv /\ FallInv /\ NightInv
    BY DEF Wants!Init, DreamInv, FallInv, NightInv, Wants!Mind0, Wants!Daily, Wants!Never, Wants!NoPulse
  <1> QED
    BY <1>4, <1>5, <1>6 DEF WishInv

------------------------------------------------------------------------------
LEMMA DayIsInt ==
  ASSUME WishTypes
  PROVE  /\ Wants!Day \in Nat /\ Wants!NightOf \in Int /\ hour.at \in Nat
         /\ \A s : Wants!Above(s) => Wants!Night(Wants!Day) = Wants!NightOf
  <1>1. hour.at \in Nat
    BY DEF WishTypes
  <1>2. Wants!Day \in Nat
    BY <1>1 DEF Wants!Day
  <1>3. Wants!NightOf \in Int
    BY <1>2 DEF Wants!NightOf
  <1>4. ASSUME NEW s, Wants!Above(s) PROVE Wants!Night(Wants!Day) = Wants!NightOf
    <2>1. hour.at % 4 \in {0, 3}
      BY <1>4 DEF Wants!Above, Wants!Quiet
    <2>2. hour.at % 4 = 3 => hour.at % 4 # 0
      BY <1>1
    <2> QED
      BY <2>1, <2>2 DEF Wants!Night, Wants!NightOf
  <1> QED
    BY <1>1, <1>2, <1>3, <1>4

LEMMA BeatStarts ==
  ASSUME WishInv, NEW m \in Minds, NEW s, NEW dreams \in {0, 1}, NEW raised \in {0, 1}, NEW ticks,
         m.daily.day = Wants!Day, m.day = Wants!Day, m.armed = mind.armed,
         m.daily.sent = Taken(mind), ~pulse.on,
         hour.beats < MaxBeats, wish.policy # "none", Wants!StartBeat(m, s, dreams, raised, ticks),
         ticks \in SUBSET Int,
         history.kills = 0 =>
           LET b == (IF mind.daily.day = Wants!Day THEN history.dreams ELSE 0) + dreams
               r == history.raises + raised
           IN /\ ~m.daily.dreamt => b = 0
              /\ b <= IF r = 0 THEN 1 ELSE 2
              /\ b > 0 /\ r = 0 => m.dream.delivered
              /\ b = 2 => m.dream.delivered
              /\ ticks \subseteq {Wants!NightOf}
              /\ ~m.quiet => ticks = {}
  PROVE  WishInv'
  <1> DEFINE b == (IF mind.daily.day = Wants!Day THEN history.dreams ELSE 0) + dreams
             r == history.raises + raised
  <1>1. WishTypes /\ Wants!Day \in Nat
    BY DayIsInt DEF WishInv
  <1>2. /\ mind' = m /\ mindDisk' = mindDisk /\ wish' = wish /\ diary' = diary
        /\ hour' = [hour EXCEPT !.beats = @ + 1]
        /\ pulse'.on = TRUE /\ pulse'.decided = FALSE /\ PulseOK'
        /\ history' = [history EXCEPT !.dreams = b, !.raises = r,
                                      !.fallen = Wants!Fell(m.phi), !.ticks = ticks]
    BY DEF Wants!StartBeat, PulseOK
  <1>3. hour'.at = hour.at /\ hour' \in [at : 0..LastHour, beats : 0..MaxBeats]
    BY <1>1, <1>2, WishConstants DEF WishTypes
  <1>4. Wants!Day' = Wants!Day /\ Wants!NightOf' = Wants!NightOf
    BY <1>3 DEF Wants!Day, Wants!NightOf
  <1>5. b \in Nat /\ r \in Nat
    BY <1>1 DEF WishTypes, Histories
  <1>6. Wants!Fell(m.phi) \in BOOLEAN /\ (Wants!Fell(m.phi) <=> history.fallen \/ m.phi = "low")
    BY <1>1 DEF Wants!Fell, WishTypes, Histories
  <1> HIDE DEF b, r
  <1>7. /\ history' \in Histories
        /\ history'.dreams = b /\ history'.raises = r /\ history'.ticks = ticks
        /\ history'.fallen = Wants!Fell(m.phi) /\ history'.kills = history.kills
        /\ history'.mute = history.mute /\ history'.cut = history.cut
        /\ history'.crossed = history.crossed
    BY <1>1, <1>2, <1>5, <1>6 DEF WishTypes, Histories
  <1>8. WishTypes'
    <2>1. m.daily.day <= Wants!Day
      BY <1>1
    <2> QED
      BY <1>1, <1>2, <1>3, <1>4, <1>7, <2>1 DEF WishTypes
  <1>9. WordInv'
    <2>1. Taken(mind)' = Taken(mind) /\ Taken(mindDisk)' = Taken(mindDisk)
      BY <1>2, <1>4 DEF Taken
    <2>2. Accounted' = Accounted /\ ~pulse.decided /\ ~pulse'.decided
      BY <1>1, <1>2, <1>7 DEF Accounted, WishTypes, PulseOK
    <2>3. Unsaved' = Unsaved /\ history'.cut = history.cut
      BY <1>7, <2>2 DEF Unsaved
    <2> QED
      BY <2>1, <2>2, <2>3 DEF WishInv, WordInv
  <1>10. ASSUME history'.kills = 0 PROVE DreamInv' /\ FallInv' /\ NightInv'
    <2>1. history.kills = 0 /\ FallInv /\ DreamInv
      BY <1>10, <1>7 DEF WishInv
    <2>2. /\ ~m.daily.dreamt => b = 0
          /\ b <= IF r = 0 THEN 1 ELSE 2
          /\ b > 0 /\ r = 0 => m.dream.delivered
          /\ b = 2 => m.dream.delivered
          /\ ticks \subseteq {Wants!NightOf}
          /\ ~m.quiet => ticks = {}
      BY <2>1 DEF b, r
    <2>3. m.day # -1
      BY <1>1
    <2>4. DreamInv'
      BY <1>2, <1>7, <2>2, <2>3 DEF DreamInv
    <2>5. FallInv'
      BY <1>2, <1>6, <1>7, <2>1 DEF FallInv
    <2>6. NightInv'
      BY <1>2, <1>4, <1>7, <2>2 DEF NightInv
    <2> QED
      BY <2>4, <2>5, <2>6
  <1> QED
    BY <1>8, <1>9, <1>10 DEF WishInv

LEMMA TicksGoOn ==
  ASSUME WishInv, NEW s
  PROVE  /\ Wants!TicksAfter(s) \in SUBSET Int
         /\ history.kills = 0 => /\ Wants!TicksAfter(s) \subseteq {Wants!NightOf}
                                 /\ ~Wants!Quiet => Wants!TicksAfter(s) = {}
  <1>1. WishTypes
    BY DEF WishInv
  <1>2. history.ticks \in SUBSET Int /\ Wants!NightOf \in Int
    BY <1>1, DayIsInt DEF WishTypes, Histories
  <1>3. Wants!Above(s) => Wants!Night(Wants!Day) = Wants!NightOf /\ Wants!Quiet
    BY <1>1, DayIsInt DEF Wants!Above
  <1>4. history.kills = 0 => NightInv
    BY DEF WishInv
  <1> QED
    BY <1>2, <1>3, <1>4 DEF Wants!TicksAfter, NightInv

LEMMA StartStep ==
  ASSUME WishInv, Wants!BeatStart
  PROVE  WishInv'
  <1>1. PICK s \in Shown, phi \in Wants!Moved(mind.phi) :
          LET m == Wants!Dreamt([Wants!Rolled(mind) EXCEPT !.phi = phi], s)
          IN IF Wants!Ready(m) THEN Wants!StartBeat(Wants!Delivered(m), s, 1, 0, Wants!TicksAfter(s))
             ELSE Wants!StartBeat(m, s, 0, 0, Wants!TicksAfter(s))
    BY DEF Wants!BeatStart
  <1> DEFINE n == [Wants!Rolled(mind) EXCEPT !.phi = phi]
             m == Wants!Dreamt(n, s)
             base == IF mind.daily.day = Wants!Day THEN history.dreams ELSE 0
  <1>2. WishTypes /\ mind \in Minds /\ Wants!Day \in Nat
    BY DayIsInt DEF WishInv, WishTypes
  <1>21. Wants!Day \in Int /\ Wants!Day # -1
    BY <1>2
  <1>3. hour.beats < MaxBeats /\ wish.policy # "none" /\ ~pulse.on
    BY DEF Wants!BeatStart, Wants!Awake
  <1>4. phi \in {"low", "between", "high"}
    BY <1>2 DEF Wants!Moved, Minds
  <1>5. /\ n \in Minds /\ n.daily.day = Wants!Day /\ n.armed = mind.armed /\ n.day = mind.day
        /\ n.dream = mind.dream
        /\ n.daily.dreamt = IF mind.daily.day = Wants!Day THEN mind.daily.dreamt ELSE FALSE
        /\ n.daily.sent = Taken(mind)
    BY <1>2, <1>21, <1>4, RolledMind, Zenon DEF Taken
  <1>6. /\ m \in Minds /\ m.daily = n.daily /\ m.armed = n.armed
        /\ m.quiet = Wants!Quiet /\ m.day = Wants!Day
        /\ m.dream.delivered = IF n.day # Wants!Day THEN FALSE ELSE n.dream.delivered
    <2> HIDE DEF n
    <2> QED
      BY <1>21, <1>5, DreamtMind, Zenon
  <1> HIDE DEF n, m
  <1>7. base \in Nat /\ history.raises \in Nat
    BY <1>2 DEF WishTypes, Histories
  <1>8. ASSUME history.kills = 0
        PROVE  /\ ~m.daily.dreamt => base = 0
               /\ base <= IF history.raises = 0 THEN 1 ELSE 2
               /\ base > 0 /\ history.raises = 0 => m.dream.delivered
               /\ base = 2 => m.dream.delivered
    <2>1. DreamInv
      BY <1>8 DEF WishInv
    <2>2. CASE mind.daily.day = Wants!Day /\ mind.day # -1
      <3>1. m.dream.delivered = mind.dream.delivered /\ m.daily.dreamt = mind.daily.dreamt
        BY <2>1, <2>2, <1>5, <1>6, Zenon DEF DreamInv
      <3>2. base = history.dreams
        BY <2>2
      <3> QED
        BY <3>1, <3>2, <2>1 DEF DreamInv
    <2>3. CASE ~(mind.daily.day = Wants!Day /\ mind.day # -1)
      <3>1. base = 0
        BY <2>1, <2>3 DEF DreamInv
      <3> QED
        BY <3>1
    <2> QED
      BY <2>2, <2>3
  <1> HIDE DEF base
  <1>9. CASE Wants!Ready(m)
    <2> DEFINE k == Wants!Delivered(m)
    <2>1. Wants!StartBeat(k, s, 1, 0, Wants!TicksAfter(s))
      BY <1>1, <1>9 DEF m, n
    <2>2. /\ k \in Minds /\ k.daily.day = Wants!Day /\ k.armed = mind.armed /\ k.quiet = Wants!Quiet
          /\ k.day = Wants!Day /\ k.dream.delivered = TRUE /\ k.daily.dreamt = TRUE
          /\ k.daily.sent = Taken(mind)
      BY <1>5, <1>6, DeliveredMind
    <2>3. ~m.dream.delivered
      BY <1>9 DEF Wants!Ready
    <2>4. history.kills = 0 => base + 1 <= IF history.raises + 0 = 0 THEN 1 ELSE 2
      BY <1>7, <1>8, <2>3
    <2>5. history.kills = 0 =>
           LET b == (IF mind.daily.day = Wants!Day THEN history.dreams ELSE 0) + 1
               r == history.raises + 0
           IN /\ ~k.daily.dreamt => b = 0
              /\ b <= IF r = 0 THEN 1 ELSE 2
              /\ b > 0 /\ r = 0 => k.dream.delivered
              /\ b = 2 => k.dream.delivered
              /\ Wants!TicksAfter(s) \subseteq {Wants!NightOf}
              /\ ~k.quiet => Wants!TicksAfter(s) = {}
      <3> HIDE DEF k
      <3> QED
        BY <2>2, <2>4, TicksGoOn DEF base
    <2> HIDE DEF k
    <2> QED
      BY <1>3, <2>1, <2>2, <2>5, TicksGoOn, BeatStarts
  <1>10. CASE ~Wants!Ready(m)
    <2>1. Wants!StartBeat(m, s, 0, 0, Wants!TicksAfter(s))
      BY <1>1, <1>10 DEF m, n
    <2>2. base + 0 = base /\ history.raises + 0 = history.raises
      BY <1>7
    <2>5. history.kills = 0 =>
           LET b == (IF mind.daily.day = Wants!Day THEN history.dreams ELSE 0) + 0
               r == history.raises + 0
           IN /\ ~m.daily.dreamt => b = 0
              /\ b <= IF r = 0 THEN 1 ELSE 2
              /\ b > 0 /\ r = 0 => m.dream.delivered
              /\ b = 2 => m.dream.delivered
              /\ Wants!TicksAfter(s) \subseteq {Wants!NightOf}
              /\ ~m.quiet => Wants!TicksAfter(s) = {}
      BY <1>6, <1>8, <2>2, TicksGoOn DEF base
    <2> QED
      BY <1>3, <1>5, <1>6, <2>1, <2>5, TicksGoOn, BeatStarts
  <1> QED
    BY <1>9, <1>10

LEMMA RaiseStep ==
  ASSUME WishInv, Wants!BeatStartRaises
  PROVE  WishInv'
  <1>1. PICK s \in Shown, phi \in Wants!Moved(mind.phi) :
          LET m == Wants!Murmured([Wants!Rolled(mind) EXCEPT !.phi = phi, !.day = Wants!Day], s)
          IN IF Wants!MurmurReady(m)
             THEN Wants!StartBeat([m EXCEPT !.murmur.pending = FALSE, !.daily.dreamt = TRUE], s, 1, 1, history.ticks)
             ELSE Wants!StartBeat(m, s, 0, 1, history.ticks)
    BY DEF Wants!BeatStartRaises
  <1> DEFINE n == [Wants!Rolled(mind) EXCEPT !.phi = phi]
             m == Wants!Murmured([n EXCEPT !.day = Wants!Day], s)
             base == IF mind.daily.day = Wants!Day THEN history.dreams ELSE 0
  <1>2. WishTypes /\ mind \in Minds /\ Wants!Day \in Nat
    BY DayIsInt DEF WishInv, WishTypes
  <1>21. Wants!Day \in Int /\ Wants!Day # -1
    BY <1>2
  <1>3. hour.beats < MaxBeats /\ wish.policy # "none" /\ ~pulse.on
    BY DEF Wants!BeatStartRaises, Wants!Awake
  <1>4. phi \in {"low", "between", "high"}
    BY <1>2 DEF Wants!Moved, Minds
  <1>5. /\ n \in Minds /\ n.daily.day = Wants!Day /\ n.armed = mind.armed /\ n.day = mind.day
        /\ n.dream = mind.dream /\ n.quiet = mind.quiet
        /\ n.daily.dreamt = IF mind.daily.day = Wants!Day THEN mind.daily.dreamt ELSE FALSE
        /\ n.daily.sent = Taken(mind)
    BY <1>2, <1>21, <1>4, RolledMind, Zenon DEF Taken
  <1>6. /\ m \in Minds /\ m.daily = n.daily /\ m.armed = n.armed
        /\ m.quiet = mind.quiet /\ m.day = Wants!Day /\ m.dream = n.dream
    <2> HIDE DEF n
    <2> QED
      BY <1>21, <1>5, MurmuredMind, Zenon
  <1>61. [n EXCEPT !.day = Wants!Day] = [Wants!Rolled(mind) EXCEPT !.phi = phi, !.day = Wants!Day]
    OBVIOUS
  <1> HIDE DEF n, m
  <1>7. base \in Nat /\ history.raises \in Nat /\ history.ticks \in SUBSET Int
    BY <1>2 DEF WishTypes, Histories
  <1>8. ASSUME history.kills = 0
        PROVE  /\ ~m.daily.dreamt => base = 0
               /\ base <= 2
               /\ base = 2 => m.dream.delivered /\ m.daily.dreamt
               /\ history.ticks \subseteq {Wants!NightOf}
               /\ ~mind.quiet => history.ticks = {}
    <2>1. DreamInv /\ NightInv
      BY <1>8 DEF WishInv
    <2>2. CASE mind.daily.day = Wants!Day /\ mind.day # -1
      <3>1. m.dream.delivered = mind.dream.delivered /\ m.daily.dreamt = mind.daily.dreamt
        BY <2>1, <2>2, <1>5, <1>6, Zenon DEF DreamInv
      <3>2. base = history.dreams /\ history.dreams \in Nat /\ history.raises \in Nat
        BY <2>2, <1>2 DEF WishTypes, Histories
      <3>3. base <= 2
        BY <3>2, <2>1 DEF DreamInv
      <3>4. base = 2 => m.dream.delivered /\ m.daily.dreamt
        BY <3>1, <3>2, <2>1 DEF DreamInv
      <3> QED
        BY <3>1, <3>2, <3>3, <3>4, <2>1 DEF DreamInv, NightInv
    <2>3. CASE ~(mind.daily.day = Wants!Day /\ mind.day # -1)
      <3>1. base = 0
        BY <2>1, <2>3 DEF DreamInv
      <3> QED
        BY <3>1, <2>1 DEF NightInv
    <2> QED
      BY <2>2, <2>3
  <1> HIDE DEF base
  <1>9. CASE Wants!MurmurReady(m)
    <2> DEFINE k == [m EXCEPT !.murmur.pending = FALSE, !.daily.dreamt = TRUE]
    <2>1. Wants!StartBeat(k, s, 1, 1, history.ticks)
      BY <1>1, <1>9, <1>61 DEF m
    <2>2. /\ k \in Minds /\ k.daily.day = Wants!Day /\ k.armed = mind.armed /\ k.quiet = mind.quiet
          /\ k.day = Wants!Day /\ k.dream.delivered = m.dream.delivered /\ k.daily.dreamt = TRUE
          /\ k.daily.sent = Taken(mind)
      BY <1>5, <1>6 DEF Minds, Murmurs, Dailies
    <2>3. ~m.daily.dreamt
      BY <1>9 DEF Wants!MurmurReady
    <2>4. history.kills = 0 => base = 0
      BY <1>7, <1>8, <2>3
    <2>5. history.kills = 0 =>
           LET b == (IF mind.daily.day = Wants!Day THEN history.dreams ELSE 0) + 1
               r == history.raises + 1
           IN /\ ~k.daily.dreamt => b = 0
              /\ b <= IF r = 0 THEN 1 ELSE 2
              /\ b > 0 /\ r = 0 => k.dream.delivered
              /\ b = 2 => k.dream.delivered
              /\ history.ticks \subseteq {Wants!NightOf}
              /\ ~k.quiet => history.ticks = {}
      <3> HIDE DEF k
      <3> QED
        BY <1>7, <1>8, <2>2, <2>4 DEF base
    <2> HIDE DEF k
    <2> QED
      BY <1>3, <1>7, <2>1, <2>2, <2>5, BeatStarts
  <1>10. CASE ~Wants!MurmurReady(m)
    <2>1. Wants!StartBeat(m, s, 0, 1, history.ticks)
      BY <1>1, <1>10, <1>61 DEF m
    <2>2. base + 0 = base /\ history.raises + 1 # 0
      BY <1>7
    <2>5. history.kills = 0 =>
           LET b == (IF mind.daily.day = Wants!Day THEN history.dreams ELSE 0) + 0
               r == history.raises + 1
           IN /\ ~m.daily.dreamt => b = 0
              /\ b <= IF r = 0 THEN 1 ELSE 2
              /\ b > 0 /\ r = 0 => m.dream.delivered
              /\ b = 2 => m.dream.delivered
              /\ history.ticks \subseteq {Wants!NightOf}
              /\ ~m.quiet => history.ticks = {}
      BY <1>6, <1>8, <2>2 DEF base
    <2> QED
      BY <1>3, <1>5, <1>6, <1>7, <2>1, <2>5, BeatStarts
  <1> QED
    BY <1>9, <1>10

------------------------------------------------------------------------------
LEMMA CapIsBase == Wants!CapOf(CapBase) = CapBase
  <1>1. PICK c \in Nat : c = CapBase
    BY WishConstants
  <1>2. (c * 100 + 99) \div 100 = c
    OBVIOUS
  <1> QED
    BY <1>1, <1>2 DEF Wants!CapOf, Wants!P

LEMMA ReservedDaily ==
  ASSUME NEW d \in Dailies, NEW occasion, d.sent < CapBase, d.streak < 2, hour.at \in Int
  PROVE  /\ Wants!Reserved(d, occasion) \in Dailies
         /\ Wants!Reserved(d, occasion).day = d.day
         /\ Wants!Reserved(d, occasion).dreamt = d.dreamt
         /\ Wants!Reserved(d, occasion).sent = d.sent + 1
         /\ Wants!Reserved(d, occasion).last = hour.at
  <1> DEFINE b == d.night \/ occasion = "contact_night"
  <1>1. d.sent + 1 \in 0..CapBase /\ d.streak + 1 \in 0..2
    BY WishConstants DEF Dailies
  <1>2. b \in BOOLEAN
    BY Zenon
  <1>3. Wants!Reserved(d, occasion)
          = [d EXCEPT !.sent = d.sent + 1, !.last = hour.at, !.streak = d.streak + 1, !.night = b]
    BY DEF Wants!Reserved
  <1> HIDE DEF b
  <1> QED
    BY <1>1, <1>2, <1>3 DEF Dailies

LEMMA ProposalArms ==
  ASSUME NEW m \in Minds, NEW reach, NEW s, NEW proposal \in Wants!Proposals(m, s, reach)
  PROVE  /\ proposal.armed \in BOOLEAN
         /\ wish.policy = "field_crossing" =>
              /\ proposal.want => m.armed /\ ~proposal.armed
              /\ proposal.armed => m.armed \/ m.phi = "low"
  <1>1. m.armed \in BOOLEAN
    BY DEF Minds
  <1>2. CASE wish.policy = "threshold"
    BY <1>1, <1>2 DEF Wants!Proposals
  <1>3. CASE wish.policy = "field_crossing"
    <2>1. proposal = Wants!Crossing(m)
      BY <1>3 DEF Wants!Proposals
    <2>2. /\ Wants!Crossing(m).armed \in BOOLEAN
          /\ Wants!Crossing(m).want => m.armed /\ ~Wants!Crossing(m).armed
          /\ Wants!Crossing(m).armed => m.armed \/ m.phi = "low"
      BY <1>1 DEF Wants!Crossing
    <2> QED
      BY <2>1, <2>2
  <1>4. CASE wish.policy \notin {"threshold", "field_crossing"}
    BY <1>1, <1>4 DEF Wants!Proposals
  <1> QED
    BY <1>2, <1>3, <1>4

(* The moment of a word is that it was spoken, and of nothing else.          *)
LEMMA SpokenMoment ==
  ASSUME NEW d, d.send <=> d.why = "open"
  PROVE  d.send <=> Wants!MomentOf(d) = "spoke"
  <1>1. CASE d.why = "open"
    <2>1. Wants!MomentOf(d) = "spoke"
      BY <1>1 DEF Wants!MomentOf
    <2> QED
      BY <1>1, <2>1
  <1>2. CASE d.why # "open"
    <2>1. ~d.send
      BY <1>2
    <2>2. Wants!MomentOf(d) # "spoke"
      BY <1>2, <2>1 DEF Wants!MomentOf
    <2> QED
      BY <2>1, <2>2
  <1> QED
    BY <1>1, <1>2

(* Whoever decides, a word has passed the cap, the streak and the gap.       *)
LEMMA DecisionFacts ==
  ASSUME NEW m \in Minds, NEW s, NEW reach, NEW x \in Wants!Decisions(m, s, reach)
  PROVE  /\ x.armed \in BOOLEAN /\ x.deep \in BOOLEAN /\ x.dec.send \in BOOLEAN
         /\ x.dec.send => m.daily.sent < CapBase /\ m.daily.streak < 2 /\ m.daily.last # hour.at
         /\ x.dec.send <=> Wants!MomentOf(x.dec) = "spoke"
         /\ ~x.deep => x.armed = m.armed
         /\ wish.policy = "field_crossing" =>
              /\ x.deep /\ x.dec.send => m.armed /\ ~x.armed
              /\ x.armed => m.armed \/ m.phi = "low"
  <1>1. m.armed \in BOOLEAN /\ m.daily.sent \in Nat /\ m.daily.streak \in Nat
    BY DEF Minds, Dailies
  <1>2. CASE x = [deep |-> FALSE, armed |-> m.armed, dec |-> Wants!Core(s, m.daily, reach, FALSE)]
    <2> DEFINE c == Wants!Core(s, m.daily, reach, FALSE)
    <2>1. c.send \in BOOLEAN /\ (c.send <=> c.why = "open")
      BY DEF Wants!Core
    <2>2. c.send => ~(m.daily.streak >= 2) /\ ~(m.daily.sent >= Wants!CapOf(CapBase)) /\ m.daily.last # hour.at
      BY CoreThrough
    <2>3. c.send <=> Wants!MomentOf(c) = "spoke"
      BY <2>1, SpokenMoment
    <2> HIDE DEF c
    <2>4. x.deep = FALSE /\ x.armed = m.armed /\ x.dec = c
      BY <1>2 DEF c
    <2>5. c.send => m.daily.sent < CapBase /\ m.daily.streak < 2 /\ m.daily.last # hour.at
      BY <1>1, <2>2, CapIsBase, WishConstants
    <2> QED
      BY <1>1, <2>1, <2>3, <2>4, <2>5, Zenon
  <1>3. ASSUME NEW q \in Wants!Proposals(m, s, reach),
               x = [deep |-> TRUE, armed |-> q.armed, dec |-> Wants!ApplyGates(q.want, s, m.daily, FALSE)]
        PROVE  /\ x.armed \in BOOLEAN /\ x.deep \in BOOLEAN /\ x.dec.send \in BOOLEAN
               /\ x.dec.send => m.daily.sent < CapBase /\ m.daily.streak < 2 /\ m.daily.last # hour.at
               /\ x.dec.send <=> Wants!MomentOf(x.dec) = "spoke"
               /\ ~x.deep => x.armed = m.armed
               /\ wish.policy = "field_crossing" =>
                    /\ x.deep /\ x.dec.send => m.armed /\ ~x.armed
                    /\ x.armed => m.armed \/ m.phi = "low"
    <2> DEFINE c == Wants!ApplyGates(q.want, s, m.daily, FALSE)
    <2>1. c.send \in BOOLEAN /\ (c.send <=> c.why = "open")
      BY DEF Wants!ApplyGates
    <2>2. c.send => /\ q.want /\ ~(m.daily.streak >= 2)
                    /\ ~(m.daily.sent >= Wants!CapOf(CapBase)) /\ m.daily.last # hour.at
      BY SentThrough
    <2>3. c.send <=> Wants!MomentOf(c) = "spoke"
      BY <2>1, SpokenMoment
    <2>4. q.armed \in BOOLEAN
      BY ProposalArms
    <2>5. wish.policy = "field_crossing" =>
            (q.want => m.armed /\ ~q.armed) /\ (q.armed => m.armed \/ m.phi = "low")
      BY ProposalArms
    <2> HIDE DEF c
    <2>6. x.deep = TRUE /\ x.armed = q.armed /\ x.dec = c
      BY <1>3 DEF c
    <2>7. c.send => q.want /\ m.daily.sent < CapBase /\ m.daily.streak < 2 /\ m.daily.last # hour.at
      BY <1>1, <2>2, CapIsBase, WishConstants
    <2> QED
      BY <2>1, <2>3, <2>4, <2>5, <2>6, <2>7, Zenon
  <1> QED
    BY <1>2, <1>3 DEF Wants!Decisions

LEMMA DecidedMind ==
  ASSUME NEW m \in Minds, NEW s, NEW reach, NEW x \in Wants!Decisions(m, s, reach),
         NEW phi \in {"low", "between", "high"}, hour.at \in Int
  PROVE  LET n == Wants!Decided(m, x, phi)
         IN /\ n \in Minds /\ n.daily.day = m.daily.day /\ n.day = m.day
            /\ n.daily.dreamt = m.daily.dreamt /\ n.dream = m.dream /\ n.quiet = m.quiet
            /\ n.armed = x.armed /\ n.phi = phi
            /\ n.daily.sent = m.daily.sent + (IF x.dec.send THEN 1 ELSE 0)
            /\ x.dec.send => n.daily.last = hour.at
  <1> DEFINE d == IF x.dec.send THEN Wants!Reserved(m.daily, x.dec.occasion) ELSE m.daily
             g == IF x.dec.send THEN 1 ELSE 0
  <1>1. /\ x.armed \in BOOLEAN
        /\ x.dec.send => m.daily.sent < CapBase /\ m.daily.streak < 2
    BY DecisionFacts
  <1>2. m.daily \in Dailies /\ m.daily.sent \in Nat
    BY DEF Minds, Dailies
  <1>3. /\ d \in Dailies /\ d.day = m.daily.day /\ d.dreamt = m.daily.dreamt
        /\ d.sent = m.daily.sent + g
        /\ x.dec.send => d.last = hour.at
    <2>1. CASE x.dec.send
      BY <2>1, <1>1, <1>2, ReservedDaily
    <2>2. CASE ~x.dec.send
      BY <2>2, <1>2
    <2> QED
      BY <2>1, <2>2
  <1>4. Wants!Decided(m, x, phi) = [m EXCEPT !.armed = x.armed, !.phi = phi, !.daily = d]
    BY DEF Wants!Decided
  <1> HIDE DEF d, g
  <1>5. LET n == [m EXCEPT !.armed = x.armed, !.phi = phi, !.daily = d]
        IN /\ n \in Minds /\ n.daily = d /\ n.day = m.day
           /\ n.dream = m.dream /\ n.quiet = m.quiet /\ n.armed = x.armed /\ n.phi = phi
    BY <1>1, <1>3 DEF Minds
  <1> QED
    BY <1>3, <1>4, <1>5 DEF g

LEMMA ConcernedMind ==
  ASSUME NEW m \in Minds, NEW s, NEW n \in Wants!Concerned(m, s), hour.at \in Int
  PROVE  /\ n \in Minds /\ n.daily.day = m.daily.day /\ n.day = m.day
         /\ n.daily.dreamt = m.daily.dreamt /\ n.dream = m.dream /\ n.quiet = m.quiet
         /\ n.armed = m.armed /\ n.phi = m.phi
         /\ n.daily.sent = m.daily.sent + (IF n # m THEN 1 ELSE 0)
         /\ n # m => m.daily.last # hour.at
  <1>1. m.daily \in Dailies /\ m.daily.sent \in Nat
    BY DEF Minds, Dailies
  <1>2. CASE n = m
    BY <1>1, <1>2
  <1>3. ASSUME NEW x \in Wants!Decisions(m, s, TRUE), x.dec.send,
               n = [m EXCEPT !.daily = Wants!Reserved(@, "concern")]
        PROVE  /\ n \in Minds /\ n.daily.day = m.daily.day /\ n.day = m.day
               /\ n.daily.dreamt = m.daily.dreamt /\ n.dream = m.dream /\ n.quiet = m.quiet
               /\ n.armed = m.armed /\ n.phi = m.phi
               /\ n.daily.sent = m.daily.sent + 1 /\ m.daily.last # hour.at
    <2> DEFINE d == Wants!Reserved(m.daily, "concern")
    <2>1. m.daily.sent < CapBase /\ m.daily.streak < 2 /\ m.daily.last # hour.at
      BY <1>3, DecisionFacts
    <2>2. d \in Dailies /\ d.day = m.daily.day /\ d.dreamt = m.daily.dreamt /\ d.sent = m.daily.sent + 1
      BY <1>1, <2>1, ReservedDaily
    <2>3. n = [m EXCEPT !.daily = d]
      BY <1>3
    <2> HIDE DEF d
    <2> QED
      BY <2>1, <2>2, <2>3 DEF Minds
  <1>4. n = m \/ \E x \in Wants!Decisions(m, s, TRUE) :
                    x.dec.send /\ n = [m EXCEPT !.daily = Wants!Reserved(@, "concern")]
    BY DEF Wants!Concerned
  <1>5. CASE n # m
    <2>1. PICK x \in Wants!Decisions(m, s, TRUE) :
            x.dec.send /\ n = [m EXCEPT !.daily = Wants!Reserved(@, "concern")]
      BY <1>4, <1>5
    <2> QED
      BY <1>3, <1>5, <2>1
  <1> QED
    BY <1>2, <1>5

LEMMA RecordedRows ==
  ASSUME NEW x, NEW rows \in Wants!Recorded(x), diary \in [Wants!Kinds -> Nat]
  PROVE  /\ rows \in [Wants!Kinds -> Nat]
         /\ rows = diary \/ rows["spoke"] = diary["spoke"] + (IF Wants!MomentOf(x.dec) = "spoke" THEN 1 ELSE 0)
  <1> DEFINE k == Wants!MomentOf(x.dec)
  <1>1. k = "none" \/ k \in Wants!Kinds
    BY DEF Wants!MomentOf, Wants!Kinds
  <1>2. rows = diary \/ (k # "none" /\ rows = [diary EXCEPT ![k] = @ + 1])
    BY DEF Wants!Recorded
  <1> HIDE DEF k
  <1>3. "spoke" \in Wants!Kinds
    BY DEF Wants!Kinds
  <1> QED
    BY <1>1, <1>2, <1>3 DEF k

LEMMA DecidesStep ==
  ASSUME WishInv, Wants!BeatDecides
  PROVE  WishInv'
  <1>1. PICK x \in Wants!Decisions(mind, pulse.surface, wish.reach) :
          \E phi \in (IF x.deep /\ x.dec.send THEN Wants!Recoils(mind.phi) ELSE {mind.phi}) :
          \E m \in Wants!Concerned(Wants!Decided(mind, x, phi), pulse.surface), rows \in Wants!Recorded(x) :
            /\ mind' = m /\ diary' = rows
            /\ history' = [history EXCEPT
                 !.fallen = IF x.deep /\ x.dec.send THEN phi = "low" ELSE @,
                 !.crossed = (x.deep /\ x.dec.send) /\ wish.policy = "field_crossing" /\ ~history.fallen,
                 !.mute = @ + (IF x.dec.send /\ rows = diary THEN 1 ELSE 0)
                            + (IF m # Wants!Decided(mind, x, phi) THEN 1 ELSE 0)]
    BY DEF Wants!BeatDecides
  <1>2. PICK phi \in (IF x.deep /\ x.dec.send THEN Wants!Recoils(mind.phi) ELSE {mind.phi}) :
          \E m \in Wants!Concerned(Wants!Decided(mind, x, phi), pulse.surface), rows \in Wants!Recorded(x) :
            /\ mind' = m /\ diary' = rows
            /\ history' = [history EXCEPT
                 !.fallen = IF x.deep /\ x.dec.send THEN phi = "low" ELSE @,
                 !.crossed = (x.deep /\ x.dec.send) /\ wish.policy = "field_crossing" /\ ~history.fallen,
                 !.mute = @ + (IF x.dec.send /\ rows = diary THEN 1 ELSE 0)
                            + (IF m # Wants!Decided(mind, x, phi) THEN 1 ELSE 0)]
    BY <1>1
  <1> DEFINE n == Wants!Decided(mind, x, phi)
             g == IF x.dec.send THEN 1 ELSE 0
             h == IF mind' # n THEN 1 ELSE 0
             l == IF x.dec.send /\ diary' = diary THEN 1 ELSE 0
  <1>3. /\ mind' \in Wants!Concerned(n, pulse.surface) /\ diary' \in Wants!Recorded(x)
        /\ history' = [history EXCEPT
             !.fallen = IF x.deep /\ x.dec.send THEN phi = "low" ELSE @,
             !.crossed = (x.deep /\ x.dec.send) /\ wish.policy = "field_crossing" /\ ~history.fallen,
             !.mute = @ + l + h]
    BY <1>2
  <1>4. /\ pulse.on /\ ~pulse.decided /\ pulse' = [pulse EXCEPT !.decided = TRUE]
        /\ wish' = [wish EXCEPT !.reach = FALSE] /\ mindDisk' = mindDisk /\ hour' = hour
    BY DEF Wants!BeatDecides
  <1>5. /\ WishTypes /\ mind \in Minds /\ Wants!Day \in Nat /\ hour.at \in Int
        /\ mind.daily.day = Wants!Day
    BY <1>4, DayIsInt DEF WishInv, WishTypes
  <1>6. phi \in {"low", "between", "high"}
    BY <1>5 DEF Wants!Recoils, Minds
  <1>7. /\ x.armed \in BOOLEAN /\ x.deep \in BOOLEAN /\ x.dec.send \in BOOLEAN
        /\ x.dec.send <=> Wants!MomentOf(x.dec) = "spoke"
        /\ ~x.deep => x.armed = mind.armed
        /\ wish.policy = "field_crossing" =>
             /\ x.deep /\ x.dec.send => mind.armed /\ ~x.armed
             /\ x.armed => mind.armed \/ mind.phi = "low"
    BY <1>5, DecisionFacts
  <1>8. /\ n \in Minds /\ n.daily.day = mind.daily.day /\ n.day = mind.day
        /\ n.daily.dreamt = mind.daily.dreamt /\ n.dream = mind.dream /\ n.quiet = mind.quiet
        /\ n.armed = x.armed /\ n.phi = phi
        /\ n.daily.sent = mind.daily.sent + g
        /\ x.dec.send => n.daily.last = hour.at
    BY <1>5, <1>6, DecidedMind
  <1> HIDE DEF n, g
  <1>9. /\ mind' \in Minds /\ mind'.daily.day = n.daily.day /\ mind'.day = n.day
        /\ mind'.daily.dreamt = n.daily.dreamt /\ mind'.dream = n.dream /\ mind'.quiet = n.quiet
        /\ mind'.armed = n.armed /\ mind'.phi = n.phi
        /\ mind'.daily.sent = n.daily.sent + h
        /\ mind' # n => n.daily.last # hour.at
    BY <1>3, <1>5, <1>8, ConcernedMind
  <1>10. /\ g \in {0, 1} /\ h \in {0, 1} /\ l \in {0, 1} /\ g + h <= 1
         /\ (g = 1) <=> x.dec.send
    BY <1>8, <1>9 DEF g
  <1>11. /\ diary' \in [Wants!Kinds -> Nat]
         /\ diary'["spoke"] + l = diary["spoke"] + g
    <2>1. /\ diary' \in [Wants!Kinds -> Nat]
          /\ diary' = diary \/ diary'["spoke"] = diary["spoke"] + (IF Wants!MomentOf(x.dec) = "spoke" THEN 1 ELSE 0)
      BY <1>3, <1>5, RecordedRows DEF WishTypes
    <2>2. diary["spoke"] \in Nat /\ diary'["spoke"] \in Nat
      BY <1>5, <2>1 DEF WishTypes, Wants!Kinds
    <2> QED
      BY <1>7, <2>1, <2>2 DEF g
  <1> HIDE DEF h, l
  <1>12. /\ history' \in Histories /\ history'.kills = history.kills /\ history'.dreams = history.dreams
         /\ history'.raises = history.raises /\ history'.ticks = history.ticks
         /\ history'.cut = history.cut /\ history'.mute = history.mute + l + h
         /\ ~(x.deep /\ x.dec.send) => history'.fallen = history.fallen /\ ~history'.crossed
         /\ x.deep /\ x.dec.send => (history'.fallen <=> phi = "low")
         /\ wish.policy # "field_crossing" \/ history.fallen => ~history'.crossed
    <2> DEFINE f == IF x.deep /\ x.dec.send THEN phi = "low" ELSE history.fallen
               k == history.mute + l + h
               c == (x.deep /\ x.dec.send) /\ wish.policy = "field_crossing" /\ ~history.fallen
    <2>0. history.fallen \in BOOLEAN /\ history.mute \in Nat
      BY <1>5 DEF WishTypes, Histories
    <2>1. f \in BOOLEAN
      <3>1. (phi = "low") \in BOOLEAN
        BY Zenon
      <3> QED
        BY <2>0, <3>1, Zenon
    <2>2. c \in BOOLEAN
      BY Zenon
    <2>3. k \in Nat
      BY <1>10, <2>0
    <2>4. history' = [history EXCEPT !.fallen = f, !.crossed = c, !.mute = k]
      BY <1>3
    <2>5. ~(x.deep /\ x.dec.send) => f = history.fallen /\ ~c
      OBVIOUS
    <2>6. wish.policy # "field_crossing" \/ history.fallen => ~c
      OBVIOUS
    <2>7. x.deep /\ x.dec.send => (f <=> phi = "low")
      OBVIOUS
    <2>8. k = history.mute + l + h
      OBVIOUS
    <2> HIDE DEF f, k, c
    <2> QED
      BY <1>5, <2>1, <2>2, <2>3, <2>4, <2>5, <2>6, <2>7, <2>8 DEF WishTypes, Histories
  <1>13. wish' \in [policy : Policies \cup {"none"}, reach : BOOLEAN] /\ wish'.policy = wish.policy
    BY <1>4, <1>5 DEF WishTypes
  <1>14. Wants!Day' = Wants!Day /\ Wants!NightOf' = Wants!NightOf
    BY <1>4 DEF Wants!Day, Wants!NightOf
  <1>15. pulse'.on /\ pulse'.decided = TRUE /\ PulseOK'
    <2>1. PulseOK
      BY <1>5 DEF WishTypes
    <2> QED
      BY <1>4, <2>1 DEF PulseOK
  <1>16. WishTypes'
    BY <1>4, <1>5, <1>8, <1>9, <1>11, <1>12, <1>13, <1>14, <1>15 DEF WishTypes
  <1>17. WordInv'
    <2>1. WordInv /\ Unsaved = 0 /\ Unsaved' = 1
      BY <1>4, <1>15 DEF WishInv, Unsaved
    <2>2. Taken(mind)' = Taken(mind) + g + h /\ Taken(mindDisk)' = Taken(mindDisk)
      BY <1>4, <1>5, <1>8, <1>9, <1>10, <1>14 DEF Taken, Minds, Dailies
    <2>3. /\ Taken(mind) \in Nat /\ Taken(mindDisk) \in Nat
          /\ history.mute \in Nat /\ history.cut \in Nat
          /\ diary["spoke"] \in Nat /\ diary'["spoke"] \in Nat
      BY <1>5, <1>11 DEF WishTypes, Taken, Minds, Dailies, Histories, Wants!Kinds
    <2>4. Accounted' = Accounted + g + h /\ Accounted \in Nat
      BY <1>10, <1>11, <1>12, <2>3 DEF Accounted
    <2> QED
      BY <1>10, <1>12, <2>1, <2>2, <2>3, <2>4 DEF WordInv
  <1>18. ASSUME history'.kills = 0 PROVE DreamInv' /\ FallInv' /\ NightInv'
    <2>1. history.kills = 0 /\ FallInv /\ DreamInv /\ NightInv
      BY <1>18, <1>12 DEF WishInv
    <2>2. DreamInv'
      BY <2>1, <1>8, <1>9, <1>12 DEF DreamInv
    <2>3. NightInv'
      BY <2>1, <1>8, <1>9, <1>12, <1>14 DEF NightInv
    <2>4. wish.policy # "none" /\ wish'.policy # "none"
      BY <1>4, <1>13, <2>1 DEF FallInv
    <2>5. FallInv'
      <3>1. CASE wish.policy # "field_crossing"
        <4>1. ~history'.crossed
          BY <1>12, <3>1, Zenon
        <4>2. wish'.policy \notin {"none", "field_crossing"}
          BY <1>13, <2>4, <3>1
        <4>3. ~(wish'.policy \in {"none", "field_crossing"})
          BY <4>2
        <4> QED
          BY <2>4, <4>1, <4>3, Zenon DEF FallInv
      <3>2. CASE wish.policy = "field_crossing"
        <4>1. (mind.armed => history.fallen) /\ (mind.phi = "low" => history.fallen)
          BY <2>1, <3>2, <1>4 DEF FallInv
        <4>2. ~history'.crossed
          BY <1>7, <1>12, <3>2, <4>1
        <4>3. mind'.armed = x.armed /\ mind'.phi = phi
          BY <1>8, <1>9
        <4>4. mind'.armed => history'.fallen
          BY <1>7, <1>12, <3>2, <4>1, <4>3
        <4>5. mind'.phi = "low" => history'.fallen
          <5>1. ~(x.deep /\ x.dec.send) => phi = mind.phi
            BY <1>2
          <5> QED
            BY <1>12, <4>1, <4>3, <5>1
        <4> QED
          BY <2>4, <4>2, <4>4, <4>5, Zenon DEF FallInv
      <3> QED
        BY <3>1, <3>2
    <2> QED
      BY <2>2, <2>3, <2>5
  <1> QED
    BY <1>16, <1>17, <1>18 DEF WishInv

LEMMA DoneStep ==
  ASSUME WishInv, Wants!BeatDone
  PROVE  WishInv'
  <1>1. /\ mind' = mind /\ mindDisk' = mind /\ pulse' = Wants!NoPulse /\ hour' = hour
        /\ wish' = wish /\ diary' = diary /\ history' = history
    BY DEF Wants!BeatDone
  <1>2. pulse'.on = FALSE /\ pulse'.decided = FALSE /\ PulseOK'
    BY <1>1, PulseEnds
  <1>3. Wants!Day' = Wants!Day /\ Wants!NightOf' = Wants!NightOf
    BY <1>1 DEF Wants!Day, Wants!NightOf
  <1>4. WishTypes'
    BY <1>1, <1>2, <1>3 DEF WishInv, WishTypes
  <1>5. WordInv'
    <2>1. Taken(mind)' = Taken(mind) /\ Taken(mindDisk)' = Taken(mind) /\ Accounted' = Accounted
      BY <1>1, <1>3 DEF Taken, Accounted
    <2>2. Unsaved' = 0
      BY <1>2 DEF Unsaved
    <2>3. Taken(mind) \in Nat /\ history.cut \in Nat
      BY DEF WishInv, WishTypes, Taken, Minds, Dailies, Histories
    <2> QED
      BY <1>1, <2>1, <2>2, <2>3 DEF WishInv, WordInv
  <1>6. history.kills = 0 => DreamInv' /\ FallInv' /\ NightInv'
    BY <1>1, <1>2, <1>3 DEF WishInv, DreamInv, FallInv, NightInv
  <1> QED
    BY <1>1, <1>4, <1>5, <1>6 DEF WishInv

LEMMA AnswerStep ==
  ASSUME WishInv, Wants!Answer
  PROVE  WishInv'
  <1>1. PICK frozen \in {FALSE, TRUE} :
          /\ mind' = [mind EXCEPT !.daily.streak = 0, !.daily.frozen = @ \/ frozen]
          /\ wish' = [wish EXCEPT !.reach = ~frozen]
    BY DEF Wants!Answer
  <1>2. /\ mindDisk' = mind' /\ hour' = hour /\ pulse' = pulse /\ diary' = diary /\ history' = history
        /\ ~pulse.on
    BY DEF Wants!Answer, Wants!Awake
  <1>3. WishTypes /\ mind \in Minds
    BY DEF WishInv, WishTypes
  <1>4. /\ mind' \in Minds /\ mind'.daily.day = mind.daily.day /\ mind'.daily.dreamt = mind.daily.dreamt
        /\ mind'.day = mind.day /\ mind'.dream = mind.dream /\ mind'.quiet = mind.quiet
        /\ mind'.armed = mind.armed /\ mind'.daily.sent = mind.daily.sent
    <2> DEFINE b == mind.daily.frozen \/ frozen
    <2>1. b \in BOOLEAN
      BY Zenon
    <2>2. mind' = [mind EXCEPT !.daily.streak = 0, !.daily.frozen = b]
      BY <1>1
    <2> HIDE DEF b
    <2>3. mind.daily \in Dailies
      BY <1>3 DEF Minds
    <2> DEFINE d == [mind.daily EXCEPT !.streak = 0, !.frozen = b]
    <2>4. mind' = [mind EXCEPT !.daily = d]
      BY <1>3, <2>2 DEF Minds
    <2>5. d \in Dailies /\ d.day = mind.daily.day /\ d.dreamt = mind.daily.dreamt
          /\ d.sent = mind.daily.sent
      <3> PICK e \in Dailies : e = mind.daily
        BY <2>3
      <3>1. d = [e EXCEPT !.streak = 0, !.frozen = b]
        OBVIOUS
      <3>2. 0 \in 0..2
        OBVIOUS
      <3> HIDE DEF d
      <3> QED
        BY <2>1, <3>1, <3>2 DEF Dailies
    <2> HIDE DEF d
    <2> QED
      BY <1>3, <2>4, <2>5 DEF Minds
  <1>5. wish' \in [policy : Policies \cup {"none"}, reach : BOOLEAN] /\ wish'.policy = wish.policy
    BY <1>1, <1>3 DEF WishTypes
  <1>6. Wants!Day' = Wants!Day /\ Wants!NightOf' = Wants!NightOf
    BY <1>2 DEF Wants!Day, Wants!NightOf
  <1>7. WishTypes'
    <2>1. PulseOK'
      BY <1>2, <1>3, PulseStands DEF WishTypes
    <2> QED
      BY <1>2, <1>3, <1>4, <1>5, <1>6, <2>1 DEF WishTypes
  <1>8. history.kills = 0 => DreamInv' /\ FallInv' /\ NightInv'
    BY <1>2, <1>4, <1>5, <1>6 DEF WishInv, DreamInv, FallInv, NightInv
  <1>9. WordInv'
    <2>1. /\ Taken(mind)' = Taken(mind) /\ Taken(mindDisk)' = Taken(mind)
          /\ Accounted' = Accounted /\ Unsaved' = Unsaved
      BY <1>2, <1>4, <1>6 DEF Taken, Accounted, Unsaved
    <2>2. /\ Taken(mind) \in Nat /\ history.cut \in Nat /\ Unsaved \in Nat
          /\ Accounted \in Nat
      BY <1>3 DEF WishTypes, Taken, Minds, Dailies, Histories, Unsaved, Accounted, Wants!Kinds
    <2> QED
      BY <1>2, <2>1, <2>2 DEF WishInv, WordInv
  <1> QED
    BY <1>2, <1>7, <1>8, <1>9 DEF WishInv

LEMMA WishTickStep ==
  ASSUME WishInv, Wants!Tick
  PROVE  WishInv'
  <1>1. /\ mind' = mind /\ mindDisk' = mindDisk /\ pulse' = pulse /\ ~pulse.on
        /\ diary' = (IF Wants!Midnight THEN Wants!NoRows ELSE diary)
        /\ hour.at < LastHour /\ hour' = [at |-> hour.at + 1, beats |-> 0]
        /\ wish' = [wish EXCEPT !.reach = @ /\ ~Wants!Midnight]
        /\ history' = [history EXCEPT !.ticks = IF Wants!SleptThrough THEN {} ELSE @,
                                      !.mute = IF Wants!Midnight THEN 0 ELSE @,
                                      !.cut = IF Wants!Midnight THEN 0 ELSE @]
    BY DEF Wants!Tick, Wants!Awake
  <1>2. WishTypes /\ hour.at \in Nat /\ Wants!Day \in Nat /\ LastHour \in Nat /\ MaxBeats \in Nat
    BY DayIsInt, WishConstants DEF WishInv
  <1>3. hour' \in [at : 0..LastHour, beats : 0..MaxBeats] /\ hour'.at = hour.at + 1
    BY <1>1, <1>2 DEF WishTypes
  <1>4. wish' \in [policy : Policies \cup {"none"}, reach : BOOLEAN] /\ wish'.policy = wish.policy
    <2> DEFINE b == wish.reach /\ ~Wants!Midnight
    <2>1. b \in BOOLEAN
      BY Zenon
    <2>2. wish' = [wish EXCEPT !.reach = b]
      BY <1>1
    <2> HIDE DEF b
    <2> QED
      BY <1>2, <2>1, <2>2 DEF WishTypes
  <1>5. /\ history' \in Histories /\ history'.ticks = IF Wants!SleptThrough THEN {} ELSE history.ticks
        /\ history'.kills = history.kills /\ history'.dreams = history.dreams
        /\ history'.raises = history.raises
        /\ history'.mute = IF Wants!Midnight THEN 0 ELSE history.mute
        /\ history'.cut = IF Wants!Midnight THEN 0 ELSE history.cut
        /\ history'.crossed = history.crossed /\ history'.fallen = history.fallen
    BY <1>1, <1>2 DEF WishTypes, Histories
  <1>6. Wants!Day' >= Wants!Day /\ Wants!Day' \in Nat
    <2>1. PICK h \in Nat : h = hour.at
      BY <1>2
    <2>2. (h + 1) \div 4 >= h \div 4 /\ (h + 1) \div 4 \in Nat
      OBVIOUS
    <2> QED
      BY <1>3, <2>1, <2>2 DEF Wants!Day
  <1>7. mind.daily.day \in Int /\ mindDisk.daily.day \in Int
    BY <1>2 DEF WishTypes, Minds, Dailies
  <1>8. WishTypes'
    <2>1. diary' \in [Wants!Kinds -> Nat]
      BY <1>1, <1>2 DEF WishTypes, Wants!NoRows
    <2>2. ~pulse'.on /\ ~pulse'.decided /\ PulseOK'
      BY <1>1, <1>2, PulseStands DEF WishTypes, PulseOK
    <2> QED
      BY <1>1, <1>2, <1>3, <1>4, <1>5, <1>6, <1>7, <2>1, <2>2 DEF WishTypes
  <1>9. history.kills = 0 => NightInv'
    <2> SUFFICES ASSUME history.kills = 0 PROVE NightInv'
      OBVIOUS
    <2>1. NightInv
      BY DEF WishInv
    <2>2. PICK h \in Nat : h = hour.at
      BY <1>2
    <2>3. CASE h % 4 = 2
      <3>1. Wants!Window
        BY <2>2, <2>3 DEF Wants!Window
      <3>2. history'.ticks = {}
        BY <1>5, <2>1, <3>1 DEF NightInv, Wants!SleptThrough
      <3> QED
        BY <3>2 DEF NightInv
    <2>4. CASE h % 4 # 2
      <3>1. Wants!NightOf = IF h % 4 = 3 THEN h \div 4 ELSE (h \div 4) - 1
        BY <2>2 DEF Wants!NightOf, Wants!Day
      <3>2. Wants!NightOf' = IF (h + 1) % 4 = 3 THEN (h + 1) \div 4 ELSE ((h + 1) \div 4) - 1
        BY <2>2, <1>3 DEF Wants!NightOf, Wants!Day
      <3>3. (IF (h + 1) % 4 = 3 THEN (h + 1) \div 4 ELSE ((h + 1) \div 4) - 1)
              = (IF h % 4 = 3 THEN h \div 4 ELSE (h \div 4) - 1)
        BY <2>4
      <3> QED
        BY <1>1, <1>5, <2>1, <3>1, <3>2, <3>3 DEF NightInv
    <2> QED
      BY <2>3, <2>4
  <1>10. history.kills = 0 => DreamInv' /\ FallInv'
    BY <1>1, <1>4, <1>5 DEF WishInv, DreamInv, FallInv
  <1>11. WordInv'
    <2>1. PICK h \in Nat : h = hour.at
      BY <1>2
    <2>2. CASE (h + 1) % 4 = 0
      <3>1. Wants!Day' > Wants!Day
        <4>1. (h + 1) \div 4 > h \div 4
          BY <2>2
        <4> QED
          BY <1>3, <2>1, <4>1 DEF Wants!Day
      <3>2. mind.daily.day # Wants!Day' /\ mindDisk.daily.day # Wants!Day'
        BY <1>2, <1>6, <1>7, <3>1 DEF WishTypes
      <3>3. Taken(mind)' = 0 /\ Taken(mindDisk)' = 0
        BY <1>1, <3>2 DEF Taken
      <3>4. Wants!Midnight
        BY <2>1, <2>2 DEF Wants!Midnight
      <3>5. Accounted' = 0 /\ history'.cut = 0 /\ Unsaved' = 0
        BY <1>1, <1>2, <1>5, <3>4 DEF Accounted, Unsaved, Wants!NoRows, Wants!Kinds, WishTypes, PulseOK
      <3> QED
        BY <3>3, <3>5 DEF WordInv
    <2>3. CASE (h + 1) % 4 # 0
      <3>1. Wants!Day' = Wants!Day
        <4>1. (h + 1) \div 4 = h \div 4
          BY <2>3
        <4> QED
          BY <1>3, <2>1, <4>1 DEF Wants!Day
      <3>2. ~Wants!Midnight
        BY <2>1, <2>3 DEF Wants!Midnight
      <3> QED
        BY <1>1, <1>5, <3>1, <3>2 DEF WishInv, WordInv, Taken, Accounted, Unsaved
    <2> QED
      BY <2>2, <2>3
  <1> QED
    BY <1>1, <1>5, <1>8, <1>9, <1>10, <1>11 DEF WishInv

LEMMA WishOtherSteps ==
  ASSUME WishInv, Wants!OtherSave \/ Wants!Kill \/ Wants!Build
  PROVE  WishInv'
  <1>1. WishTypes /\ mind \in Minds
    BY DEF WishInv, WishTypes
  <1>2. CASE Wants!OtherSave
    <2>1. /\ mindDisk' = mind /\ mind' = mind /\ hour' = hour /\ pulse' = pulse /\ wish' = wish
          /\ diary' = diary /\ history' = history /\ ~pulse.decided
      BY <1>2 DEF Wants!OtherSave
    <2>2. Wants!Day' = Wants!Day /\ Wants!NightOf' = Wants!NightOf
      BY <2>1 DEF Wants!Day, Wants!NightOf
    <2>3. WishTypes'
      <3>1. PulseOK'
        BY <1>1, <2>1, PulseStands DEF WishTypes
      <3> QED
        BY <1>1, <2>1, <2>2, <3>1 DEF WishTypes
    <2>4. history.kills = 0 => DreamInv' /\ FallInv' /\ NightInv'
      BY <2>1, <2>2 DEF WishInv, DreamInv, FallInv, NightInv
    <2>5. WordInv'
      <3>1. /\ Taken(mind)' = Taken(mind) /\ Taken(mindDisk)' = Taken(mind)
            /\ Accounted' = Accounted /\ Unsaved' = Unsaved /\ Unsaved = 0
        BY <2>1, <2>2 DEF Taken, Accounted, Unsaved
      <3>2. Taken(mind) \in Nat /\ history.cut \in Nat
        BY <1>1 DEF WishTypes, Taken, Minds, Dailies, Histories
      <3> QED
        BY <2>1, <3>1, <3>2 DEF WishInv, WordInv
    <2> QED
      BY <2>1, <2>3, <2>4, <2>5 DEF WishInv
  <1>3. CASE Wants!Kill
    <2>1. /\ mind' = mindDisk /\ mindDisk' = mindDisk /\ hour' = hour /\ diary' = diary
          /\ wish' = [wish EXCEPT !.reach = FALSE]
          /\ pulse' = Wants!NoPulse
          /\ history' = [history EXCEPT !.kills = @ + 1, !.cut = @ + Unsaved]
      BY <1>3 DEF Wants!Kill, Unsaved
    <2>2. Wants!Day' = Wants!Day
      BY <2>1 DEF Wants!Day
    <2>3. /\ history' \in Histories /\ history'.kills = history.kills + 1
          /\ history'.mute = history.mute /\ history'.cut = history.cut + Unsaved
          /\ history.kills \in Nat /\ history.cut \in Nat /\ Unsaved \in Nat
      <3>1. Unsaved \in Nat /\ history \in Histories
        BY <1>1 DEF Unsaved, WishTypes
      <3> DEFINE k == history.kills + 1
                 c == history.cut + Unsaved
      <3>2. k \in Nat /\ c \in Nat /\ history' = [history EXCEPT !.kills = k, !.cut = c]
        BY <2>1, <3>1 DEF Histories
      <3>3. history.kills \in Nat /\ history.cut \in Nat
        BY <3>1 DEF Histories
      <3> HIDE DEF k, c
      <3>4. history' \in Histories /\ history'.kills = k /\ history'.cut = c /\ history'.mute = history.mute
        BY <3>1, <3>2 DEF Histories
      <3> QED
        BY <3>1, <3>3, <3>4 DEF k, c
    <2>31. pulse'.on = FALSE /\ pulse'.decided = FALSE /\ PulseOK'
      BY <2>1, PulseEnds
    <2>4. history'.kills # 0
      BY <2>3
    <2>5. WishTypes'
      BY <1>1, <2>1, <2>2, <2>3, <2>31 DEF WishTypes
    <2>6. WordInv'
      <3>1. Taken(mind)' = Taken(mindDisk) /\ Taken(mindDisk)' = Taken(mindDisk) /\ Accounted' = Accounted
        BY <2>1, <2>2, <2>3 DEF Taken, Accounted
      <3>2. Unsaved' = 0
        BY <2>31 DEF Unsaved
      <3>3. Taken(mindDisk) \in Nat
        BY <1>1 DEF WishTypes, Taken, Minds, Dailies
      <3> QED
        BY <2>3, <3>1, <3>2, <3>3 DEF WishInv, WordInv
    <2> QED
      BY <2>4, <2>5, <2>6 DEF WishInv
  <1>4. CASE Wants!Build
    <2>1. PICK p \in Policies : wish' = [wish EXCEPT !.policy = p]
      BY <1>4 DEF Wants!Build
    <2>2. /\ mindDisk' = mindDisk /\ mind' = mind /\ hour' = hour /\ pulse' = pulse
          /\ diary' = diary /\ history' = history /\ wish.policy = "none"
      BY <1>4 DEF Wants!Build
    <2>3. wish' \in [policy : Policies \cup {"none"}, reach : BOOLEAN] /\ wish'.policy = p /\ p # "none"
      BY <1>1, <2>1, WishConstants DEF WishTypes
    <2>4. Wants!Day' = Wants!Day /\ Wants!NightOf' = Wants!NightOf
      BY <2>2 DEF Wants!Day, Wants!NightOf
    <2>5. WishTypes'
      <3>1. PulseOK'
        BY <1>1, <2>2, PulseStands DEF WishTypes
      <3> QED
        BY <1>1, <2>2, <2>3, <2>4, <3>1 DEF WishTypes
    <2>6. history.kills = 0 => DreamInv' /\ FallInv' /\ NightInv'
      BY <2>2, <2>3, <2>4 DEF WishInv, DreamInv, FallInv, NightInv
    <2>7. WordInv'
      BY <2>2, <2>4 DEF WishInv, WordInv, Taken, Accounted, Unsaved
    <2> QED
      BY <2>2, <2>5, <2>6, <2>7 DEF WishInv
  <1> QED
    BY <1>2, <1>3, <1>4

LEMMA WishStep == WishInv /\ [Wants!Next]_mvars => WishInv'
  <1> SUFFICES ASSUME WishInv, [Wants!Next]_mvars PROVE WishInv'
    OBVIOUS
  <1>1. CASE UNCHANGED mvars
    <2>1. /\ mind' = mind /\ mindDisk' = mindDisk /\ hour' = hour /\ pulse' = pulse /\ wish' = wish
          /\ diary' = diary /\ history' = history
      BY <1>1 DEF mvars
    <2>2. Wants!Day' = Wants!Day /\ Wants!NightOf' = Wants!NightOf
      BY <2>1 DEF Wants!Day, Wants!NightOf
    <2>3. WishTypes'
      BY <2>1, <2>2, PulseStands DEF WishInv, WishTypes
    <2>4. WordInv'
      BY <2>1, <2>2 DEF WishInv, WordInv, Taken, Accounted, Unsaved
    <2>5. history.kills = 0 => DreamInv' /\ FallInv' /\ NightInv'
      BY <2>1, <2>2 DEF WishInv, DreamInv, FallInv, NightInv
    <2> QED
      BY <2>1, <2>3, <2>4, <2>5 DEF WishInv
  <1>2. CASE Wants!Next
    BY <1>2, WishOtherSteps, StartStep, RaiseStep, DecidesStep, DoneStep, AnswerStep, WishTickStep DEF Wants!Next
  <1> QED
    BY <1>1, <1>2

LEMMA WishesFollow ==
  ASSUME WishInv
  PROVE  /\ Wants!OneDeepDream /\ Wants!FallBetweenWords
         /\ Wants!WordsAreMoments /\ Wants!DreamOfOneNight
         /\ Wants!TypeOK
  <1>1. WishTypes /\ Wants!WordsAreMoments
    BY DEF WishInv, WordInv, Taken, Accounted, Wants!WordsAreMoments
  <1>2. Wants!OneDeepDream /\ Wants!FallBetweenWords
    BY DEF WishInv, DreamInv, FallInv, Wants!OneDeepDream, Wants!FallBetweenWords
  <1>3. Wants!DreamOfOneNight
    <2> SUFFICES ASSUME history.kills = 0 PROVE Wants!Cardinality(history.ticks) <= 1
      BY DEF Wants!DreamOfOneNight
    <2>1. history.ticks \subseteq {Wants!NightOf}
      BY DEF WishInv, NightInv
    <2>2. history.ticks = {} \/ history.ticks = {Wants!NightOf}
      BY <2>1
    <2>3. Cardinality({}) = 0 /\ Cardinality({Wants!NightOf}) = 1
      BY FS_EmptySet, FS_Singleton
    <2>4. Wants!Cardinality(history.ticks) = Cardinality(history.ticks)
      BY DEF Wants!Cardinality, Cardinality
    <2> QED
      BY <2>2, <2>3, <2>4
  <1>4. Wants!TypeOK
    BY <1>1 DEF WishTypes, Wants!TypeOK, Minds, Dreams, Murmurs, Dailies
  <1> QED
    BY <1>1, <1>2, <1>3, <1>4

------------------------------------------------------------------------------
Ps       == 0..Age!Full
AgeModels == {"none", "linear", "weibull", "event", "reserve"}
AgeDays  == [day : 0..LastDay, interacted : BOOLEAN, seen : BOOLEAN, high : Nat]
Tellings == [track : {"A", "B"}, epoch : 0..4]
AgeRecords ==
  [p : Ps, daily : AgeDays, shadow : Nat, model : AgeModels, active : Nat, fast : Ps,
   samples : Nat, b : Nat, told : Seq(Tellings), milestone : Int]
Pasts ==
  [core : Int, either : BOOLEAN, paid : Nat, fired : Nat, unseen : BOOLEAN, troubles : Nat, kills : Nat,
   lost : Nat]

AgeTypes ==
  /\ aging \in AgeRecords /\ agingDisk \in AgeRecords
  /\ settled \in [last : {-1} \cup Ps, days : Nat]
  /\ way \in Ways \cup {Age!NoWay} /\ date \in 0..LastDay
  /\ past \in Pasts

LEMMA AgeConstants ==
  /\ Lifespan \in Nat \ {0} /\ Age!Full \in Nat \ {0} /\ Age!Full = 20 * Lifespan
  /\ Wear \in Seq(Nat) /\ Wear # <<>>
  /\ \A t \in 1..(Len(Wear) - 1) : Wear[t] <= Wear[t + 1]
  /\ \A w \in Ways : w.model \in {"linear", "weibull", "event", "reserve"}
  /\ Lived \subseteq [interacted : BOOLEAN, seen : BOOLEAN, high : Nat, concern : Nat, shadow : BOOLEAN]
  /\ LastDay \in Nat /\ MinSamples \in Nat
  BY GrownConstants DEF Age!DeepFinitudeAssumption, Age!WearingAssumption, Age!Full, Age!Unit

------------------------------------------------------------------------------
(* The epochs.                                                               *)
LEMMA Epochs ==
  ASSUME NEW p \in Ps, NEW q \in Ps, q <= p
  PROVE  /\ Age!EpochIndex(p) \in 0..4 /\ Age!EpochIndex(p) <= Age!EpochIndex(q)
  <1> PICK f \in Nat \ {0} : f = Age!Full
    BY AgeConstants
  <1>1. p \in 0..f /\ q \in 0..f
    BY DEF Ps
  <1>2. \A x \in 0..f :
          /\ Age!EpochIndex(x) \in 0..4
          /\ Age!EpochIndex(x) = 0 <=> 10 * x > 6 * f
          /\ Age!EpochIndex(x) <= 1 <=> 10 * x > 3 * f
          /\ Age!EpochIndex(x) <= 2 <=> 20 * x > 3 * f
          /\ Age!EpochIndex(x) <= 3 <=> x > 0
    <2> TAKE x \in 0..f
    <2>1. CASE 10 * x > 6 * f
      BY <2>1 DEF Age!EpochIndex
    <2>2. CASE 10 * x <= 6 * f /\ 10 * x > 3 * f
      BY <2>2 DEF Age!EpochIndex
    <2>3. CASE 10 * x <= 3 * f /\ 20 * x > 3 * f
      BY <2>3 DEF Age!EpochIndex
    <2>4. CASE 20 * x <= 3 * f /\ x > 0
      BY <2>4 DEF Age!EpochIndex
    <2>5. CASE x = 0
      BY <2>5 DEF Age!EpochIndex
    <2> QED
      BY <2>1, <2>2, <2>3, <2>4, <2>5
  <1> PICK a \in 0..4, b \in 0..4 : a = Age!EpochIndex(p) /\ b = Age!EpochIndex(q)
    BY <1>1, <1>2
  <1>3. /\ a = 0 <=> 10 * p > 6 * f
        /\ a <= 1 <=> 10 * p > 3 * f
        /\ a <= 2 <=> 20 * p > 3 * f
        /\ a <= 3 <=> p > 0
        /\ b = 0 <=> 10 * q > 6 * f
        /\ b <= 1 <=> 10 * q > 3 * f
        /\ b <= 2 <=> 20 * q > 3 * f
        /\ b <= 3 <=> q > 0
    BY <1>1, <1>2
  <1>4. a <= b
    BY <1>1, <1>3
  <1> QED
    BY <1>4

(* What was told so far, at a P and after so many firings.                   *)
Told(s, p, b) ==
  /\ \A i, j \in DOMAIN s :
       i < j /\ s[i].track = s[j].track
         => \/ s[i].epoch < s[j].epoch
            \/ s[i] = s[j] /\ s[j] = [track |-> "B", epoch |-> 4]
  /\ \A i \in DOMAIN s : s[i].track = "A" => s[i].epoch <= Age!EpochIndex(p)
  /\ \A i \in DOMAIN s : s[i].track = "B" => s[i].epoch <= b

LEMMA ToldStill ==
  ASSUME NEW s \in Seq(Tellings), NEW p \in Ps, NEW q \in Ps, q <= p,
         NEW b \in Nat, NEW c \in Nat, b <= c, Told(s, p, b)
  PROVE  Told(s, q, c)
  <1>1. \A i \in DOMAIN s : s[i].epoch \in 0..4
    <2>1. \A i \in DOMAIN s : s[i] \in Tellings
      OBVIOUS
    <2> QED
      BY <2>1 DEF Tellings
  <1> PICK x \in 0..4, y \in 0..4 : x = Age!EpochIndex(p) /\ y = Age!EpochIndex(q) /\ x <= y
    <2>1. q <= q
      BY DEF Ps
    <2> QED
      BY <2>1, Epochs
  <1>2. \A i \in DOMAIN s : s[i].track = "A" => s[i].epoch <= y
    BY <1>1 DEF Told
  <1>3. \A i \in DOMAIN s : s[i].track = "B" => s[i].epoch <= c
    BY <1>1 DEF Told
  <1> QED
    BY <1>2, <1>3 DEF Told

LEMMA ToldMore ==
  ASSUME NEW s \in Seq(Tellings), NEW p \in Ps, NEW q \in Ps, q <= p,
         NEW b \in Nat, NEW c \in Nat, b <= c, Told(s, p, b), NEW e \in Tellings,
         \/ e.track = "A" /\ e.epoch = Age!EpochIndex(q) /\ Age!EpochIndex(q) # Age!EpochIndex(p)
         \/ e.track = "B" /\ e.epoch = Age!Least(b + 1, 4) /\ c = b + 1
  PROVE  Append(s, e) \in Seq(Tellings) /\ Told(Append(s, e), q, c)
  <1> PICK n \in Nat : n = Len(s) /\ DOMAIN s = 1..n
    OBVIOUS
  <1> DEFINE t == Append(s, e)
  <1>1. /\ t \in Seq(Tellings) /\ DOMAIN t = 1..(n + 1) /\ t[n + 1] = e
        /\ \A i \in 1..n : t[i] = s[i]
    OBVIOUS
  <1> HIDE DEF t
  <1>2. Told(s, q, c)
    BY ToldStill
  <1>3. e.epoch \in 0..4 /\ e = [track |-> e.track, epoch |-> e.epoch] /\ e.track \in {"A", "B"}
    BY DEF Tellings
  <1>4. \A i \in 1..n : s[i].epoch \in 0..4 /\ s[i].track \in {"A", "B"}
                        /\ s[i] = [track |-> s[i].track, epoch |-> s[i].epoch]
    <2>1. \A i \in 1..n : s[i] \in Tellings
      OBVIOUS
    <2> QED
      BY <2>1 DEF Tellings
  <1>5. ASSUME NEW i \in 1..n, s[i].track = e.track
        PROVE  s[i].epoch < e.epoch \/ (s[i] = e /\ e = [track |-> "B", epoch |-> 4])
    <2>1. CASE e.track = "A"
      <3> PICK x \in 0..4, y \in 0..4 : x = Age!EpochIndex(p) /\ y = Age!EpochIndex(q) /\ x <= y
        <4>1. q <= q
          BY DEF Ps
        <4> QED
          BY <4>1, Epochs
      <3>1. s[i].epoch <= x
        BY <1>5, <2>1 DEF Told
      <3>2. e.epoch = y /\ y # x
        BY <1>3, <2>1
      <3> PICK k \in 0..4 : k = s[i].epoch
        BY <1>4
      <3>3. k < y
        BY <3>1, <3>2
      <3> QED
        BY <3>2, <3>3
    <2>2. CASE e.track = "B"
      <3>1. s[i].epoch <= b
        BY <1>5, <2>2 DEF Told
      <3>2. e.epoch = IF b + 1 < 4 THEN b + 1 ELSE 4
        BY <2>2 DEF Age!Least
      <3> PICK k \in 0..4 : k = s[i].epoch
        BY <1>4
      <3>3. s[i].epoch < e.epoch \/ (s[i].epoch = 4 /\ e.epoch = 4)
        BY <3>1, <3>2
      <3>4. CASE s[i].epoch = 4 /\ e.epoch = 4
        <4>1. s[i] = [track |-> "B", epoch |-> 4]
          BY <1>4, <1>5, <2>2, <3>4
        <4>2. e = [track |-> "B", epoch |-> 4]
          BY <1>3, <2>2, <3>4
        <4> QED
          BY <4>1, <4>2
      <3> QED
        BY <3>3, <3>4
    <2> QED
      BY <1>3, <2>1, <2>2
  <1>6. e.track = "A" => e.epoch <= Age!EpochIndex(q)
    BY <1>3
  <1>7. e.track = "B" => e.epoch <= c
    <2>1. e.track = "B" => e.epoch = (IF b + 1 < 4 THEN b + 1 ELSE 4) /\ c = b + 1
      BY DEF Age!Least
    <2> QED
      BY <2>1
  <1>8. ASSUME NEW i \in 1..(n + 1), NEW j \in 1..(n + 1), i < j, t[i].track = t[j].track
        PROVE  \/ t[i].epoch < t[j].epoch
               \/ t[i] = t[j] /\ t[j] = [track |-> "B", epoch |-> 4]
    <2>1. i \in 1..n /\ t[i] = s[i]
      BY <1>1, <1>8
    <2>2. CASE j = n + 1
      BY <1>1, <1>5, <1>8, <2>1, <2>2
    <2>3. CASE j \in 1..n
      BY <1>1, <1>8, <2>1, <2>3 DEF Told
    <2> QED
      BY <1>8, <2>2, <2>3
  <1>9. ASSUME NEW i \in 1..(n + 1)
        PROVE  /\ t[i].track = "A" => t[i].epoch <= Age!EpochIndex(q)
               /\ t[i].track = "B" => t[i].epoch <= c
    <2>1. CASE i = n + 1
      BY <1>1, <1>6, <1>7, <2>1
    <2>2. CASE i \in 1..n
      BY <1>1, <1>2, <2>2 DEF Told
    <2> QED
      BY <2>1, <2>2
  <1>10. Told(t, q, c)
    BY <1>1, <1>8, <1>9 DEF Told
  <1> QED
    BY <1>1, <1>10 DEF t

------------------------------------------------------------------------------
LEMMA CoreSpends ==
  ASSUME NEW high \in Nat
  PROVE  Age!CoreSpend(high) \in Nat
  <1> PICK k \in Nat : k = (20 * high) \div 2
    OBVIOUS
  <1>1. Age!CoreSpend(high) = IF 20 + k < 40 THEN 20 + k ELSE 40
    BY DEF Age!CoreSpend, Age!Unit, Age!Least
  <1> QED
    BY <1>1

LEMMA WornBase ==
  ASSUME NEW f, f.age \in Nat
  PROVE  Age!WeibullBase(f) \in Nat
  <1> PICK a \in Nat : a = f.age
    OBVIOUS
  <1> PICK n \in Nat : n = Len(Wear) /\ n >= 1
    BY AgeConstants
  <1> DEFINE i == IF a + 1 < n THEN a + 1 ELSE n
             j == IF a + 2 < n THEN a + 2 ELSE n
  <1>1. i \in 1..n /\ j \in 1..n /\ (j = i \/ (j = i + 1 /\ i \in 1..(n - 1)))
    OBVIOUS
  <1>2. Wear[i] \in Nat /\ Wear[j] \in Nat
    BY <1>1, AgeConstants
  <1>3. Age!WearAt(a) = Wear[i] /\ Age!WearAt(a + 1) = Wear[j]
    <2>1. (a + 1) + 1 = a + 2
      OBVIOUS
    <2> QED
      BY <2>1 DEF Age!WearAt, Age!Least
  <1> HIDE DEF i, j
  <1>4. Wear[i] <= Wear[j]
    <2>1. CASE j = i
      BY <1>2, <2>1
    <2>2. CASE j = i + 1 /\ i \in 1..(n - 1)
      BY <2>2, AgeConstants
    <2> QED
      BY <1>1, <2>1, <2>2
  <1> QED
    BY <1>2, <1>3, <1>4 DEF Age!WeibullBase

Factual(f) == f.high \in Nat /\ f.concern \in Nat /\ f.shift \in BOOLEAN /\ f.age \in Nat

(* What a day leaves of P and of the fast pool.                              *)
Left2(model, p, fast, f) == Age!Gated(p, Age!Spent(model, p, fast, f))

LEMMA GatedIs ==
  ASSUME NEW p \in Ps, NEW x \in Int, NEW y
  PROVE  /\ Age!Gated(p, Age!Outcome(x, y)) = [p |-> Age!Least(p, Age!Floor(x)), fast |-> y]
         /\ Age!Least(p, Age!Floor(x)) \in Ps /\ Age!Least(p, Age!Floor(x)) <= p
  <1>1. Age!Gated(p, Age!Outcome(x, y)) = [p |-> Age!Least(p, Age!Floor(x)), fast |-> y]
    BY DEF Age!Gated, Age!Outcome
  <1> PICK n \in Nat : n = Age!Full
    BY AgeConstants
  <1>2. p \in 0..n
    BY DEF Ps
  <1>3. Age!Least(p, Age!Floor(x)) \in 0..n /\ Age!Least(p, Age!Floor(x)) <= p
    BY <1>2 DEF Age!Least, Age!Floor
  <1> QED
    BY <1>1, <1>3 DEF Ps

LEMMA EventIs ==
  ASSUME NEW p \in Ps, NEW fast \in Ps, NEW f, Factual(f)
  PROVE  \E x \in Int : Age!Event(p, fast, f) = Age!Outcome(x, fast)
  <1> PICK h \in Nat, c \in Nat : h = f.high /\ c = f.concern
    BY DEF Factual
  <1> PICK s \in Nat : s = IF f.shift THEN 8 ELSE 0
    BY DEF Factual
  <1> PICK k \in Nat : k = 5 + 10 * h + 7 * c + s
    OBVIOUS
  <1> PICK l \in Nat : l = Age!Least(k, 2 * 20)
    BY DEF Age!Least
  <1>1. Age!Floor(p - l) \in Int
    BY DEF Age!Floor, Ps
  <1>2. Age!Event(p, fast, f) = Age!Outcome(Age!Floor(p - l), fast)
    BY DEF Age!Event, Age!Unit
  <1> QED
    BY <1>1, <1>2

LEMMA WeibullIs ==
  ASSUME NEW p \in Ps, NEW fast \in Ps, NEW f, Factual(f)
  PROVE  \E x \in Int : Age!Weibull(p, fast, f) = Age!Outcome(x, fast)
  <1> PICK h \in Nat, w \in Nat : h = f.high /\ w = Age!WeibullBase(f)
    BY WornBase DEF Factual
  <1> PICK wh \in Int : wh = w * h
    OBVIOUS
  <1> PICK k \in Int : k = w + wh \div 2
    OBVIOUS
  <1> PICK l \in Int : l = Age!Least(k, 2 * w)
    BY DEF Age!Least
  <1>1. Age!Floor(p - l) \in Int
    BY DEF Age!Floor, Ps
  <1>2. Age!Weibull(p, fast, f) = Age!Outcome(Age!Floor(p - l), fast)
    BY DEF Age!Weibull
  <1> QED
    BY <1>1, <1>2

LEMMA LinearIs ==
  ASSUME NEW p \in Ps, NEW fast, NEW f, Factual(f)
  PROVE  /\ Age!Linear(p, fast, f) = Age!Outcome(Age!Floor(p - Age!CoreSpend(f.high)), fast)
         /\ Age!Floor(p - Age!CoreSpend(f.high)) \in Int
         /\ Age!Least(p, Age!Floor(Age!Floor(p - Age!CoreSpend(f.high)))) = Age!Floor(p - Age!CoreSpend(f.high))
  <1> PICK k \in Nat : k = Age!CoreSpend(f.high)
    BY CoreSpends DEF Factual
  <1> PICK n \in Nat : p = n
    BY DEF Ps
  <1>1. /\ Age!Floor(n - k) \in Int
        /\ Age!Least(n, Age!Floor(Age!Floor(n - k))) = Age!Floor(n - k)
    BY DEF Age!Floor, Age!Least
  <1> QED
    BY <1>1 DEF Age!Linear

LEMMA ReserveIs ==
  ASSUME NEW p \in Ps, NEW fast \in Ps, NEW f, Factual(f)
  PROVE  \E x \in Int, y \in Ps : /\ Age!Reserve(p, fast, f) = Age!Outcome(x, y)
                                  /\ y <= Age!Least(p, Age!Floor(x))
  <1>0. \A v \in Int : Age!Least(1, Age!Floor(v)) \in Nat
    BY DEF Age!Least, Age!Floor
  <1> PICK n \in Nat : n = Age!Full
    BY AgeConstants
  <1> PICK q \in 0..n, t \in 0..n : q = p /\ t = fast
    BY DEF Ps
  <1> PICK h \in Nat, c \in Nat : h = f.high /\ c = f.concern
    BY DEF Factual
  <1> PICK e \in Nat : e = h + c
    OBVIOUS
  <1> PICK s \in 0..n : s = Age!Least(t, q)
    BY DEF Age!Least
  <1> PICK w \in 0..n : w = Age!Floor(q - 20) /\ w <= q
    BY DEF Age!Floor
  <1> PICK k \in Nat : k = (20 * e) \div 2
    OBVIOUS
  <1> PICK d \in Int : d = s - 2 * (20 + k)
    OBVIOUS
  <1>3. w - s \in Int
    OBVIOUS
  <1> PICK g \in Nat : g = Age!Least(1, Age!Floor(w - s))
    BY <1>0, <1>3
  <1> PICK z \in Nat : z = IF e > 0 THEN Age!Floor(d) ELSE s + g
    <2>1. Age!Floor(d) \in Nat
      BY DEF Age!Floor
    <2> QED
      BY <2>1
  <1>1. Age!Least(w, z) \in 0..n /\ Age!Least(w, z) <= w /\ Age!Least(q, Age!Floor(w)) = w
    BY DEF Age!Least, Age!Floor
  <1>2. Age!Reserve(p, fast, f) = Age!Outcome(w, Age!Least(w, z))
    BY DEF Age!Reserve, Age!Unit
  <1> QED
    BY <1>1, <1>2 DEF Ps

LEMMA SpentIs ==
  ASSUME NEW model \in AgeModels, NEW p \in Ps, NEW fast \in Ps, NEW f, Factual(f)
  PROVE  /\ Left2(model, p, fast, f) \in [p : Ps, fast : Ps]
         /\ Left2(model, p, fast, f).p <= p
         /\ model = "reserve" => Left2(model, p, fast, f).fast <= Left2(model, p, fast, f).p
         /\ model = "linear" => Left2(model, p, fast, f).p = Age!Floor(p - Age!CoreSpend(f.high))
  <1>1. CASE model = "weibull"
    <2> PICK x \in Int : Age!Weibull(p, fast, f) = Age!Outcome(x, fast)
      BY WeibullIs
    <2>1. Left2(model, p, fast, f) = [p |-> Age!Least(p, Age!Floor(x)), fast |-> fast]
      BY <1>1, GatedIs DEF Left2, Age!Spent
    <2> QED
      BY <1>1, <2>1, GatedIs
  <1>2. CASE model = "event"
    <2> PICK x \in Int : Age!Event(p, fast, f) = Age!Outcome(x, fast)
      BY EventIs
    <2>1. Left2(model, p, fast, f) = [p |-> Age!Least(p, Age!Floor(x)), fast |-> fast]
      BY <1>2, GatedIs DEF Left2, Age!Spent
    <2> QED
      BY <1>2, <2>1, GatedIs
  <1>3. CASE model = "reserve"
    <2> PICK x \in Int, y \in Ps : /\ Age!Reserve(p, fast, f) = Age!Outcome(x, y)
                                   /\ y <= Age!Least(p, Age!Floor(x))
      BY ReserveIs
    <2>1. Left2(model, p, fast, f) = [p |-> Age!Least(p, Age!Floor(x)), fast |-> y]
      BY <1>3, GatedIs DEF Left2, Age!Spent
    <2> QED
      BY <1>3, <2>1, GatedIs
  <1>4. CASE model \in {"linear", "none"}
    <2> DEFINE x == Age!Floor(p - Age!CoreSpend(f.high))
    <2>1. Age!Linear(p, fast, f) = Age!Outcome(x, fast) /\ x \in Int /\ Age!Least(p, Age!Floor(x)) = x
      BY LinearIs
    <2>2. Left2(model, p, fast, f) = Age!Gated(p, Age!Linear(p, fast, f))
      BY <1>4 DEF Left2, Age!Spent
    <2> HIDE DEF x
    <2>3. Left2(model, p, fast, f) = [p |-> Age!Least(p, Age!Floor(x)), fast |-> fast]
      BY <2>1, <2>2, GatedIs
    <2>4. /\ Left2(model, p, fast, f) \in [p : Ps, fast : Ps]
          /\ Left2(model, p, fast, f).p <= p /\ Left2(model, p, fast, f).p = x
      BY <2>1, <2>3, GatedIs
    <2> QED
      BY <1>4, <2>4 DEF x
  <1> QED
    BY <1>1, <1>2, <1>3, <1>4 DEF AgeModels

LEMMA CorePs ==
  ASSUME NEW p \in Ps, NEW d \in AgeDays
  PROVE  Age!CoreP(p, d) \in Ps /\ Age!CoreP(p, d) <= p
  <1> PICK k \in Nat : k = Age!CoreSpend(d.high)
    BY CoreSpends DEF AgeDays
  <1> PICK n \in Nat : n = Age!Full
    BY AgeConstants
  <1>1. p \in 0..n
    BY DEF Ps
  <1>2. Age!Floor(p - k) \in 0..n /\ Age!Floor(p - k) <= p
    BY <1>1 DEF Age!Floor
  <1> QED
    BY <1>1, <1>2 DEF Age!CoreP, Ps

------------------------------------------------------------------------------
LEMMA FactsAre ==
  ASSUME NEW r \in AgeRecords
  PROVE  /\ Factual(Age!Facts(r)) /\ Age!Facts(r).high = r.daily.high
         /\ Age!Facts(r).active <=> r.daily.interacted \/ r.daily.seen
  <1>1. r.daily \in AgeDays /\ r.shadow \in Nat /\ r.active \in Nat
    BY DEF AgeRecords
  <1>2. r.daily.high \in Nat /\ r.daily.interacted \in BOOLEAN /\ r.daily.seen \in BOOLEAN
    BY <1>1 DEF AgeDays
  <1> QED
    BY <1>1, <1>2 DEF Age!Facts, Factual

LEMMA FreshDay ==
  ASSUME date \in 0..LastDay
  PROVE  /\ Age!NewDaily \in AgeDays /\ Age!NewDaily.day = date
         /\ ~Age!NewDaily.interacted /\ ~Age!NewDaily.seen /\ Age!NewDaily.high = 0
  <1> DEFINE Days == 0..LastDay
  <1>1. 0 \in Days /\ date \in Days
    BY AgeConstants
  <1> HIDE DEF Days
  <1>2. /\ Age!NoDay \in [day : Days, interacted : BOOLEAN, seen : BOOLEAN, high : Nat]
        /\ ~Age!NoDay.interacted /\ ~Age!NoDay.seen /\ Age!NoDay.high = 0
    BY <1>1 DEF Age!NoDay
  <1>3. /\ Age!NewDaily \in [day : Days, interacted : BOOLEAN, seen : BOOLEAN, high : Nat]
        /\ Age!NewDaily.day = date /\ Age!NewDaily.interacted = Age!NoDay.interacted
        /\ Age!NewDaily.seen = Age!NoDay.seen /\ Age!NewDaily.high = Age!NoDay.high
    BY <1>1, <1>2 DEF Age!NewDaily
  <1> QED
    BY <1>2, <1>3 DEF AgeDays, Days

LEMMA Noticed ==
  ASSUME NEW s \in Seq(Tellings), NEW p \in Ps, NEW q \in Ps, q <= p, NEW b \in Nat,
         Told(s, p, b), NEW fired \in BOOLEAN, NEW c, c.b = b
  PROVE  /\ s \o Age!Notice(c, p, q, fired) \in Seq(Tellings)
         /\ Told(s \o Age!Notice(c, p, q, fired), q, IF fired THEN b + 1 ELSE b)
  <1> DEFINE n == Age!Notice(c, p, q, fired)
             a == [track |-> "A", epoch |-> Age!EpochIndex(q)]
             e == [track |-> "B", epoch |-> Age!Least(b + 1, 4)]
  <1>1. s \o <<>> = s /\ (\A x \in Tellings : s \o <<x>> = Append(s, x))
    OBVIOUS
  <1> PICK d \in Nat : d = (IF fired THEN b + 1 ELSE b) /\ b <= d /\ (fired => d = b + 1)
    OBVIOUS
  <1>2. a \in Tellings /\ e \in Tellings
    <2>1. q <= q
      BY DEF Ps
    <2>2. Age!EpochIndex(q) \in 0..4
      BY <2>1, Epochs
    <2>3. Age!Least(b + 1, 4) \in 0..4
      BY DEF Age!Least
    <2> QED
      BY <2>2, <2>3 DEF Tellings
  <1>3. \/ n = <<>>
        \/ n = <<a>> /\ Age!EpochIndex(q) # Age!EpochIndex(p)
        \/ n = <<e>> /\ fired
    BY DEF Age!Notice
  <1> HIDE DEF n
  <1>4. ASSUME n = <<>> PROVE s \o n \in Seq(Tellings) /\ Told(s \o n, q, d)
    BY <1>1, <1>4, ToldStill
  <1>5. ASSUME n = <<a>>, Age!EpochIndex(q) # Age!EpochIndex(p)
        PROVE  s \o n \in Seq(Tellings) /\ Told(s \o n, q, d)
    <2>1. a.track = "A" /\ a.epoch = Age!EpochIndex(q)
      OBVIOUS
    <2> HIDE DEF a
    <2>2. Append(s, a) \in Seq(Tellings) /\ Told(Append(s, a), q, d)
      BY <1>2, <1>5, <2>1, ToldMore
    <2> QED
      BY <1>1, <1>2, <1>5, <2>2
  <1>6. ASSUME n = <<e>>, fired
        PROVE  s \o n \in Seq(Tellings) /\ Told(s \o n, q, d)
    <2>1. e.track = "B" /\ e.epoch = Age!Least(b + 1, 4)
      OBVIOUS
    <2> HIDE DEF e
    <2>2. Append(s, e) \in Seq(Tellings) /\ Told(Append(s, e), q, d)
      BY <1>2, <1>6, <2>1, ToldMore
    <2> QED
      BY <1>1, <1>2, <1>6, <2>2
  <1>7. s \o n \in Seq(Tellings) /\ Told(s \o n, q, d)
    BY <1>3, <1>4, <1>5, <1>6
  <1> QED
    BY <1>7 DEF n

(* A day that was counted, by whom it was not yet settled.                   *)
LEMMA CountedIs ==
  ASSUME NEW r \in AgeRecords
  PROVE  LET o == Left2(r.model, r.p, r.fast, Age!Facts(r))
             c == Age!Counted(r, o)
         IN /\ o.p \in Ps /\ o.p <= r.p /\ o.fast \in Ps
            /\ r.model = "reserve" => o.fast <= o.p
            /\ r.model = "linear" => o.p = Age!Floor(r.p - Age!CoreSpend(r.daily.high))
            /\ c \in AgeRecords /\ c.p = r.p /\ c.daily = r.daily /\ c.shadow = r.shadow
            /\ c.model = r.model /\ c.active = r.active + 1 /\ c.fast = o.fast
            /\ c.samples = r.samples /\ c.b = r.b /\ c.told = r.told
  <1> DEFINE o == Left2(r.model, r.p, r.fast, Age!Facts(r))
  <1>1. r.model \in AgeModels /\ r.p \in Ps /\ r.fast \in Ps /\ r.active \in Nat
    BY DEF AgeRecords
  <1>2. /\ o \in [p : Ps, fast : Ps] /\ o.p <= r.p
        /\ r.model = "reserve" => o.fast <= o.p
        /\ r.model = "linear" => o.p = Age!Floor(r.p - Age!CoreSpend(r.daily.high))
    <2>1. \A f : Factual(f)
            => /\ Left2(r.model, r.p, r.fast, f) \in [p : Ps, fast : Ps]
               /\ Left2(r.model, r.p, r.fast, f).p <= r.p
               /\ r.model = "reserve" => Left2(r.model, r.p, r.fast, f).fast <= Left2(r.model, r.p, r.fast, f).p
               /\ r.model = "linear"
                    => Left2(r.model, r.p, r.fast, f).p = Age!Floor(r.p - Age!CoreSpend(f.high))
      BY <1>1, SpentIs
    <2> QED
      BY <2>1, FactsAre
  <1> HIDE DEF o
  <1>3. o.fast \in Ps /\ o.p \in Ps
    BY <1>2
  <1> DEFINE active == r.active + 1
             fast == o.fast
             Tales == Seq(Tellings)
  <1>5. active \in Nat /\ fast \in Ps /\ Age!Counted(r, o) = [r EXCEPT !.active = active, !.fast = fast]
    BY <1>1, <1>3 DEF Age!Counted
  <1> HIDE DEF active, fast, Tales
  <1>6. r \in [p : Ps, daily : AgeDays, shadow : Nat, model : AgeModels, active : Nat, fast : Ps,
               samples : Nat, b : Nat, told : Tales, milestone : Int]
    BY DEF AgeRecords, Tales
  <1>7. Age!Counted(r, o) \in [p : Ps, daily : AgeDays, shadow : Nat, model : AgeModels, active : Nat, fast : Ps,
                               samples : Nat, b : Nat, told : Tales, milestone : Int]
    BY <1>5, <1>6
  <1>8. /\ Age!Counted(r, o).p = r.p
        /\ Age!Counted(r, o).daily = r.daily /\ Age!Counted(r, o).shadow = r.shadow
        /\ Age!Counted(r, o).model = r.model /\ Age!Counted(r, o).active = active
        /\ Age!Counted(r, o).fast = fast /\ Age!Counted(r, o).samples = r.samples
        /\ Age!Counted(r, o).b = r.b /\ Age!Counted(r, o).told = r.told
    BY <1>5, <1>6
  <1>4. /\ Age!Counted(r, o) \in AgeRecords /\ Age!Counted(r, o).p = r.p
        /\ Age!Counted(r, o).daily = r.daily /\ Age!Counted(r, o).shadow = r.shadow
        /\ Age!Counted(r, o).model = r.model /\ Age!Counted(r, o).active = r.active + 1
        /\ Age!Counted(r, o).fast = o.fast /\ Age!Counted(r, o).samples = r.samples
        /\ Age!Counted(r, o).b = r.b /\ Age!Counted(r, o).told = r.told
    BY <1>7, <1>8 DEF AgeRecords, Tales, active, fast
  <1> QED
    BY <1>2, <1>3, <1>4 DEF o

LEMMA DeepIs ==
  ASSUME NEW r \in AgeRecords, NEW fired \in BOOLEAN, date \in 0..LastDay, settled.days \in Nat,
         Told(r.told, r.p, r.b)
  PROVE  LET d == Age!Deep(r, fired).record
         IN /\ d \in AgeRecords /\ d.p <= r.p
            /\ d.daily = Age!NewDaily /\ d.shadow = r.shadow /\ d.model = r.model
            /\ d.active = r.active + 1
            /\ d.model = "reserve" => d.fast <= d.p
            /\ d.model = "linear" => d.p = Age!Floor(r.p - Age!CoreSpend(r.daily.high))
            /\ Told(d.told, d.p, d.b)
            /\ Age!Deep(r, fired).rows = [last |-> d.p, days |-> settled.days + 1]
  <1> DEFINE o == Left2(r.model, r.p, r.fast, Age!Facts(r))
             c == Age!Counted(r, o)
             n == Age!Notice(c, r.p, o.p, fired)
             d == [c EXCEPT !.p = o.p, !.daily = Age!NewDaily,
                            !.samples = @ + 1, !.b = IF fired THEN @ + 1 ELSE @,
                            !.told = @ \o n,
                            !.milestone = IF n = <<>> THEN @ ELSE r.daily.day]
  <1>1. Age!Deep(r, fired).record = d /\ Age!Deep(r, fired).rows = Age!Rowed(o)
    BY DEF Age!Deep, Left2
  <1>2. /\ o.p \in Ps /\ o.p <= r.p /\ o.fast \in Ps
        /\ r.model = "reserve" => o.fast <= o.p
        /\ r.model = "linear" => o.p = Age!Floor(r.p - Age!CoreSpend(r.daily.high))
        /\ c \in AgeRecords /\ c.p = r.p /\ c.daily = r.daily /\ c.shadow = r.shadow
        /\ c.model = r.model /\ c.active = r.active + 1 /\ c.fast = o.fast
        /\ c.samples = r.samples /\ c.b = r.b /\ c.told = r.told
    BY CountedIs
  <1> HIDE DEF o, c
  <1>3. r.told \in Seq(Tellings) /\ r.p \in Ps /\ r.b \in Nat /\ r.daily.day \in Int /\ r.daily \in AgeDays
    BY DEF AgeRecords, AgeDays
  <1> PICK e \in Nat : e = IF fired THEN c.b + 1 ELSE c.b
    BY <1>2, <1>3
  <1>4. c.told \o n \in Seq(Tellings) /\ Told(c.told \o n, o.p, e)
    BY <1>2, <1>3, Noticed
  <1> DEFINE told == c.told \o n
             mile == IF n = <<>> THEN c.milestone ELSE r.daily.day
             samples == c.samples + 1
             day == Age!NewDaily
  <1>5. mile \in Int /\ samples \in Nat
    BY <1>2, <1>3 DEF AgeRecords
  <1>6. day \in AgeDays
    BY FreshDay
  <1>7. d = [c EXCEPT !.p = o.p, !.daily = day, !.samples = samples, !.b = e, !.told = told, !.milestone = mile]
    OBVIOUS
  <1> HIDE DEF d, n, told, mile, samples, day
  <1>8. told \in Seq(Tellings) /\ Told(told, o.p, e)
    BY <1>4 DEF told
  <1>9. /\ d.p = o.p /\ d.daily = day /\ d.shadow = c.shadow /\ d.model = c.model /\ d.active = c.active
        /\ d.fast = c.fast /\ d.b = e /\ d.told = told
    BY <1>2, <1>7 DEF AgeRecords
  <1>10. d \in AgeRecords
    BY <1>2, <1>5, <1>6, <1>7, <1>8 DEF AgeRecords
  <1>11. Age!Rowed(o) = [last |-> d.p, days |-> settled.days + 1]
    BY <1>9 DEF Age!Rowed
  <1> QED
    BY <1>1, <1>2, <1>8, <1>9, <1>10, <1>11 DEF day

LEMMA LegacyIs ==
  ASSUME NEW r \in AgeRecords, date \in 0..LastDay, Told(r.told, r.p, r.b),
         NEW rows \in [last : {-1} \cup Ps, days : Nat]
  PROVE  LET d == Age!Legacy(r, rows).record
             w == Age!Legacy(r, rows).rows
         IN /\ d \in AgeRecords /\ d.p <= r.p /\ d.p = Age!CoreP(r.p, r.daily)
            /\ d.daily = Age!NewDaily /\ d.shadow = r.shadow /\ d.model = r.model
            /\ d.active = r.active /\ Told(d.told, d.p, d.b)
            /\ w \in [last : {-1} \cup Ps, days : Nat] /\ w.days = rows.days
            /\ d.p < r.p => w.last = d.p
            /\ d.p = r.p => w.last = rows.last
  <1> DEFINE p == Age!CoreP(r.p, r.daily)
             a == [track |-> "A", epoch |-> Age!EpochIndex(p)]
             told == IF Age!EpochIndex(p) = Age!EpochIndex(r.p) THEN r.told ELSE Append(r.told, a)
             day == Age!NewDaily
             d == [r EXCEPT !.p = p, !.daily = day, !.told = told]
             w == IF p < r.p THEN [rows EXCEPT !.last = p] ELSE rows
  <1>1. Age!Legacy(r, rows).record = d /\ Age!Legacy(r, rows).rows = w
    BY DEF Age!Legacy
  <1>2. r.p \in Ps /\ r.b \in Nat /\ r.told \in Seq(Tellings) /\ r.daily \in AgeDays
    BY DEF AgeRecords
  <1>3. p \in Ps /\ p <= r.p
    BY <1>2, CorePs
  <1> HIDE DEF p
  <1>4. a \in Tellings /\ a.track = "A" /\ a.epoch = Age!EpochIndex(p)
    <2>1. p <= p
      BY <1>3 DEF Ps
    <2>2. Age!EpochIndex(p) \in 0..4
      BY <1>3, <2>1, Epochs
    <2> QED
      BY <2>2 DEF Tellings
  <1> HIDE DEF a
  <1>5. told \in Seq(Tellings) /\ Told(told, p, r.b)
    <2>1. r.b <= r.b
      BY <1>2
    <2>2. CASE Age!EpochIndex(p) = Age!EpochIndex(r.p)
      BY <1>2, <1>3, <2>1, <2>2, ToldStill
    <2>3. CASE Age!EpochIndex(p) # Age!EpochIndex(r.p)
      BY <1>2, <1>3, <1>4, <2>1, <2>3, ToldMore
    <2> QED
      BY <2>2, <2>3
  <1>6. day \in AgeDays
    BY FreshDay
  <1> HIDE DEF told, day
  <1>7. /\ d \in AgeRecords /\ d.p = p /\ d.daily = day /\ d.shadow = r.shadow /\ d.model = r.model
        /\ d.active = r.active /\ d.told = told /\ d.b = r.b
    BY <1>3, <1>5, <1>6 DEF AgeRecords
  <1> DEFINE Last == {-1} \cup Ps
  <1>8. p \in Last
    BY <1>3
  <1> HIDE DEF Last
  <1>9. /\ w \in [last : Last, days : Nat] /\ w.days = rows.days
        /\ p < r.p => w.last = p
        /\ p = r.p => w.last = rows.last
    <2>1. rows \in [last : Last, days : Nat]
      BY DEF Last
    <2>2. p = r.p => ~(p < r.p)
      BY <1>2 DEF Ps
    <2> QED
      BY <1>8, <2>1, <2>2
  <1> HIDE DEF d, w
  <1>10. w \in [last : {-1} \cup Ps, days : Nat]
    BY <1>9 DEF Last
  <1> QED
    BY <1>1, <1>3, <1>5, <1>7, <1>9, <1>10 DEF p, day

------------------------------------------------------------------------------
(* A day ahead of the disk is one that was not saved.                        *)
AgeOrder ==
  /\ aging.active <= aging.daily.day /\ agingDisk.active <= agingDisk.daily.day
  /\ aging.daily.day <= date /\ agingDisk.daily.day <= aging.daily.day
  /\ aging.daily.day < date => aging = [agingDisk EXCEPT !.p = aging.p]

(* What a restart reads makes her no younger than she is, as long as no    *)
(* row was lost.                                                           *)
NotYounger ==
  /\ past.lost = 0 /\ settled.last = -1 => agingDisk.p <= aging.p
  /\ past.lost = 0 /\ settled.last # -1 => settled.last <= aging.p \/ agingDisk.p <= aging.p
  /\ agingDisk.model # "none" => aging.model = agingDisk.model

PoolsInv ==
  past.kills = 0 /\ past.troubles = 0 /\ aging.model \in {"none", "reserve"} => aging.fast <= aging.p

RowsInv ==
  /\ agingDisk.active <= settled.days + past.lost /\ aging.active <= settled.days + past.lost
  /\ settled.days <= aging.active + past.kills
  /\ settled.days <= agingDisk.active + past.kills
                       + (IF agingDisk.daily.day < aging.daily.day THEN 1 ELSE 0)

LinearInv ==
  aging.model \in {"none", "linear"} /\ past.kills = 0 /\ ~past.either => aging.p = past.core

PaidInv ==
  past.kills = 0 /\ ~past.unseen
    => past.paid + (IF aging.daily.interacted \/ aging.daily.seen THEN aging.shadow ELSE 0) <= past.fired

ToldInv ==
  /\ Told(aging.told, aging.p, aging.b)
  /\ Told(agingDisk.told, agingDisk.p, agingDisk.b)

AgeInv ==
  AgeTypes /\ AgeOrder /\ NotYounger /\ PoolsInv /\ RowsInv /\ LinearInv /\ PaidInv /\ ToldInv

(* What any settlement of a day does, whoever does it.                       *)
Settles ==
  /\ aging' \in AgeRecords /\ settled' \in [last : {-1} \cup Ps, days : Nat]
  /\ aging'.p <= aging.p /\ aging'.daily = Age!NewDaily /\ aging'.shadow = aging.shadow
  /\ aging.model # "none" => aging'.model = aging.model
  /\ Told(aging'.told, aging'.p, aging'.b)
  /\ \/ settled'.last = settled.last /\ aging'.p = aging.p /\ past'.lost = past.lost
     \/ settled'.last \in Ps /\ settled'.last <= aging'.p /\ past'.lost = past.lost
     \/ past'.lost = past.lost + 1
  /\ \/ settled'.days = settled.days /\ aging'.active = aging.active /\ past'.lost >= past.lost
     \/ settled'.days = settled.days + 1 /\ aging'.active = aging.active + 1 /\ past'.lost >= past.lost
     \/ settled'.days = settled.days /\ aging'.active = aging.active + 1 /\ past'.lost = past.lost + 1

LEMMA AgeNumbers ==
  ASSUME AgeTypes
  PROVE  /\ aging.p \in Nat /\ agingDisk.p \in Nat /\ aging.active \in Nat /\ agingDisk.active \in Nat
         /\ aging.daily.day \in Nat /\ agingDisk.daily.day \in Nat /\ date \in Nat
         /\ settled.days \in Nat /\ settled.last \in Int /\ past.kills \in Nat /\ past.troubles \in Nat
         /\ past.lost \in Nat
         /\ past.core \in Int /\ past.paid \in Nat /\ past.fired \in Nat
         /\ aging.shadow \in Nat /\ aging.fast \in Nat
  <1>1. \A x \in Ps : x \in Nat
    BY AgeConstants DEF Ps
  <1>2. \A r \in AgeRecords : r.p \in Ps /\ r.fast \in Ps /\ r.active \in Nat /\ r.shadow \in Nat /\ r.daily.day \in Nat
    BY DEF AgeRecords, AgeDays
  <1>3. settled.days \in Nat /\ settled.last \in Int
    <2>1. settled.days \in Nat /\ settled.last \in {-1} \cup Ps
      BY DEF AgeTypes
    <2> QED
      BY <1>1, <2>1
  <1>4. date \in Nat
    BY DEF AgeTypes
  <1>5. /\ past.kills \in Nat /\ past.troubles \in Nat /\ past.lost \in Nat
        /\ past.core \in Int /\ past.paid \in Nat /\ past.fired \in Nat
    BY DEF AgeTypes, Pasts
  <1>6. aging \in AgeRecords /\ agingDisk \in AgeRecords
    BY DEF AgeTypes
  <1> QED
    BY <1>1, <1>2, <1>3, <1>4, <1>5, <1>6

LEMMA SettlesKeeps ==
  ASSUME AgeInv, Settles, aging.daily.day < date, agingDisk' = agingDisk, way' = way, date' = date,
         past' \in Pasts, past'.kills = past.kills
  PROVE  AgeTypes' /\ AgeOrder' /\ NotYounger' /\ RowsInv' /\ ToldInv'
  <1>0. AgeTypes /\ AgeOrder /\ NotYounger /\ RowsInv /\ ToldInv
    BY DEF AgeInv
  <1>1. AgeTypes'
    BY <1>0 DEF AgeTypes, Settles
  <1>2. Age!NewDaily.day = date
    BY <1>0, FreshDay DEF AgeTypes
  <1>3. agingDisk.active = aging.active /\ agingDisk.daily = aging.daily /\ agingDisk.model = aging.model
    <2>1. aging = [agingDisk EXCEPT !.p = aging.p] /\ agingDisk \in AgeRecords
      BY <1>0 DEF AgeOrder, AgeTypes
    <2> PICK p : p = aging.p
      OBVIOUS
    <2>2. aging = [agingDisk EXCEPT !.p = p]
      BY <2>1
    <2>3. /\ [agingDisk EXCEPT !.p = p].active = agingDisk.active
          /\ [agingDisk EXCEPT !.p = p].daily = agingDisk.daily
          /\ [agingDisk EXCEPT !.p = p].model = agingDisk.model
      BY <2>1 DEF AgeRecords
    <2> QED
      BY <2>2, <2>3
  <1>4. aging'.daily.day = date
    BY <1>2 DEF Settles
  <1> PICK a \in Nat, d \in Nat, k \in Nat, y \in Nat, t \in Nat, l \in Nat :
        /\ a = aging.active /\ d = settled.days /\ k = past.kills /\ y = aging.daily.day /\ t = date
        /\ l = past.lost
    BY <1>0, AgeNumbers
  <1> PICK m \in Nat : m = past'.lost
    BY DEF Pasts
  <1>5. a <= y /\ y < t /\ a <= d + l /\ d <= a + k
    BY <1>0 DEF AgeOrder, RowsInv
  <1>6. \/ settled'.days = d /\ aging'.active = a /\ m >= l
        \/ settled'.days = d + 1 /\ aging'.active = a + 1 /\ m >= l
        \/ settled'.days = d /\ aging'.active = a + 1 /\ m = l + 1
    BY DEF Settles
  <1>7. AgeOrder'
    <2>1. aging'.active <= aging'.daily.day
      BY <1>4, <1>5, <1>6
    <2>2. agingDisk'.active <= agingDisk'.daily.day
      BY <1>0 DEF AgeOrder
    <2>3. aging'.daily.day <= date' /\ agingDisk'.daily.day <= aging'.daily.day
      BY <1>3, <1>4, <1>5
    <2>4. ~(aging'.daily.day < date')
      BY <1>4
    <2> QED
      BY <2>1, <2>2, <2>3, <2>4 DEF AgeOrder
  <1>8. RowsInv'
    <2>1. agingDisk'.active = a /\ past'.kills = k /\ agingDisk'.daily.day = y /\ aging'.daily.day = t
      BY <1>3, <1>4
    <2>2. agingDisk'.active <= settled'.days + past'.lost /\ aging'.active <= settled'.days + past'.lost
      BY <1>5, <1>6, <2>1
    <2>3. settled'.days <= aging'.active + past'.kills
      BY <1>5, <1>6, <2>1
    <2>4. settled'.days <= a + k + 1
      BY <1>5, <1>6
    <2>5. agingDisk'.daily.day < aging'.daily.day
      BY <1>5, <2>1
    <2>6. settled'.days <= agingDisk'.active + past'.kills
                             + (IF agingDisk'.daily.day < aging'.daily.day THEN 1 ELSE 0)
      BY <2>1, <2>4, <2>5
    <2> QED
      BY <2>2, <2>3, <2>6 DEF RowsInv
  <1>9. NotYounger'
    <2>1. agingDisk'.model # "none" => aging'.model = agingDisk'.model
      BY <1>3 DEF Settles
    <2>2. CASE settled'.last = settled.last /\ aging'.p = aging.p /\ past'.lost = past.lost
      BY <1>0, <2>1, <2>2 DEF NotYounger
    <2>4. CASE past'.lost = past.lost + 1
      <3>1. past'.lost # 0
        BY <2>4
      <3> QED
        BY <2>1, <3>1 DEF NotYounger
    <2>3. CASE settled'.last \in Ps /\ settled'.last <= aging'.p
      <3>1. settled'.last # -1
        BY <2>3, AgeConstants DEF Ps
      <3> QED
        BY <2>1, <2>3, <3>1 DEF NotYounger
    <2> QED
      BY <2>2, <2>3, <2>4 DEF Settles
  <1>10. ToldInv'
    BY <1>0 DEF ToldInv, Settles
  <1> QED
    BY <1>1, <1>7, <1>8, <1>9, <1>10

------------------------------------------------------------------------------
(* A row that is written or lost.                                            *)
LEMMA BecomesIs ==
  ASSUME NEW x, NEW spoiled, NEW h \in Pasts, h.lost = past.lost, Age!Becomes(x, spoiled, h)
  PROVE  /\ aging' = x.record /\ past' \in Pasts
         /\ past'.kills = h.kills /\ past'.troubles = h.troubles /\ past'.core = h.core
         /\ past'.paid = h.paid /\ past'.fired = h.fired /\ past'.unseen = h.unseen
         /\ past'.either = h.either
         /\ \/ settled' = x.rows /\ past'.lost = past.lost
            \/ settled' \in spoiled /\ past'.lost = past.lost + 1
  <1> PICK rows \in {x.rows} \cup (IF past.lost < MaxTroubles THEN spoiled ELSE {}) :
        /\ aging' = x.record /\ settled' = rows
        /\ past' = [h EXCEPT !.lost = @ + (IF rows = x.rows THEN 0 ELSE 1)]
    BY DEF Age!Becomes
  <1>1. rows = x.rows \/ rows \in spoiled
    OBVIOUS
  <1> DEFINE n == h.lost + (IF rows = x.rows THEN 0 ELSE 1)
  <1>2. n \in Nat /\ (rows = x.rows => n = past.lost) /\ (rows # x.rows => n = past.lost + 1)
    BY DEF Pasts
  <1>3. past' = [h EXCEPT !.lost = n]
    OBVIOUS
  <1> HIDE DEF n
  <1>4. /\ past' \in Pasts /\ past'.lost = n
        /\ past'.kills = h.kills /\ past'.troubles = h.troubles /\ past'.core = h.core
        /\ past'.paid = h.paid /\ past'.fired = h.fired /\ past'.unseen = h.unseen
        /\ past'.either = h.either
    BY <1>2, <1>3 DEF Pasts
  <1> QED
    BY <1>1, <1>2, <1>4

LEMMA StampedIs ==
  ASSUME AgeInv, way # Age!NoWay
  PROVE  LET r == Age!Stamped(aging)
         IN /\ r \in AgeRecords /\ r.p = aging.p /\ r.daily = aging.daily /\ r.shadow = aging.shadow
            /\ r.active = aging.active /\ r.fast = aging.fast /\ r.b = aging.b /\ r.told = aging.told
            /\ r.model # "none" /\ (aging.model # "none" => r.model = aging.model)
            /\ Told(r.told, r.p, r.b)
  <1>1. aging \in AgeRecords /\ way \in Ways /\ Told(aging.told, aging.p, aging.b)
    BY DEF AgeInv, AgeTypes, ToldInv
  <1>2. way.model \in AgeModels /\ way.model # "none"
    BY <1>1, AgeConstants DEF AgeModels
  <1>3. CASE aging.model # "none"
    BY <1>1, <1>3 DEF Age!Stamped
  <1>4. CASE aging.model = "none"
    <2> PICK m \in AgeModels : m = way.model
      BY <1>2
    <2>1. Age!Stamped(aging) = [aging EXCEPT !.model = m]
      BY <1>4 DEF Age!Stamped
    <2> DEFINE r == [aging EXCEPT !.model = m]
    <2>2. /\ r \in AgeRecords /\ r.p = aging.p /\ r.daily = aging.daily /\ r.shadow = aging.shadow
          /\ r.active = aging.active /\ r.fast = aging.fast /\ r.b = aging.b /\ r.told = aging.told
          /\ r.model = m
      BY <1>1 DEF AgeRecords
    <2> HIDE DEF r
    <2>3. Told(r.told, r.p, r.b)
      BY <1>1, <2>2
    <2>4. Age!Stamped(aging) = r
      BY <2>1 DEF r
    <2> QED
      BY <1>2, <1>4, <2>2, <2>3, <2>4
  <1> QED
    BY <1>3, <1>4

LEMMA RolloverStep ==
  ASSUME AgeInv, Age!Rollover
  PROVE  AgeInv' /\ aging'.p <= aging.p
         /\ (agingDisk.model # "none" => aging'.model = agingDisk.model)
  <1> DEFINE r == Age!Stamped(aging)
             fs == Age!Facts(r)
  <1>0. AgeTypes /\ PoolsInv /\ LinearInv /\ PaidInv /\ NotYounger
    BY DEF AgeInv
  <1>1. way # Age!NoWay /\ aging.daily.day < date /\ agingDisk' = agingDisk /\ way' = way /\ date' = date
    BY DEF Age!Rollover, Age!Due
  <1>2. /\ r \in AgeRecords /\ r.p = aging.p /\ r.daily = aging.daily /\ r.shadow = aging.shadow
        /\ r.active = aging.active /\ r.fast = aging.fast /\ r.b = aging.b /\ r.told = aging.told
        /\ r.model # "none" /\ (aging.model # "none" => r.model = aging.model)
        /\ Told(r.told, r.p, r.b)
    BY <1>1, StampedIs
  <1> DEFINE h == [past EXCEPT !.core = Age!CoreP(@, aging.daily),
                               !.either = @ \/ (aging.daily.interacted # aging.daily.seen),
                               !.paid = @ + Age!Paid(r)]
             idle == [record |-> [r EXCEPT !.daily = Age!NewDaily], rows |-> settled]
  <1>4. IF fs.active THEN \E fired \in Age!Fired(r) : Age!Becomes(Age!Deep(r, fired), {settled}, h)
        ELSE Age!Becomes(idle, {}, h)
    BY DEF Age!Rollover
  <1> HIDE DEF r
  <1>5. fs.active <=> aging.daily.interacted \/ aging.daily.seen
    BY <1>2, FactsAre
  <1>6. Age!Paid(r) \in Nat /\ Age!Paid(r) <= (IF aging.daily.interacted \/ aging.daily.seen THEN aging.shadow ELSE 0)
    <2>1. aging.shadow \in Nat
      BY <1>0, AgeNumbers
    <2> QED
      BY <1>2, <1>5, <2>1 DEF Age!Paid
  <1> PICK paid \in Nat : paid = Age!Paid(r)
    BY <1>6
  <1>7. h \in Pasts /\ h.kills = past.kills /\ h.lost = past.lost /\ h.troubles = past.troubles
        /\ h.core = Age!CoreP(past.core, aging.daily) /\ h.paid = past.paid + paid
        /\ h.fired = past.fired /\ h.unseen = past.unseen
        /\ h.either = (past.either \/ (aging.daily.interacted # aging.daily.seen))
    <2>1. past \in Pasts
      BY <1>0 DEF AgeTypes
    <2>2. aging.daily \in AgeDays
      BY <1>0 DEF AgeTypes, AgeRecords
    <2>3. aging.daily.high \in Nat /\ past.core \in Int
      BY <2>1, <2>2 DEF AgeDays, Pasts
    <2>4. Age!CoreP(past.core, aging.daily) \in Int
      <3> PICK k \in Nat : k = Age!CoreSpend(aging.daily.high)
        BY <2>3, CoreSpends
      <3>1. Age!Floor(past.core - k) \in Int
        BY <2>3 DEF Age!Floor
      <3> QED
        BY <2>3, <3>1 DEF Age!CoreP
    <2> DEFINE c == Age!CoreP(past.core, aging.daily)
               e == past.either \/ (aging.daily.interacted # aging.daily.seen)
               n == past.paid + paid
    <2>5. e \in BOOLEAN
      OBVIOUS
    <2>6. n \in Nat
      BY <2>1 DEF Pasts
    <2>7. h = [past EXCEPT !.core = c, !.either = e, !.paid = n] /\ c \in Int
      BY <2>4
    <2> HIDE DEF c, e, n
    <2>8. h \in Pasts
      BY <2>1, <2>5, <2>6, <2>7 DEF Pasts
    <2>9. /\ h.kills = past.kills /\ h.lost = past.lost /\ h.troubles = past.troubles /\ h.core = c
          /\ h.paid = n /\ h.fired = past.fired /\ h.unseen = past.unseen /\ h.either = e
      BY <2>1, <2>7 DEF Pasts
    <2> QED
      BY <2>8, <2>9 DEF c, e, n
  <1> HIDE DEF h
  <1>8. date \in 0..LastDay /\ settled.days \in Nat /\ settled \in [last : {-1} \cup Ps, days : Nat]
    BY <1>0 DEF AgeTypes
  <1>9. /\ Settles
        /\ aging'.model = r.model /\ past' \in Pasts
        /\ past'.kills = h.kills /\ past'.troubles = h.troubles /\ past'.core = h.core
        /\ past'.paid = h.paid /\ past'.fired = h.fired /\ past'.unseen = h.unseen
        /\ past'.either = h.either
        /\ aging'.model = "reserve" /\ past.kills = 0 /\ past.troubles = 0 => aging'.fast <= aging'.p
        /\ aging'.model = "linear" =>
             aging'.p = IF fs.active THEN Age!Floor(aging.p - Age!CoreSpend(aging.daily.high)) ELSE aging.p
    <2>1. CASE fs.active
      <3>1. PICK fired \in Age!Fired(r) : Age!Becomes(Age!Deep(r, fired), {settled}, h)
        BY <1>4, <2>1
      <3>2. fired \in BOOLEAN
        BY DEF Age!Fired, Age!MayFire
      <3>3. /\ aging' = Age!Deep(r, fired).record /\ past' \in Pasts
            /\ past'.kills = h.kills /\ past'.troubles = h.troubles /\ past'.core = h.core
            /\ past'.paid = h.paid /\ past'.fired = h.fired /\ past'.unseen = h.unseen
            /\ past'.either = h.either
            /\ \/ settled' = Age!Deep(r, fired).rows /\ past'.lost = past.lost
               \/ settled' \in {settled} /\ past'.lost = past.lost + 1
        BY <1>7, <3>1, BecomesIs
      <3> DEFINE d == Age!Deep(r, fired).record
      <3>4. /\ d \in AgeRecords /\ d.p <= r.p
            /\ d.daily = Age!NewDaily /\ d.shadow = r.shadow /\ d.model = r.model
            /\ d.active = r.active + 1
            /\ d.model = "reserve" => d.fast <= d.p
            /\ d.model = "linear" => d.p = Age!Floor(r.p - Age!CoreSpend(r.daily.high))
            /\ Told(d.told, d.p, d.b)
            /\ Age!Deep(r, fired).rows = [last |-> d.p, days |-> settled.days + 1]
        BY <1>2, <1>8, <3>2, DeepIs
      <3> HIDE DEF d
      <3>5. /\ aging' = d
            /\ \/ settled' = [last |-> d.p, days |-> settled.days + 1] /\ past'.lost = past.lost
               \/ settled' = settled /\ past'.lost = past.lost + 1
        BY <3>3, <3>4 DEF d
      <3>6. d.p \in Ps /\ d.p <= d.p
        BY <3>4 DEF AgeRecords, Ps
      <3>7. /\ settled' \in [last : {-1} \cup Ps, days : Nat]
            /\ \/ /\ settled'.last \in Ps /\ settled'.last <= d.p
                  /\ settled'.days = settled.days + 1 /\ past'.lost = past.lost
               \/ settled'.days = settled.days /\ past'.lost = past.lost + 1
            /\ past'.lost >= past.lost
        <4>0. past.lost \in Nat
          BY <1>0, AgeNumbers
        <4>1. CASE settled' = settled /\ past'.lost = past.lost + 1
          BY <1>8, <4>0, <4>1
        <4>2. CASE settled' = [last |-> d.p, days |-> settled.days + 1] /\ past'.lost = past.lost
          BY <1>8, <3>6, <4>0, <4>2
        <4> QED
          BY <3>5, <4>1, <4>2
      <3>8. Settles
        BY <1>2, <3>4, <3>5, <3>7 DEF Settles
      <3> QED
        BY <1>2, <2>1, <3>3, <3>4, <3>5, <3>8
    <2>2. CASE ~fs.active
      <3> DEFINE day == Age!NewDaily
                 d == [r EXCEPT !.daily = day]
      <3>1. /\ aging' = d /\ settled' = settled /\ past'.lost = past.lost /\ past' \in Pasts
            /\ past'.kills = h.kills /\ past'.troubles = h.troubles /\ past'.core = h.core
            /\ past'.paid = h.paid /\ past'.fired = h.fired /\ past'.unseen = h.unseen
            /\ past'.either = h.either
        <4>1. /\ aging' = idle.record /\ past' \in Pasts
              /\ past'.kills = h.kills /\ past'.troubles = h.troubles /\ past'.core = h.core
              /\ past'.paid = h.paid /\ past'.fired = h.fired /\ past'.unseen = h.unseen
              /\ past'.either = h.either
              /\ \/ settled' = idle.rows /\ past'.lost = past.lost
                 \/ settled' \in {} /\ past'.lost = past.lost + 1
          <5> HIDE DEF idle
          <5>1. Age!Becomes(idle, {}, h)
            BY <1>4, <2>2
          <5> QED
            BY <1>7, <5>1, BecomesIs
        <4> QED
          BY <4>1
      <3>2. day \in AgeDays
        BY <1>8, FreshDay
      <3> HIDE DEF day
      <3>3. /\ d \in AgeRecords /\ d.p = r.p /\ d.daily = day /\ d.shadow = r.shadow /\ d.model = r.model
            /\ d.active = r.active /\ d.fast = r.fast /\ d.b = r.b /\ d.told = r.told
        BY <1>2, <3>2 DEF AgeRecords
      <3> HIDE DEF d
      <3>4. d.p <= aging.p /\ past.lost >= past.lost
        BY <1>0, <1>2, <3>3, AgeNumbers
      <3>5. Settles
        BY <1>2, <1>8, <3>1, <3>3, <3>4 DEF Settles, day
      <3>6. aging'.model = "reserve" /\ past.kills = 0 /\ past.troubles = 0 => aging'.fast <= aging'.p
        <4>1. r.model = "reserve" => aging.model \in {"none", "reserve"}
          BY <1>2
        <4> QED
          BY <1>0, <1>2, <3>1, <3>3, <4>1 DEF PoolsInv
      <3> QED
        BY <1>2, <2>2, <3>1, <3>3, <3>5, <3>6
    <2> QED
      BY <2>1, <2>2
  <1>10. AgeTypes' /\ AgeOrder' /\ NotYounger' /\ RowsInv' /\ ToldInv'
    BY <1>1, <1>7, <1>9, SettlesKeeps
  <1>11. PoolsInv'
    BY <1>2, <1>7, <1>9 DEF PoolsInv
  <1>12. LinearInv'
    <2> SUFFICES ASSUME aging'.model \in {"none", "linear"}, past'.kills = 0, ~past'.either
                 PROVE  aging'.p = past'.core
      BY DEF LinearInv
    <2>1. aging'.model = "linear" /\ aging.model \in {"none", "linear"}
      BY <1>2, <1>9
    <2>2. ~past.either /\ aging.daily.interacted = aging.daily.seen
      BY <1>7, <1>9
    <2>3. aging.p = past.core
      BY <1>0, <1>7, <1>9, <2>1, <2>2 DEF LinearInv
    <2>4. past'.core = Age!CoreP(aging.p, aging.daily)
      BY <1>7, <1>9, <2>3
    <2>5. aging'.p = IF fs.active THEN Age!Floor(aging.p - Age!CoreSpend(aging.daily.high)) ELSE aging.p
      BY <1>9, <2>1
    <2> QED
      BY <1>5, <2>2, <2>4, <2>5 DEF Age!CoreP
  <1>13. PaidInv'
    <2> SUFFICES ASSUME past'.kills = 0, ~past'.unseen
                 PROVE  past'.paid + (IF aging'.daily.interacted \/ aging'.daily.seen THEN aging'.shadow ELSE 0) <= past'.fired
      BY DEF PaidInv
    <2>1. ~aging'.daily.interacted /\ ~aging'.daily.seen
      BY <1>8, <1>9, FreshDay DEF Settles
    <2> PICK s \in Nat : s = IF aging.daily.interacted \/ aging.daily.seen THEN aging.shadow ELSE 0
      BY <1>0, AgeNumbers
    <2>2. past.paid + s <= past.fired
      BY <1>0, <1>7, <1>9 DEF PaidInv
    <2>3. paid <= s /\ past.paid \in Nat /\ past.fired \in Nat
      BY <1>0, <1>6, AgeNumbers
    <2>4. past.paid + paid + 0 <= past.fired
      BY <2>2, <2>3
    <2> QED
      BY <1>7, <1>9, <2>1, <2>4
  <1>14. agingDisk.model # "none" => aging'.model = agingDisk.model
    BY <1>1, <1>10 DEF NotYounger
  <1> QED
    BY <1>9, <1>10, <1>11, <1>12, <1>13, <1>14 DEF AgeInv, Settles

------------------------------------------------------------------------------
LEMMA RaisesStep ==
  ASSUME AgeInv, Age!RolloverRaises
  PROVE  AgeInv' /\ aging'.p <= aging.p
         /\ (agingDisk.model # "none" => aging'.model = agingDisk.model)
  <1> DEFINE r == Age!Stamped(aging)
  <1>0. AgeTypes /\ LinearInv /\ PaidInv /\ NotYounger
    BY DEF AgeInv
  <1>1. way # Age!NoWay /\ aging.daily.day < date /\ agingDisk' = agingDisk /\ way' = way /\ date' = date
    BY DEF Age!RolloverRaises, Age!Due
  <1>2. /\ r \in AgeRecords /\ r.p = aging.p /\ r.daily = aging.daily /\ r.shadow = aging.shadow
        /\ r.active = aging.active /\ r.fast = aging.fast /\ r.b = aging.b /\ r.told = aging.told
        /\ r.model # "none" /\ (aging.model # "none" => r.model = aging.model)
        /\ Told(r.told, r.p, r.b)
    BY <1>1, StampedIs
  <1> DEFINE h == [past EXCEPT !.troubles = @ + 1, !.core = Age!CoreP(@, aging.daily)]
  <1>4. \/ Age!Becomes(Age!Legacy(aging, settled), {settled}, h)
        \/ Age!Becomes(Age!Half(r), Age!HalfTorn(r), h)
    BY DEF Age!RolloverRaises
  <1> HIDE DEF r
  <1>5. /\ aging \in AgeRecords /\ Told(aging.told, aging.p, aging.b) /\ date \in 0..LastDay
        /\ settled \in [last : {-1} \cup Ps, days : Nat] /\ settled.days \in Nat /\ aging.p \in Ps
    BY <1>0 DEF AgeTypes, ToldInv, AgeInv, AgeRecords
  <1>6. h \in Pasts /\ h.kills = past.kills /\ h.lost = past.lost /\ h.troubles # 0
        /\ h.core = Age!CoreP(past.core, aging.daily) /\ h.paid = past.paid
        /\ h.fired = past.fired /\ h.unseen = past.unseen /\ h.either = past.either
    <2>1. past \in Pasts
      BY <1>0 DEF AgeTypes
    <2>2. aging.daily \in AgeDays
      BY <1>5 DEF AgeRecords
    <2>3. aging.daily.high \in Nat /\ past.core \in Int /\ past.troubles \in Nat
      BY <2>1, <2>2 DEF AgeDays, Pasts
    <2>4. Age!CoreP(past.core, aging.daily) \in Int
      <3> PICK k \in Nat : k = Age!CoreSpend(aging.daily.high)
        BY <2>3, CoreSpends
      <3>1. Age!Floor(past.core - k) \in Int
        BY <2>3 DEF Age!Floor
      <3> QED
        BY <2>3, <3>1 DEF Age!CoreP
    <2> DEFINE c == Age!CoreP(past.core, aging.daily)
               n == past.troubles + 1
    <2>5. n \in Nat /\ n # 0 /\ c \in Int /\ h = [past EXCEPT !.troubles = n, !.core = c]
      BY <2>3, <2>4
    <2> HIDE DEF c, n
    <2>6. h \in Pasts
      BY <2>1, <2>5 DEF Pasts
    <2>7. /\ h.kills = past.kills /\ h.lost = past.lost /\ h.troubles = n /\ h.core = c
          /\ h.paid = past.paid /\ h.fired = past.fired /\ h.unseen = past.unseen
          /\ h.either = past.either
      BY <2>1, <2>5 DEF Pasts
    <2> QED
      BY <2>5, <2>6, <2>7 DEF c
  <1> HIDE DEF h
  <1>7. Settles /\ aging'.p = Age!CoreP(aging.p, aging.daily)
        /\ aging'.model \in {aging.model, r.model} /\ past' \in Pasts
        /\ past'.kills = h.kills /\ past'.troubles = h.troubles /\ past'.core = h.core
        /\ past'.paid = h.paid /\ past'.fired = h.fired /\ past'.unseen = h.unseen
        /\ past'.either = h.either
    <2>1. CASE Age!Becomes(Age!Legacy(aging, settled), {settled}, h)
      <3> DEFINE d == Age!Legacy(aging, settled).record
                 w == Age!Legacy(aging, settled).rows
      <3>1. /\ aging' = d /\ past' \in Pasts
            /\ past'.kills = h.kills /\ past'.troubles = h.troubles /\ past'.core = h.core
            /\ past'.paid = h.paid /\ past'.fired = h.fired /\ past'.unseen = h.unseen
            /\ past'.either = h.either
            /\ \/ settled' = w /\ past'.lost = past.lost
               \/ settled' \in {settled} /\ past'.lost = past.lost + 1
        BY <1>6, <2>1, BecomesIs
      <3>2. /\ d \in AgeRecords /\ d.p <= aging.p /\ d.p = Age!CoreP(aging.p, aging.daily)
            /\ d.daily = Age!NewDaily /\ d.shadow = aging.shadow /\ d.model = aging.model
            /\ d.active = aging.active /\ Told(d.told, d.p, d.b)
            /\ w \in [last : {-1} \cup Ps, days : Nat] /\ w.days = settled.days
            /\ d.p < aging.p => w.last = d.p
            /\ d.p = aging.p => w.last = settled.last
        BY <1>5, LegacyIs
      <3> HIDE DEF d, w
      <3>3. d.p \in Ps /\ d.p <= d.p /\ (d.p < aging.p \/ d.p = aging.p)
        BY <1>5, <3>2 DEF AgeRecords, Ps
      <3>4. past.lost \in Nat
        BY <1>0, AgeNumbers
      <3>5. CASE settled' = w /\ past'.lost = past.lost
        <4>1. \/ settled'.last = settled.last /\ aging'.p = aging.p
              \/ settled'.last \in Ps /\ settled'.last <= aging'.p
          BY <3>1, <3>2, <3>3, <3>5
        <4>2. Settles
          BY <3>1, <3>2, <3>4, <3>5, <4>1 DEF Settles
        <4> QED
          BY <3>1, <3>2, <4>2
      <3>6. CASE settled' = settled /\ past'.lost = past.lost + 1
        <4>1. Settles
          BY <1>5, <3>1, <3>2, <3>4, <3>6 DEF Settles
        <4> QED
          BY <3>1, <3>2, <4>1
      <3> QED
        BY <3>1, <3>5, <3>6
    <2>2. CASE Age!Becomes(Age!Half(r), Age!HalfTorn(r), h)
      <3> DEFINE o == Left2(r.model, r.p, r.fast, Age!Facts(r))
                 c == Age!Counted(r, o)
                 rows == Age!Rowed(o)
                 d == Age!Legacy(c, rows).record
                 w == Age!Legacy(c, rows).rows
                 v == Age!Legacy(c, settled).rows
      <3>0. /\ aging' = Age!Half(r).record /\ past' \in Pasts
            /\ past'.kills = h.kills /\ past'.troubles = h.troubles /\ past'.core = h.core
            /\ past'.paid = h.paid /\ past'.fired = h.fired /\ past'.unseen = h.unseen
            /\ past'.either = h.either
            /\ \/ settled' = Age!Half(r).rows /\ past'.lost = past.lost
               \/ settled' \in Age!HalfTorn(r) /\ past'.lost = past.lost + 1
        BY <1>6, <2>2, BecomesIs
      <3>1. /\ aging' = d
            /\ \/ settled' = w /\ past'.lost = past.lost
               \/ settled' \in {settled, rows, v} /\ past'.lost = past.lost + 1
        BY <3>0 DEF Age!Half, Age!HalfTorn, Left2
      <3>2. /\ o.p \in Ps /\ o.p <= r.p
            /\ c \in AgeRecords /\ c.p = r.p /\ c.daily = r.daily /\ c.shadow = r.shadow
            /\ c.model = r.model /\ c.active = r.active + 1
            /\ c.b = r.b /\ c.told = r.told
        BY <1>2, CountedIs
      <3> HIDE DEF o, c
      <3>3. rows \in [last : {-1} \cup Ps, days : Nat] /\ rows.last = o.p /\ rows.days = settled.days + 1
        BY <1>5, <3>2 DEF Age!Rowed
      <3> HIDE DEF rows
      <3>4. Told(c.told, c.p, c.b)
        BY <1>2, <3>2
      <3>5. /\ d \in AgeRecords /\ d.p <= c.p /\ d.p = Age!CoreP(c.p, c.daily)
            /\ d.daily = Age!NewDaily /\ d.shadow = c.shadow /\ d.model = c.model
            /\ d.active = c.active /\ Told(d.told, d.p, d.b)
            /\ w \in [last : {-1} \cup Ps, days : Nat] /\ w.days = rows.days
            /\ d.p < c.p => w.last = d.p
            /\ d.p = c.p => w.last = rows.last
        BY <1>5, <3>2, <3>3, <3>4, LegacyIs
      <3>8. v \in [last : {-1} \cup Ps, days : Nat] /\ v.days = settled.days
        BY <1>5, <3>2, <3>4, LegacyIs
      <3> HIDE DEF d, w, v
      <3>6. d.p \in Ps /\ d.p <= d.p /\ (d.p < c.p \/ d.p = c.p)
        <4>1. d.p \in Ps /\ c.p \in Ps /\ d.p <= c.p
          BY <1>2, <1>5, <3>2, <3>5 DEF AgeRecords
        <4>2. \A x, y \in Ps : x <= x /\ (x <= y => x < y \/ x = y)
          BY DEF Ps
        <4> QED
          BY <4>1, <4>2
      <3>7. w.last \in Ps /\ w.last <= d.p
        BY <3>2, <3>3, <3>5, <3>6
      <3>9. past.lost \in Nat
        BY <1>0, AgeNumbers
      <3>10. Settles
        <4>1. CASE settled' = w /\ past'.lost = past.lost
          BY <1>2, <3>1, <3>2, <3>3, <3>5, <3>7, <3>9, <4>1 DEF Settles
        <4>2. CASE settled' \in {settled, rows, v} /\ past'.lost = past.lost + 1
          <5>1. settled' \in [last : {-1} \cup Ps, days : Nat]
                /\ settled'.days \in {settled.days, settled.days + 1}
            BY <1>5, <3>3, <3>8, <4>2
          <5>2. past'.lost >= past.lost
            BY <3>9, <4>2
          <5> QED
            BY <1>2, <3>1, <3>2, <3>5, <4>2, <5>1, <5>2 DEF Settles
        <4> QED
          BY <3>1, <4>1, <4>2
      <3> QED
        BY <1>2, <3>0, <3>1, <3>2, <3>5, <3>10
    <2> QED
      BY <1>4, <2>1, <2>2
  <1>10. AgeTypes' /\ AgeOrder' /\ NotYounger' /\ RowsInv' /\ ToldInv'
    BY <1>1, <1>6, <1>7, SettlesKeeps
  <1>11. PoolsInv'
    BY <1>6, <1>7 DEF PoolsInv
  <1>12. LinearInv'
    <2> SUFFICES ASSUME aging'.model \in {"none", "linear"}, past'.kills = 0, ~past'.either
                 PROVE  aging'.p = past'.core
      BY DEF LinearInv
    <2>1. aging.model \in {"none", "linear"}
      BY <1>2, <1>7
    <2>2. aging.p = past.core
      BY <1>0, <1>6, <1>7, <2>1 DEF LinearInv
    <2> QED
      BY <1>6, <1>7, <2>2
  <1>13. PaidInv'
    <2> SUFFICES ASSUME past'.kills = 0, ~past'.unseen
                 PROVE  past'.paid + (IF aging'.daily.interacted \/ aging'.daily.seen THEN aging'.shadow ELSE 0) <= past'.fired
      BY DEF PaidInv
    <2>1. ~aging'.daily.interacted /\ ~aging'.daily.seen
      BY <1>5, <1>7, FreshDay DEF Settles
    <2> PICK s \in Nat : s = IF aging.daily.interacted \/ aging.daily.seen THEN aging.shadow ELSE 0
      BY <1>0, AgeNumbers
    <2>2. past.paid + s <= past.fired
      BY <1>0, <1>6, <1>7 DEF PaidInv
    <2>3. past.paid \in Nat /\ past.fired \in Nat
      BY <1>0, AgeNumbers
    <2>4. past.paid + 0 <= past.fired
      BY <2>2, <2>3
    <2> QED
      BY <1>6, <1>7, <2>1, <2>4
  <1>14. agingDisk.model # "none" => aging'.model = agingDisk.model
    BY <1>1, <1>10 DEF NotYounger
  <1> QED
    BY <1>7, <1>10, <1>11, <1>12, <1>13, <1>14 DEF AgeInv, Settles

LEMMA LiveStep ==
  ASSUME AgeInv, NEW f \in Lived, Age!Live(f)
  PROVE  AgeInv' /\ aging'.p <= aging.p
         /\ (agingDisk.model # "none" => aging'.model = agingDisk.model)
  <1>0. AgeTypes /\ AgeOrder /\ NotYounger /\ PoolsInv /\ RowsInv /\ LinearInv /\ PaidInv /\ ToldInv
    BY DEF AgeInv
  <1>1. /\ f.interacted \in BOOLEAN /\ f.seen \in BOOLEAN /\ f.shadow \in BOOLEAN
        /\ f.high \in Nat /\ f.concern \in Nat
    BY AgeConstants
  <1>2. /\ aging.daily.day = date /\ aging.daily = Age!NewDaily /\ date \in 0..LastDay
        /\ agingDisk' = agingDisk /\ settled' = settled /\ way' = way /\ date' = date
        /\ aging \in AgeRecords /\ past \in Pasts
    BY <1>0 DEF Age!Live, AgeTypes
  <1> DEFINE day == [day |-> date, interacted |-> f.interacted, seen |-> f.seen, high |-> f.high]
             shadow == IF f.shadow THEN f.concern ELSE aging.shadow
             fired == IF f.shadow THEN past.fired + f.concern ELSE past.fired
             unseen == past.unseen \/ ~f.shadow
  <1>3. aging' = [aging EXCEPT !.daily = day, !.shadow = shadow]
        /\ past' = [past EXCEPT !.fired = fired, !.unseen = unseen]
    BY DEF Age!Live
  <1>4. day \in AgeDays /\ day.day = date /\ shadow \in Nat /\ fired \in Nat /\ unseen \in BOOLEAN
    <2>1. aging.shadow \in Nat /\ past.fired \in Nat
      BY <1>0, AgeNumbers
    <2>2. day \in AgeDays /\ day.day = date
      BY <1>1, <1>2 DEF AgeDays
    <2>3. past.fired + f.concern \in Nat
      BY <1>1, <2>1
    <2> QED
      BY <1>1, <2>1, <2>2, <2>3
  <1> HIDE DEF day, shadow, fired, unseen
  <1>5. /\ aging' \in AgeRecords /\ aging'.p = aging.p /\ aging'.daily = day /\ aging'.shadow = shadow
        /\ aging'.model = aging.model /\ aging'.active = aging.active /\ aging'.fast = aging.fast
        /\ aging'.b = aging.b /\ aging'.told = aging.told
    BY <1>2, <1>3, <1>4 DEF AgeRecords
  <1>6. past' \in Pasts
    BY <1>2, <1>3, <1>4 DEF Pasts
  <1>7. /\ past'.kills = past.kills /\ past'.troubles = past.troubles /\ past'.core = past.core
        /\ past'.paid = past.paid /\ past'.fired = fired /\ past'.unseen = unseen
        /\ past'.either = past.either /\ past'.lost = past.lost
    BY <1>2, <1>3 DEF Pasts
  <1>8. AgeTypes'
    BY <1>0, <1>2, <1>5, <1>6 DEF AgeTypes
  <1>9. AgeOrder'
    <2>1. date <= date /\ ~(date < date)
      BY <1>2
    <2> QED
      BY <1>0, <1>2, <1>4, <1>5, <2>1 DEF AgeOrder
  <1>10. NotYounger' /\ PoolsInv' /\ LinearInv' /\ ToldInv'
    BY <1>0, <1>2, <1>5, <1>7 DEF NotYounger, PoolsInv, LinearInv, ToldInv
  <1>11. RowsInv'
    BY <1>0, <1>2, <1>4, <1>5, <1>7 DEF RowsInv
  <1>12. PaidInv'
    <2> SUFFICES ASSUME past'.kills = 0, ~past'.unseen
                 PROVE  past'.paid + (IF aging'.daily.interacted \/ aging'.daily.seen THEN aging'.shadow ELSE 0) <= past'.fired
      BY DEF PaidInv
    <2>1. f.shadow /\ ~past.unseen /\ past.kills = 0
      BY <1>7 DEF unseen
    <2>2. ~aging.daily.interacted /\ ~aging.daily.seen
      BY <1>2, FreshDay
    <2>3. past.paid + 0 <= past.fired
      BY <1>0, <2>1, <2>2 DEF PaidInv
    <2>4. past.paid \in Nat /\ past.fired \in Nat
      BY <1>0, AgeNumbers
    <2>5. past.paid + f.concern <= past.fired + f.concern /\ past.paid + 0 <= past.fired + f.concern
      BY <1>1, <2>3, <2>4
    <2>6. past'.paid = past.paid /\ past'.fired = past.fired + f.concern /\ aging'.shadow = f.concern
      BY <1>5, <1>7, <2>1 DEF fired, shadow
    <2> QED
      BY <2>5, <2>6
  <1>13. aging.p <= aging.p
    BY <1>0, AgeNumbers
  <1> QED
    BY <1>0, <1>2, <1>5, <1>8, <1>9, <1>10, <1>11, <1>12, <1>13 DEF AgeInv, NotYounger

LEMMA RestartStep ==
  ASSUME AgeInv, Age!Restart
  PROVE  AgeInv' /\ (past.lost = 0 \/ agingDisk = aging => aging'.p <= aging.p)
         /\ (agingDisk.model # "none" => aging'.model = agingDisk.model)
  <1>0. AgeTypes /\ AgeOrder /\ NotYounger /\ RowsInv /\ ToldInv
    BY DEF AgeInv
  <1> DEFINE p == IF settled.last = -1 THEN agingDisk.p ELSE Age!Least(agingDisk.p, settled.last)
  <1>1. /\ aging' = [agingDisk EXCEPT !.p = p] /\ way' \in Ways
        /\ past' = [past EXCEPT !.kills = @ + 1]
        /\ agingDisk' = agingDisk /\ settled' = settled /\ date' = date
    BY DEF Age!Restart, Age!None
  <1>2. agingDisk \in AgeRecords /\ past \in Pasts /\ settled.last \in {-1} \cup Ps /\ agingDisk.p \in Ps
    BY <1>0 DEF AgeTypes, AgeRecords
  <1> PICK n \in Nat : n = Age!Full
    BY AgeConstants
  <1>3. /\ p \in Ps /\ p <= agingDisk.p /\ (past.lost = 0 => p <= aging.p)
        /\ settled.last = -1 => p = agingDisk.p
        /\ settled.last # -1 => p = agingDisk.p \/ p = settled.last
    <2> PICK d \in 0..n, a \in Nat, l \in Int : d = agingDisk.p /\ a = aging.p /\ l = settled.last
      BY <1>0, <1>2, AgeNumbers DEF Ps
    <2>1. l = -1 \/ l \in 0..n
      BY <1>2 DEF Ps
    <2>2. /\ past.lost = 0 /\ l = -1 => d <= a
          /\ past.lost = 0 /\ l # -1 => l <= a \/ d <= a
      BY <1>0 DEF NotYounger
    <2>3. p = IF l = -1 THEN d ELSE IF d < l THEN d ELSE l
      BY DEF Age!Least
    <2> HIDE DEF p
    <2>4. /\ p \in 0..n /\ p <= d /\ (past.lost = 0 => p <= a)
          /\ (l = -1 => p = d) /\ (l # -1 => p = d \/ p = l)
      BY <2>1, <2>2, <2>3
    <2> QED
      BY <2>4 DEF Ps
  <1> HIDE DEF p
  <1>4. /\ aging' \in AgeRecords /\ aging'.p = p /\ aging'.daily = agingDisk.daily
        /\ aging'.model = agingDisk.model /\ aging'.active = agingDisk.active
        /\ aging'.b = agingDisk.b /\ aging'.told = agingDisk.told
    BY <1>1, <1>2, <1>3 DEF AgeRecords
  <1>5. past' \in Pasts /\ past'.kills = past.kills + 1 /\ past.kills \in Nat /\ past'.lost = past.lost
    BY <1>1, <1>2 DEF Pasts
  <1>6. AgeTypes'
    BY <1>0, <1>1, <1>4, <1>5 DEF AgeTypes
  <1>7. AgeOrder'
    <2>1. agingDisk.daily.day <= date /\ agingDisk.daily.day <= agingDisk.daily.day
      BY <1>0, AgeNumbers DEF AgeOrder
    <2>2. aging' = [agingDisk EXCEPT !.p = aging'.p]
      BY <1>1, <1>4
    <2> QED
      BY <1>0, <1>1, <1>4, <2>1, <2>2 DEF AgeOrder
  <1>8. NotYounger'
    <2>1. /\ settled.last = -1 => agingDisk.p <= p
          /\ settled.last # -1 => settled.last <= p \/ agingDisk.p <= p
      <3> PICK d \in Int, q \in Int, l \in Int : d = agingDisk.p /\ q = p /\ l = settled.last
        BY <1>0, <1>3, AgeNumbers DEF Ps
      <3>1. (l = -1 => q = d) /\ (l # -1 => q = d \/ q = l)
        BY <1>3
      <3> QED
        BY <3>1
    <2> QED
      BY <1>1, <1>4, <1>5, <2>1 DEF NotYounger
  <1>9. RowsInv'
    <2> PICK a \in Nat, d \in Nat, k \in Nat, x \in Nat, y \in Nat, l \in Nat :
          a = agingDisk.active /\ d = settled.days /\ k = past.kills
          /\ x = agingDisk.daily.day /\ y = aging.daily.day /\ l = past.lost
      BY <1>0, AgeNumbers
    <2>1. a <= d + l /\ d <= a + k + (IF x < y THEN 1 ELSE 0)
      BY <1>0 DEF RowsInv
    <2>2. a <= d + l /\ d <= a + (k + 1) /\ d <= a + (k + 1) + (IF x < x THEN 1 ELSE 0)
      BY <2>1
    <2> QED
      BY <1>1, <1>4, <1>5, <2>2 DEF RowsInv
  <1>10. ToldInv'
    <2>1. agingDisk.told \in Seq(Tellings) /\ agingDisk.b \in Nat /\ agingDisk.b <= agingDisk.b
      BY <1>2 DEF AgeRecords
    <2>2. Told(agingDisk.told, p, agingDisk.b)
      BY <1>0, <1>2, <1>3, <2>1, ToldStill DEF ToldInv
    <2> QED
      BY <1>0, <1>1, <1>4, <2>2 DEF ToldInv
  <1>11. past'.kills # 0
    BY <1>5
  <1>12. PoolsInv' /\ LinearInv' /\ PaidInv'
    BY <1>11 DEF PoolsInv, LinearInv, PaidInv
  <1>13. past.lost = 0 \/ agingDisk = aging => aging'.p <= aging.p
    BY <1>3, <1>4
  <1> QED
    BY <1>3, <1>4, <1>13, <1>6, <1>7, <1>8, <1>9, <1>10, <1>12 DEF AgeInv

LEMMA AgeOtherSteps ==
  ASSUME AgeInv, Age!Save \/ Age!Midnight \/ Age!Choose \/ UNCHANGED avars
  PROVE  AgeInv' /\ aging'.p <= aging.p
         /\ (agingDisk.model # "none" => aging'.model = agingDisk.model)
  <1>0. AgeTypes /\ AgeOrder /\ NotYounger /\ PoolsInv /\ RowsInv /\ LinearInv /\ PaidInv /\ ToldInv
    BY DEF AgeInv
  <1>1. aging' = aging /\ settled' = settled /\ past' = past
    BY DEF Age!Save, Age!Midnight, Age!Choose, avars
  <1>2. aging.p <= aging.p /\ aging.daily.day <= aging.daily.day
    BY <1>0, AgeNumbers
  <1>3. agingDisk.model # "none" => aging'.model = agingDisk.model
    BY <1>0, <1>1 DEF NotYounger
  <1>4. PoolsInv' /\ LinearInv' /\ PaidInv'
    BY <1>0, <1>1 DEF PoolsInv, LinearInv, PaidInv
  <1>5. CASE Age!Save
    <2>1. agingDisk' = aging /\ way' = way /\ date' = date
      BY <1>5 DEF Age!Save
    <2>2. AgeTypes' /\ ToldInv'
      BY <1>0, <1>1, <2>1 DEF AgeTypes, ToldInv
    <2>3. AgeOrder'
      <3>1. aging = [aging EXCEPT !.p = aging.p]
        BY <1>0 DEF AgeTypes, AgeRecords
      <3> QED
        BY <1>0, <1>1, <1>2, <2>1, <3>1 DEF AgeOrder
    <2>4. NotYounger'
      BY <1>1, <1>2, <2>1 DEF NotYounger
    <2>5. RowsInv'
      <3> PICK a \in Nat, d \in Nat, k \in Nat, y \in Nat, l \in Nat :
            /\ a = aging.active /\ d = settled.days /\ k = past.kills /\ y = aging.daily.day
            /\ l = past.lost
        BY <1>0, AgeNumbers
      <3>1. a <= d + l /\ d <= a + k
        BY <1>0 DEF RowsInv
      <3>2. d <= a + k + (IF y < y THEN 1 ELSE 0)
        BY <3>1
      <3> QED
        BY <1>1, <2>1, <3>1, <3>2 DEF RowsInv
    <2> QED
      BY <1>1, <1>2, <1>3, <1>4, <2>2, <2>3, <2>4, <2>5 DEF AgeInv
  <1>6. CASE Age!Midnight
    <2>1. agingDisk' = agingDisk /\ way' = way /\ date' = date + 1 /\ date < LastDay /\ agingDisk = aging
      BY <1>6 DEF Age!Midnight
    <2>2. date' \in 0..LastDay /\ date <= date'
      BY <1>0, <2>1, AgeConstants DEF AgeTypes
    <2>3. AgeTypes' /\ ToldInv' /\ NotYounger' /\ RowsInv'
      BY <1>0, <1>1, <2>1, <2>2 DEF AgeTypes, ToldInv, NotYounger, RowsInv
    <2>4. AgeOrder'
      <3>1. aging = [agingDisk EXCEPT !.p = aging.p]
        BY <1>0, <2>1 DEF AgeTypes, AgeRecords
      <3>2. aging.daily.day <= date'
        BY <1>0, <2>1, AgeNumbers DEF AgeOrder
      <3> QED
        BY <1>0, <1>1, <2>1, <3>1, <3>2 DEF AgeOrder
    <2> QED
      BY <1>1, <1>2, <1>3, <1>4, <2>3, <2>4 DEF AgeInv
  <1>7. CASE Age!Choose
    <2>1. agingDisk' = agingDisk /\ date' = date /\ way' \in Ways
      BY <1>7 DEF Age!Choose
    <2>2. AgeTypes' /\ ToldInv' /\ NotYounger' /\ RowsInv' /\ AgeOrder'
      BY <1>0, <1>1, <2>1 DEF AgeTypes, ToldInv, NotYounger, RowsInv, AgeOrder
    <2> QED
      BY <1>1, <1>2, <1>3, <1>4, <2>2 DEF AgeInv
  <1>8. CASE UNCHANGED avars
    <2>1. agingDisk' = agingDisk /\ date' = date /\ way' = way
      BY <1>8 DEF avars
    <2>2. AgeTypes' /\ ToldInv' /\ NotYounger' /\ RowsInv' /\ AgeOrder'
      BY <1>0, <1>1, <2>1 DEF AgeTypes, ToldInv, NotYounger, RowsInv, AgeOrder
    <2> QED
      BY <1>1, <1>2, <1>3, <1>4, <2>2 DEF AgeInv
  <1> QED
    BY <1>5, <1>6, <1>7, <1>8

LEMMA AgeStep ==
  ASSUME AgeInv, [Age!Next]_avars
  PROVE  AgeInv'
         /\ (aging'.p <= aging.p \/ (past.lost > 0 /\ agingDisk # aging /\ past'.kills > past.kills))
         /\ (agingDisk.model # "none" => aging'.model = agingDisk.model)
  <1>1. CASE Age!Restart
    <2>1. past \in Pasts /\ past' = [past EXCEPT !.kills = @ + 1]
      BY <1>1 DEF AgeInv, AgeTypes, Age!Restart
    <2>2. past.lost \in Nat /\ past'.kills > past.kills
      BY <2>1 DEF Pasts
    <2>3. past.lost = 0 \/ past.lost > 0
      BY <2>2
    <2> QED
      BY <1>1, <2>2, <2>3, RestartStep
  <1> QED
    BY <1>1, RolloverStep, RaisesStep, LiveStep, AgeOtherSteps DEF Age!Next

LEMMA AgeBegins ==
  ASSUME Age!Init
  PROVE  AgeInv
  <1>1. /\ aging = Age!Newborn /\ agingDisk = aging /\ settled = [last |-> -1, days |-> 0]
        /\ way = Age!NoWay /\ date = 0
        /\ past = [core |-> Age!Full, either |-> FALSE, paid |-> 0, fired |-> 0, unseen |-> FALSE,
                   troubles |-> 0, kills |-> 0, lost |-> 0]
    BY DEF Age!Init, Age!None
  <1>2. Age!NoDay \in AgeDays /\ Age!NoDay.day = 0 /\ ~Age!NoDay.interacted /\ ~Age!NoDay.seen
    BY AgeConstants DEF Age!NoDay, AgeDays
  <1>3. Age!Full \in Ps /\ Age!Full \in Int /\ Age!Full <= Age!Full
    BY AgeConstants DEF Ps
  <1>4. aging = [p |-> Age!Full, daily |-> Age!NoDay, shadow |-> 0, model |-> "none", active |-> 0,
                 fast |-> Age!Full, samples |-> 0, b |-> 0, told |-> <<>>, milestone |-> -1]
    BY <1>1 DEF Age!Newborn, Age!None
  <1> HIDE DEF Age!Full
  <1>5. aging \in AgeRecords
    <2>1. <<>> \in Seq(Tellings) /\ "none" \in AgeModels
      BY DEF AgeModels
    <2> QED
      BY <1>2, <1>3, <1>4, <2>1 DEF AgeRecords
  <1>6. /\ aging.p = Age!Full /\ aging.daily = Age!NoDay /\ aging.active = 0 /\ aging.fast = Age!Full
        /\ aging.model = "none" /\ aging.told = <<>>
    BY <1>4
  <1>7. AgeTypes
    <2>1. past \in Pasts
      BY <1>1, <1>3 DEF Pasts
    <2>2. settled \in [last : {-1} \cup Ps, days : Nat]
      BY <1>1
    <2> QED
      BY <1>1, <1>5, <2>1, <2>2, AgeConstants DEF AgeTypes
  <1>8. AgeOrder
    BY <1>1, <1>2, <1>6 DEF AgeOrder
  <1>9. NotYounger /\ PoolsInv /\ LinearInv
    BY <1>1, <1>3, <1>6 DEF NotYounger, PoolsInv, LinearInv
  <1>10. RowsInv /\ PaidInv
    BY <1>1, <1>2, <1>6 DEF RowsInv, PaidInv
  <1>11. ToldInv
    BY <1>1, <1>6 DEF ToldInv, Told
  <1> QED
    BY <1>7, <1>8, <1>9, <1>10, <1>11 DEF AgeInv

LEMMA AgeFollows ==
  ASSUME AgeInv
  PROVE  /\ Age!ExpressedWithinP /\ Age!DaysAreRows /\ Age!LinearIsCore
         /\ Age!AnnouncedForward /\ Age!ConcernPaidOnce /\ Age!TypeOK
  <1>0. AgeTypes /\ AgeOrder /\ PoolsInv /\ RowsInv /\ LinearInv /\ PaidInv /\ ToldInv
    BY DEF AgeInv
  <1>1. Age!ExpressedWithinP
    <2>1. aging.p <= aging.p
      BY <1>0, AgeNumbers
    <2> QED
      BY <1>0, <2>1 DEF PoolsInv, Age!ExpressedWithinP, Age!Expressed
  <1>2. Age!DaysAreRows
    BY <1>0 DEF RowsInv, Age!DaysAreRows
  <1>3. Age!LinearIsCore
    BY <1>0 DEF LinearInv, Age!LinearIsCore
  <1>4. Age!AnnouncedForward
    BY <1>0 DEF ToldInv, Told, Age!AnnouncedForward
  <1>5. Age!ConcernPaidOnce
    <2> SUFFICES ASSUME past.kills = 0, ~past.unseen PROVE past.paid <= past.fired
      BY DEF Age!ConcernPaidOnce
    <2> PICK s \in Nat : s = IF aging.daily.interacted \/ aging.daily.seen THEN aging.shadow ELSE 0
      BY <1>0, AgeNumbers
    <2>1. past.paid + s <= past.fired /\ past.paid \in Nat /\ past.fired \in Nat
      BY <1>0, AgeNumbers DEF PaidInv
    <2> QED
      BY <2>1
  <1>6. Age!TypeOK
    <2>1. \A r \in AgeRecords : r.active <= r.daily.day =>
            /\ r.p \in 0..Age!Full /\ r.fast \in 0..Age!Full
            /\ r.daily.day \in 0..LastDay /\ r.daily.high \in Nat
            /\ r.active \in 0..(LastDay + 1) /\ r.b \in Nat
            /\ r.model \in {"none", "linear", "weibull", "event", "reserve"}
            /\ Age!Range(r.told) \subseteq [track : {"A", "B"}, epoch : 0..4]
      <3> SUFFICES ASSUME NEW r \in AgeRecords, r.active <= r.daily.day
                   PROVE  /\ r.p \in 0..Age!Full /\ r.fast \in 0..Age!Full
                          /\ r.daily.day \in 0..LastDay /\ r.daily.high \in Nat
                          /\ r.active \in 0..(LastDay + 1) /\ r.b \in Nat
                          /\ r.model \in {"none", "linear", "weibull", "event", "reserve"}
                          /\ Age!Range(r.told) \subseteq [track : {"A", "B"}, epoch : 0..4]
        OBVIOUS
      <3>1. r.p \in 0..Age!Full /\ r.fast \in 0..Age!Full /\ r.daily \in AgeDays /\ r.active \in Nat
            /\ r.b \in Nat /\ r.model \in AgeModels /\ r.told \in Seq(Tellings)
        BY DEF AgeRecords, Ps
      <3>2. r.daily.day \in 0..LastDay /\ r.daily.high \in Nat
        BY <3>1 DEF AgeDays
      <3>3. r.active \in 0..(LastDay + 1)
        BY <3>1, <3>2, AgeConstants
      <3>4. Age!Range(r.told) \subseteq Tellings
        BY <3>1 DEF Age!Range
      <3> QED
        BY <3>1, <3>2, <3>3, <3>4 DEF AgeModels, Tellings
    <2>2. aging \in AgeRecords /\ agingDisk \in AgeRecords
      BY <1>0 DEF AgeTypes
    <2>3. aging.active <= aging.daily.day /\ agingDisk.active <= agingDisk.daily.day
      BY <1>0 DEF AgeOrder
    <2>4. settled.last \in {Age!None} \cup 0..Age!Full /\ settled.days \in Nat
          /\ way \in Ways \cup {Age!NoWay} /\ date \in 0..LastDay
      BY <1>0 DEF AgeTypes, Ps, Age!None
    <2> QED
      BY <2>1, <2>2, <2>3, <2>4 DEF Age!TypeOK
  <1> QED
    BY <1>1, <1>2, <1>3, <1>4, <1>5, <1>6

------------------------------------------------------------------------------
(* The book: the record never falls behind its rows, and the press writes    *)
(* one edition after the other.                                              *)
BookModels == {"linear", "weibull", "event", "reserve"}
Rings  == [at : Nat, days : Nat]
Wreaths == Seq(Rings)
Truths  == BOOLEAN
Pages   == 0..LastPage
Lives  == [gen : 1..MaxGens, p : Ps, fast : Ps, model : BookModels, age : Nat, words : 0..MaxWords,
           rings : Wreaths, settledTo : Pages, legacy : Truths]
Said   == {-1} \cup Nat
Reasons == {"hatch", "settle_day", "epoch_shift"}
Rows   == [reason : Reasons, gen : 1..MaxGens, p : Ps, day : Int, high : Said, concern : Said]
Sheets == {"long", "short", "appendix", "pictures"}
Editions == [no : Nat, gen : 0..MaxGens, total : 0..MaxWords, picks : SUBSET Nat]

BookTypes ==
  /\ life \in Lives /\ lines \in Seq(Rows) /\ torn \in BOOLEAN /\ page \in Pages
  /\ shelf \in [Sheets -> Editions] /\ press \in [left : Seq(Sheets), edition : Editions]
  /\ slips \in Nat

(* A row says no less of a life than its record does, and no life but this   *)
(* one and those before it has one.                                          *)
Behind(rows, l) ==
  \A i \in DOMAIN rows : rows[i].gen <= l.gen /\ (rows[i].gen = l.gen => l.p <= rows[i].p)

LedgerInv == Behind(lines, life) /\ life.age <= life.settledTo /\ life.settledTo <= page

LEMMA BookConstants ==
  /\ Models \subseteq BookModels
  /\ Intensities \subseteq [high : Nat, concern : Nat]
  /\ Calendar \in Nat \ {0} /\ MinSample \in Nat /\ PerEpoch \in Nat
  /\ LastPage \in Nat /\ MaxWords \in Nat /\ MaxSlips \in Nat /\ MaxEditions \in Nat
  /\ MaxGens \in Nat \ {0}
  /\ Printed!Full = Age!Full /\ Printed!Full \in Ps /\ 0 \in Ps
  <1>1. Printed!Full = Age!Full
    BY DEF Printed!Full, Printed!Unit, Age!Full, Age!Unit
  <1> QED
    BY <1>1, AgeConstants, GrownConstants DEF Printed!BookAssumption, BookModels, Ps

(* The two modules that settle a day use the same ways to age.               *)
LEMMA SameWays ==
  /\ \A p : Printed!EpochIndex(p) = Age!EpochIndex(p)
  /\ \A h : Printed!CoreSpend(h) = Age!CoreSpend(h)
  /\ \A x : Printed!Floor(x) = Age!Floor(x)
  <1>1. \A p : Printed!EpochIndex(p) = Age!EpochIndex(p)
    BY DEF Printed!EpochIndex, Age!EpochIndex, Printed!Full, Printed!Unit, Age!Full, Age!Unit
  <1>2. \A h : Printed!CoreSpend(h) = Age!CoreSpend(h)
    BY DEF Printed!CoreSpend, Age!CoreSpend, Printed!Unit, Age!Unit, Printed!Least, Age!Least
  <1>3. \A x : Printed!Floor(x) = Age!Floor(x)
    BY DEF Printed!Floor, Age!Floor
  <1> QED
    BY <1>1, <1>2, <1>3

LEMMA SameSpent ==
  ASSUME NEW m, NEW p, NEW fast, NEW f
  PROVE  /\ Printed!Spent(m, p, fast, f) = Age!Spent(m, p, fast, f)
         /\ Printed!Gated(p, Printed!Spent(m, p, fast, f)) = Left2(m, p, fast, f)
  <1>1. Printed!Linear(p, fast, f) = Age!Linear(p, fast, f)
    BY SameWays DEF Printed!Linear, Age!Linear, Printed!Outcome, Age!Outcome
  <1>2. Printed!Event(p, fast, f) = Age!Event(p, fast, f)
    BY SameWays DEF Printed!Event, Age!Event, Printed!Outcome, Age!Outcome, Printed!Unit, Age!Unit,
                    Printed!Least, Age!Least
  <1>3. Printed!WeibullBase(f) = Age!WeibullBase(f)
    BY DEF Printed!WeibullBase, Age!WeibullBase, Printed!WearAt, Age!WearAt, Printed!Least, Age!Least
  <1>4. Printed!Weibull(p, fast, f) = Age!Weibull(p, fast, f)
    BY <1>3, SameWays DEF Printed!Weibull, Age!Weibull, Printed!Outcome, Age!Outcome, Printed!Least, Age!Least
  <1>5. Printed!Reserve(p, fast, f) = Age!Reserve(p, fast, f)
    BY DEF Printed!Reserve, Age!Reserve, Printed!Outcome, Age!Outcome, Printed!Least, Age!Least,
           Printed!Floor, Age!Floor, Printed!Unit, Age!Unit
  <1>6. Printed!Spent(m, p, fast, f) = Age!Spent(m, p, fast, f)
    BY <1>1, <1>2, <1>4, <1>5 DEF Printed!Spent, Age!Spent
  <1>7. \A o : Printed!Gated(p, o) = Age!Gated(p, o)
    BY DEF Printed!Gated, Age!Gated, Printed!Least, Age!Least, Printed!Floor, Age!Floor
  <1> QED
    BY <1>6, <1>7 DEF Left2

(* What a day leaves.                                                        *)
LEMMA OutcomeIs ==
  ASSUME life \in Lives, NEW f \in Intensities
  PROVE  /\ Printed!Outcomes(f) \in [p : Ps, fast : Ps] /\ Printed!Outcomes(f).p <= life.p
         /\ f.high \in Nat /\ f.concern \in Nat
  <1> DEFINE g == [active |-> TRUE, high |-> f.high, concern |-> f.concern, shift |-> FALSE,
                   age |-> life.age]
  <1>1. f.high \in Nat /\ f.concern \in Nat
    BY BookConstants
  <1>2. Factual(g)
    BY <1>1 DEF Factual, Lives
  <1>3. Printed!Outcomes(f) = Left2(life.model, life.p, life.fast, g)
    BY SameSpent DEF Printed!Outcomes
  <1>4. life.model \in AgeModels /\ life.p \in Ps /\ life.fast \in Ps
    BY DEF Lives, BookModels, AgeModels
  <1> HIDE DEF g
  <1>5. \A m \in AgeModels, p, fast \in Ps :
          Left2(m, p, fast, g) \in [p : Ps, fast : Ps] /\ Left2(m, p, fast, g).p <= p
    BY <1>2, SpentIs
  <1> QED
    BY <1>1, <1>3, <1>4, <1>5

------------------------------------------------------------------------------
LEMMA BehindStill ==
  ASSUME NEW rows \in Seq(Rows), NEW l, NEW k, Behind(rows, l), l.p \in Ps, k.p \in Ps,
         k.gen = l.gen, k.p <= l.p
  PROVE  Behind(rows, k)
  <1> SUFFICES ASSUME NEW i \in DOMAIN rows
               PROVE  rows[i].gen <= k.gen /\ (rows[i].gen = k.gen => k.p <= rows[i].p)
    BY DEF Behind
  <1>1. rows[i] \in Rows
    OBVIOUS
  <1> PICK a \in Ps : a = rows[i].p
    BY <1>1 DEF Rows
  <1>2. rows[i].gen <= l.gen /\ (rows[i].gen = l.gen => l.p <= a)
    BY DEF Behind
  <1>3. l.p <= a => k.p <= a
    BY DEF Ps
  <1> QED
    BY <1>2, <1>3

LEMMA BehindMore ==
  ASSUME NEW rows \in Seq(Rows), NEW l, Behind(rows, l), NEW row \in Rows, row.gen = l.gen, l.p <= row.p
  PROVE  Append(rows, row) \in Seq(Rows) /\ Behind(Append(rows, row), l)
  <1> DEFINE t == Append(rows, row)
  <1>1. /\ t \in Seq(Rows) /\ DOMAIN t = 1..(Len(rows) + 1) /\ t[Len(rows) + 1] = row
        /\ \A i \in 1..Len(rows) : t[i] = rows[i]
    OBVIOUS
  <1> PICK n \in Nat : n = Len(rows) /\ DOMAIN rows = 1..n
    OBVIOUS
  <1> HIDE DEF t
  <1>2. row.gen <= l.gen
    BY DEF Rows
  <1>3. ASSUME NEW i \in DOMAIN t
        PROVE  t[i].gen <= l.gen /\ (t[i].gen = l.gen => l.p <= t[i].p)
    <2>1. CASE i \in 1..n
      BY <1>1, <2>1 DEF Behind
    <2>2. CASE i = n + 1
      BY <1>1, <1>2, <2>2
    <2> QED
      BY <1>1, <2>1, <2>2
  <1>4. Behind(t, l)
    BY <1>3 DEF Behind
  <1> QED
    BY <1>1, <1>4 DEF t

(* _append_raw leaves readable rows, none of a life that does not have them. *)
WrittenTo(rows, cut, row) == Printed!Written([lines |-> rows, torn |-> cut], row)

Readable(w, l) ==
  w.lines \in Seq(Rows) /\ w.torn = FALSE /\ Behind(w.lines, l) /\ w = [lines |-> w.lines, torn |-> FALSE]

LEMMA WrittenIs ==
  ASSUME NEW rows \in Seq(Rows), NEW cut, NEW l, Behind(rows, l), NEW row \in Rows,
         row.gen = l.gen, l.p <= row.p
  PROVE  Readable(WrittenTo(rows, cut, row), l)
  <1> DEFINE now == IF cut THEN rows ELSE Append(rows, row)
  <1>1. WrittenTo(rows, cut, row) = [lines |-> now, torn |-> FALSE]
    BY DEF WrittenTo, Printed!Written
  <1>2. now \in Seq(Rows) /\ Behind(now, l)
    BY BehindMore
  <1> HIDE DEF now
  <1>3. [lines |-> now, torn |-> FALSE].lines = now /\ [lines |-> now, torn |-> FALSE].torn = FALSE
    OBVIOUS
  <1> QED
    BY <1>1, <1>2, <1>3, Zenon DEF Readable

LEMMA Cut ==
  ASSUME NEW rows, NEW a, NEW b
  PROVE  [[lines |-> rows, torn |-> a] EXCEPT !.torn = b] = [lines |-> rows, torn |-> b]
  OBVIOUS

LEMMA SlippedIs ==
  ASSUME NEW rows, NEW cut \in BOOLEAN, NEW s \in Printed!Slipped([lines |-> rows, torn |-> cut])
  PROVE  s.lines = rows /\ s.torn \in BOOLEAN
  <1>1. \/ s = [lines |-> rows, torn |-> cut]
        \/ s = [[lines |-> rows, torn |-> cut] EXCEPT !.torn = TRUE]
    BY Zenon DEF Printed!Slipped
  <1>2. [[lines |-> rows, torn |-> cut] EXCEPT !.torn = TRUE] = [lines |-> rows, torn |-> TRUE]
    BY Cut, Zenon
  <1>3. CASE s = [lines |-> rows, torn |-> cut]
    BY <1>3
  <1>4. CASE s = [lines |-> rows, torn |-> TRUE]
    BY <1>4
  <1> QED
    BY <1>1, <1>2, <1>3, <1>4, Zenon

LEMMA RingDaysIs ==
  ASSUME life \in Lives, NEW age \in Nat
  PROVE  Printed!RingDays(age) \in Nat
         /\ Printed!RingDays(age) = IF life.rings = <<>> THEN IF age > 0 THEN age ELSE 1
                                    ELSE IF age > life.rings[Len(life.rings)].at
                                         THEN age - life.rings[Len(life.rings)].at ELSE 1
  <1>1. life.rings \in Seq(Rings)
    BY DEF Lives, Wreaths
  <1>2. life.rings # <<>> => life.rings[Len(life.rings)] \in Rings
    BY <1>1
  <1>3. life.rings # <<>> => life.rings[Len(life.rings)].at \in Nat
    BY <1>2 DEF Rings
  <1> DEFINE n == life.rings[Len(life.rings)].at
  <1>4. Printed!RingDays(age) = IF life.rings = <<>> THEN IF age > 0 THEN age ELSE 1
                                ELSE IF age > n THEN age - n ELSE 1
    BY DEF Printed!RingDays
  <1> HIDE DEF n
  <1>5. Printed!RingDays(age) \in Nat
    BY <1>3, <1>4 DEF n
  <1> QED
    BY <1>4, <1>5 DEF n

SettledAs(l, p, fast, age, to, rings) ==
  [l EXCEPT !.p = p, !.fast = fast, !.age = age, !.settledTo = to, !.rings = rings]
SlippedAs(l, p, fast, age, to) == [l EXCEPT !.p = p, !.fast = fast, !.age = age, !.settledTo = to]
LegacyAs(l, p, to, legacy, rings) ==
  [l EXCEPT !.p = p, !.settledTo = to, !.legacy = legacy, !.rings = rings]
PaidAs(l, p)     == [l EXCEPT !.p = p]
IdleAs(l, to)    == [l EXCEPT !.settledTo = to]
SpokenAs(l, words) == [l EXCEPT !.words = words]

LEMMA LifeSettled ==
  ASSUME NEW l \in Lives, NEW p \in Ps, NEW fast \in Ps, NEW age \in Nat, NEW to \in Pages,
         NEW rings \in Wreaths
  PROVE  LET k == SettledAs(l, p, fast, age, to, rings)
         IN /\ k \in Lives /\ k.gen = l.gen /\ k.p = p /\ k.age = age /\ k.settledTo = to
            /\ k.rings = rings /\ k.legacy = l.legacy /\ k.model = l.model /\ k.words = l.words
            /\ k.fast = fast
  BY DEF Lives, SettledAs

LEMMA LifeSlipped ==
  ASSUME NEW l \in Lives, NEW p \in Ps, NEW fast \in Ps, NEW age \in Nat, NEW to \in Pages
  PROVE  LET k == SlippedAs(l, p, fast, age, to)
         IN /\ k \in Lives /\ k.gen = l.gen /\ k.p = p /\ k.age = age /\ k.settledTo = to
            /\ k.rings = l.rings /\ k.legacy = l.legacy /\ k.model = l.model /\ k.words = l.words
            /\ k.fast = fast
  BY DEF Lives, SlippedAs

LEMMA LifeLegacy ==
  ASSUME NEW l \in Lives, NEW p \in Ps, NEW to \in Pages, NEW rings \in Wreaths, NEW legacy \in Truths
  PROVE  LET k == LegacyAs(l, p, to, legacy, rings)
         IN /\ k \in Lives /\ k.gen = l.gen /\ k.p = p /\ k.age = l.age /\ k.settledTo = to
            /\ k.rings = rings /\ k.legacy = legacy /\ k.model = l.model /\ k.words = l.words
            /\ k.fast = l.fast
  BY DEF Lives, LegacyAs

LEMMA LifeOne ==
  ASSUME NEW l \in Lives, NEW p \in Ps, NEW to \in Pages, NEW words \in 0..MaxWords
  PROVE  /\ LET k == PaidAs(l, p)
            IN /\ k \in Lives /\ k.gen = l.gen /\ k.p = p /\ k.age = l.age /\ k.settledTo = l.settledTo
               /\ k.rings = l.rings /\ k.legacy = l.legacy /\ k.model = l.model /\ k.words = l.words
         /\ LET k == IdleAs(l, to)
            IN /\ k \in Lives /\ k.gen = l.gen /\ k.p = l.p /\ k.age = l.age /\ k.settledTo = to
               /\ k.rings = l.rings /\ k.legacy = l.legacy /\ k.model = l.model /\ k.words = l.words
         /\ LET k == SpokenAs(l, words)
            IN /\ k \in Lives /\ k.gen = l.gen /\ k.p = l.p /\ k.age = l.age /\ k.settledTo = l.settledTo
               /\ k.rings = l.rings /\ k.legacy = l.legacy /\ k.model = l.model /\ k.words = words
  BY DEF Lives, PaidAs, IdleAs, SpokenAs

LEMMA RowIs ==
  ASSUME life \in Lives, NEW reason \in Reasons, NEW p \in Ps, NEW day \in Int, NEW f,
         f.high \in Said, f.concern \in Said
  PROVE  /\ Printed!Row(reason, p, day, f) \in Rows
         /\ Printed!Row(reason, p, day, f) =
              [reason |-> reason, gen |-> life.gen, p |-> p, day |-> day, high |-> f.high,
               concern |-> f.concern]
  BY DEF Printed!Row, Rows, Lives

------------------------------------------------------------------------------
(* Sums: g gives the sum of f over each subset of S, whichever element is    *)
(* taken first.                                                              *)
Any(s) == CHOOSE x \in s : TRUE

Sums(f, S, g) ==
  \A s \in SUBSET S : g[s] = IF s = {} THEN 0 ELSE f[Any(s)] + g[s \ {Any(s)}]

(* What holds of the finite sets of every size.                              *)
LEMMA OnSizes ==
  ASSUME NEW S, IsFiniteSet(S), NEW T, T \in SUBSET Nat,
         0 \in T, \A n \in Nat : n \in T => n + 1 \in T
  PROVE  \A s \in SUBSET S : IsFiniteSet(s) /\ Cardinality(s) \in T
  <1>1. Nat \subseteq T
    BY Induction
  <1>2. \A s \in SUBSET S : IsFiniteSet(s)
    BY FS_Subset
  <1>3. \A s \in SUBSET S : Cardinality(s) \in Nat
    BY <1>2, FS_CardinalityType
  <1> QED
    BY <1>1, <1>2, <1>3

LEMMA AnyOf ==
  ASSUME NEW s, s # {}
  PROVE  Any(s) \in s
  BY DEF Any

LEMMA OneLess ==
  ASSUME NEW s, IsFiniteSet(s), NEW x \in s
  PROVE  /\ IsFiniteSet(s \ {x}) /\ Cardinality(s \ {x}) = Cardinality(s) - 1
         /\ Cardinality(s) \in Nat /\ Cardinality(s) > 0
  <1>1. IsFiniteSet(s \ {x}) /\ Cardinality(s \ {x}) = Cardinality(s) - 1
    BY FS_RemoveElement
  <1>2. Cardinality(s) \in Nat /\ Cardinality(s \ {x}) \in Nat
    BY <1>1, FS_CardinalityType
  <1> QED
    BY <1>1, <1>2

LEMMA NoneOf ==
  ASSUME NEW s, IsFiniteSet(s)
  PROVE  Cardinality(s) \in Nat /\ (Cardinality(s) = 0 <=> s = {})
  BY FS_CardinalityType, FS_EmptySet

(* There is such a g: for the sets of up to n elements, and so for all.      *)
LEMMA SumsExist ==
  ASSUME NEW S, IsFiniteSet(S), NEW f \in [S -> Int]
  PROVE  \E g \in [SUBSET S -> Int] : Sums(f, S, g)
  <1> DEFINE Small(n) == {s \in SUBSET S : Cardinality(s) <= n}
             Good(n) == \E g \in [Small(n) -> Int] :
                          \A s \in Small(n) : g[s] = IF s = {} THEN 0 ELSE f[Any(s)] + g[s \ {Any(s)}]
             T == {n \in Nat : Good(n)}
  <1>0. \A s \in SUBSET S : IsFiniteSet(s) /\ Cardinality(s) \in Nat /\ (Cardinality(s) = 0 <=> s = {})
    BY FS_Subset, NoneOf
  <1>1. Good(0)
    <2> DEFINE g == [s \in Small(0) |-> 0]
    <2>1. \A s \in Small(0) : s = {}
      BY <1>0
    <2>2. g \in [Small(0) -> Int]
      OBVIOUS
    <2>3. \A s \in Small(0) : g[s] = IF s = {} THEN 0 ELSE f[Any(s)] + g[s \ {Any(s)}]
      BY <2>1
    <2> HIDE DEF g, Small
    <2> QED
      BY <2>2, <2>3
  <1>2. ASSUME NEW n \in Nat, Good(n) PROVE Good(n + 1)
    <2> PICK g \in [Small(n) -> Int] :
          \A s \in Small(n) : g[s] = IF s = {} THEN 0 ELSE f[Any(s)] + g[s \ {Any(s)}]
      BY <1>2
    <2> DEFINE h == [s \in Small(n + 1) |-> IF s = {} THEN 0 ELSE f[Any(s)] + g[s \ {Any(s)}]]
    <2>1. \A s \in Small(n + 1) : s # {} => Any(s) \in S /\ s \ {Any(s)} \in Small(n)
      <3> TAKE s \in Small(n + 1)
      <3> HAVE s # {}
      <3>1. Any(s) \in s /\ s \in SUBSET S
        BY AnyOf
      <3>2. Cardinality(s \ {Any(s)}) = Cardinality(s) - 1 /\ Cardinality(s) \in Nat
        BY <1>0, <3>1, OneLess
      <3> QED
        BY <3>1, <3>2
    <2>2. h \in [Small(n + 1) -> Int]
      <3>1. \A s \in Small(n + 1) : s # {} => f[Any(s)] \in Int /\ g[s \ {Any(s)}] \in Int
        <4> HIDE DEF Small
        <4> QED
          BY <2>1
      <3> HIDE DEF Small
      <3> QED
        BY <3>1
    <2>3. \A s \in Small(n) : s \in Small(n + 1) /\ h[s] = g[s]
      <3>1. \A s \in Small(n) : s \in Small(n + 1)
        BY <1>0
      <3> HIDE DEF Small
      <3> QED
        BY <3>1
    <2>4. \A s \in Small(n + 1) : h[s] = IF s = {} THEN 0 ELSE f[Any(s)] + h[s \ {Any(s)}]
      <3> HIDE DEF Small
      <3>1. \A s \in Small(n + 1) : h[s] = IF s = {} THEN 0 ELSE f[Any(s)] + g[s \ {Any(s)}]
        OBVIOUS
      <3> HIDE DEF h
      <3> QED
        BY <2>1, <2>3, <3>1
    <2> HIDE DEF h, Small
    <2> QED
      BY <2>2, <2>4
  <1>3. Nat \subseteq T
    <2>1. 0 \in T /\ \A n \in Nat : n \in T => n + 1 \in T
      <3> HIDE DEF Good
      <3> QED
        BY <1>1, <1>2
    <2> HIDE DEF T
    <2> QED
      BY <2>1, Induction
  <1> DEFINE m == Cardinality(S)
  <1>4. m \in Nat /\ \A s \in SUBSET S : Cardinality(s) <= m
    BY FS_CardinalityType, FS_Subset
  <1>5. Small(m) = SUBSET S
    BY <1>4
  <1>6. Good(m)
    <2> HIDE DEF Good, m
    <2> QED
      BY <1>3, <1>4
  <1> HIDE DEF Small, m
  <1> QED
    BY <1>5, <1>6 DEF Sums

(* Two of them agree where their functions do.                               *)
LEMMA SumsAgree ==
  ASSUME NEW S, IsFiniteSet(S), NEW f, NEW g, Sums(f, S, g), NEW R, S \subseteq R, NEW h, NEW k, Sums(h, R, k),
         \A x \in S : h[x] = f[x]
  PROVE  \A s \in SUBSET S : k[s] = g[s]
  <1> DEFINE T == {n \in Nat : \A s \in SUBSET S : Cardinality(s) = n => k[s] = g[s]}
  <1>0. \A s \in SUBSET S : IsFiniteSet(s) /\ Cardinality(s) \in Nat /\ (Cardinality(s) = 0 <=> s = {})
    BY FS_Subset, NoneOf
  <1>1. 0 \in T
    BY <1>0 DEF Sums
  <1>2. ASSUME NEW n \in Nat, n \in T PROVE n + 1 \in T
    <2> SUFFICES ASSUME NEW s \in SUBSET S, Cardinality(s) = n + 1 PROVE k[s] = g[s]
      OBVIOUS
    <2>1. s # {} /\ Any(s) \in s
      BY <1>0, AnyOf
    <2>2. Cardinality(s \ {Any(s)}) = n /\ s \ {Any(s)} \in SUBSET S
      BY <1>0, <2>1, OneLess
    <2>3. k[s \ {Any(s)}] = g[s \ {Any(s)}] /\ h[Any(s)] = f[Any(s)]
      BY <1>2, <2>1, <2>2
    <2> QED
      BY <2>1, <2>3 DEF Sums
  <1>3. \A s \in SUBSET S : Cardinality(s) \in T
    <2> HIDE DEF T
    <2>1. T \in SUBSET Nat
      BY DEF T
    <2> QED
      BY <1>1, <1>2, <2>1, OnSizes
  <1> QED
    BY <1>3

(* Any element may be taken first.                                           *)
Takes(f, g, s, x) == g[s] = f[x] + g[s \ {x}]

LEMMA SumsFirst ==
  ASSUME NEW S, IsFiniteSet(S), NEW f \in [S -> Int], NEW g \in [SUBSET S -> Int], Sums(f, S, g)
  PROVE  \A s \in SUBSET S : \A x \in s : Takes(f, g, s, x)
  <1> DEFINE T == {n \in Nat : \A s \in SUBSET S : Cardinality(s) = n =>
                                 \A x \in s : Takes(f, g, s, x)}
  <1>0. \A s \in SUBSET S : IsFiniteSet(s) /\ Cardinality(s) \in Nat /\ (Cardinality(s) = 0 <=> s = {})
    BY FS_Subset, NoneOf
  <1>1. 0 \in T
    BY <1>0
  <1>2. ASSUME NEW n \in Nat, n \in T PROVE n + 1 \in T
    <2> SUFFICES ASSUME NEW s \in SUBSET S, Cardinality(s) = n + 1, NEW x \in s
                 PROVE  g[s] = f[x] + g[s \ {x}]
      BY DEF Takes
    <2> DEFINE y == Any(s)
               u == s \ {y}
               v == s \ {x}
               w == s \ {x, y}
    <2>1. y \in s /\ g[s] = f[y] + g[u]
      BY AnyOf DEF Sums
    <2> HIDE DEF y
    <2>2. CASE x = y
      BY <2>1, <2>2
    <2>3. CASE x # y
      <3>1. Cardinality(u) = n /\ u \in SUBSET S /\ x \in u
        BY <1>0, <2>1, <2>3, OneLess
      <3>2. Cardinality(v) = n /\ v \in SUBSET S /\ y \in v
        BY <1>0, <2>1, <2>3, OneLess
      <3>3. u \ {x} = w /\ v \ {y} = w /\ w \in SUBSET S
        OBVIOUS
      <3> HIDE DEF u, v, w
      <3>4. g[u] = f[x] + g[w]
        BY <1>2, <3>1, <3>3 DEF Takes
      <3>5. g[v] = f[y] + g[w]
        BY <1>2, <3>2, <3>3 DEF Takes
      <3>6. f[x] \in Int /\ f[y] \in Int /\ g[w] \in Int
        BY <2>1, <3>3
      <3>7. g[s] = f[x] + g[v]
        BY <2>1, <3>4, <3>5, <3>6
      <3> QED
        BY <3>7 DEF v
    <2> QED
      BY <2>2, <2>3
  <1>3. \A s \in SUBSET S : Cardinality(s) \in T
    <2> HIDE DEF T
    <2>1. T \in SUBSET Nat
      BY DEF T
    <2> QED
      BY <1>1, <1>2, <2>1, OnSizes
  <1> QED
    BY <1>3

------------------------------------------------------------------------------
(* The sum of f over the finite set S, as the book computes it.              *)
SumOf(f, S) == Printed!MapThenSumSet(LAMBDA x : f[x], S)

LEMMA SumsAre ==
  ASSUME NEW S, IsFiniteSet(S), NEW f \in [S -> Int]
  PROVE  \E g \in [SUBSET S -> Int] : Sums(f, S, g) /\ SumOf(f, S) = g[S]
  <1> DEFINE F(k) == [s \in SUBSET S |-> IF s = {} THEN 0 ELSE f[Any(s)] + k[s \ {Any(s)}]]
             c == CHOOSE k : k = F(k)
  <1> PICK g \in [SUBSET S -> Int] : Sums(f, S, g)
    BY SumsExist
  <1>1. g = F(g)
    BY DEF Sums
  <1>2. c = F(c)
    <2> HIDE DEF F
    <2> QED
      BY <1>1
  <1>3. SumOf(f, S) = c[S]
    BY DEF SumOf, Printed!MapThenSumSet, Printed!MapThenFoldSet, Any
  <1> HIDE DEF c
  <1>4. Sums(f, S, c)
    BY <1>2 DEF Sums
  <1>5. c[S] = g[S]
    BY <1>4, SumsAgree
  <1> QED
    BY <1>3, <1>5

LEMMA SumOfNone ==
  ASSUME NEW f \in [{} -> Int]
  PROVE  SumOf(f, {}) = 0
  <1> PICK g \in [SUBSET {} -> Int] : Sums(f, {}, g) /\ SumOf(f, {}) = g[{}]
    BY SumsAre, FS_EmptySet
  <1> QED
    BY DEF Sums

LEMMA SumFrom ==
  ASSUME NEW R, IsFiniteSet(R), NEW h \in [R -> Int], NEW x \in R
  PROVE  \E k \in [SUBSET R -> Int] : /\ Sums(h, R, k) /\ SumOf(h, R) = k[R]
                                      /\ Takes(h, k, R, x)
  <1> PICK k \in [SUBSET R -> Int] : Sums(h, R, k) /\ SumOf(h, R) = k[R]
    BY SumsAre
  <1>1. \A s \in SUBSET R : \A y \in s : Takes(h, k, s, y)
    BY SumsFirst
  <1>2. R \in SUBSET R
    OBVIOUS
  <1>3. Takes(h, k, R, x)
    BY <1>1, <1>2
  <1> QED
    BY <1>3

LEMMA SumOfMore ==
  ASSUME NEW S, IsFiniteSet(S), NEW f \in [S -> Int], NEW x, x \notin S, NEW h \in [S \cup {x} -> Int],
         \A y \in S : h[y] = f[y]
  PROVE  SumOf(h, S \cup {x}) = h[x] + SumOf(f, S) /\ SumOf(f, S) \in Int
  <1> DEFINE R == S \cup {x}
  <1>1. IsFiniteSet(R)
    BY FS_AddElement
  <1>2. S \in SUBSET R /\ x \in R /\ R \ {x} = S
    OBVIOUS
  <1> HIDE DEF R
  <1>3. PICK g \in [SUBSET S -> Int] : Sums(f, S, g) /\ SumOf(f, S) = g[S]
    BY SumsAre
  <1>4. h \in [R -> Int]
    BY DEF R
  <1>5. PICK k \in [SUBSET R -> Int] : /\ Sums(h, R, k) /\ SumOf(h, R) = k[R]
                                       /\ Takes(h, k, R, x)
    BY <1>1, <1>2, <1>4, SumFrom
  <1>6. k[R] = h[x] + k[S]
    BY <1>2, <1>5 DEF Takes
  <1>7. k[S] = g[S]
    BY <1>2, <1>3, <1>5, SumsAgree
  <1>8. SumOf(f, S) \in Int
    BY <1>3
  <1> QED
    BY <1>3, <1>5, <1>6, <1>7, <1>8 DEF R

(* Sums of numbers within bounds.                                            *)
LEMMA SumOfNat ==
  ASSUME NEW S, IsFiniteSet(S), NEW f \in [S -> Nat]
  PROVE  SumOf(f, S) \in Nat
  <1>0. f \in [S -> Int]
    OBVIOUS
  <1> PICK g \in [SUBSET S -> Int] : Sums(f, S, g) /\ SumOf(f, S) = g[S]
    BY <1>0, SumsAre
  <1> DEFINE T == {n \in Nat : \A s \in SUBSET S : Cardinality(s) = n => g[s] \in Nat}
  <1>1. \A s \in SUBSET S : IsFiniteSet(s) /\ Cardinality(s) \in Nat /\ (Cardinality(s) = 0 <=> s = {})
    BY FS_Subset, NoneOf
  <1>2. 0 \in T
    BY <1>1 DEF Sums
  <1>3. ASSUME NEW n \in Nat, n \in T PROVE n + 1 \in T
    <2> SUFFICES ASSUME NEW s \in SUBSET S, Cardinality(s) = n + 1 PROVE g[s] \in Nat
      OBVIOUS
    <2>1. s # {} /\ Any(s) \in s
      BY <1>1, AnyOf
    <2>2. Cardinality(s \ {Any(s)}) = n /\ s \ {Any(s)} \in SUBSET S
      BY <1>1, <2>1, OneLess
    <2>3. g[s \ {Any(s)}] \in Nat /\ f[Any(s)] \in Nat
      BY <1>3, <2>1, <2>2
    <2>4. g[s] = f[Any(s)] + g[s \ {Any(s)}]
      BY <2>1 DEF Sums
    <2> QED
      BY <2>3, <2>4
  <1>4. \A s \in SUBSET S : Cardinality(s) \in T
    <2> HIDE DEF T
    <2>1. T \in SUBSET Nat
      BY DEF T
    <2> QED
      BY <1>2, <1>3, <2>1, OnSizes
  <1>5. S \in SUBSET S /\ Cardinality(S) \in Nat
    BY FS_CardinalityType
  <1> QED
    BY <1>4, <1>5

------------------------------------------------------------------------------
Days2(r) == [i \in DOMAIN r |-> r[i].days]
Wide(r)  == SumOf(Days2(r), DOMAIN r)

(* The rings of a life that left no day to the core.                         *)
Grown2(r, age) ==
  r # <<>> => Wide(r) = r[Len(r)].at /\ r[Len(r)].at <= age

RingsInv == ~life.legacy => Grown2(life.rings, life.age)

LEMMA RingsAreFinite ==
  ASSUME NEW r \in Wreaths
  PROVE  IsFiniteSet(DOMAIN r) /\ Days2(r) \in [DOMAIN r -> Nat]
  <1>1. r \in Seq(Rings) /\ Len(r) \in Nat /\ DOMAIN r = 1..Len(r)
    BY DEF Wreaths
  <1>2. \A i \in DOMAIN r : r[i] \in Rings
    BY <1>1
  <1>3. \A i \in DOMAIN r : r[i].days \in Nat
    BY <1>2 DEF Rings
  <1> QED
    BY <1>1, <1>3, FS_Interval DEF Days2

LEMMA OneMoreRing ==
  ASSUME NEW r \in Wreaths, NEW g \in Rings
  PROVE  /\ Append(r, g) \in Wreaths /\ Append(r, g) # <<>>
         /\ Len(Append(r, g)) = Len(r) + 1 /\ Append(r, g)[Len(r) + 1] = g
         /\ Wide(Append(r, g)) = g.days + Wide(r) /\ Wide(r) \in Int
  <1> DEFINE t == Append(r, g)
  <1> PICK n \in Nat : n = Len(r)
    BY DEF Wreaths
  <1>1. r \in Seq(Rings) /\ DOMAIN r = 1..n
    BY DEF Wreaths
  <1>2. /\ t \in Wreaths /\ DOMAIN t = DOMAIN r \cup {n + 1} /\ t[n + 1] = g /\ n + 1 \notin DOMAIN r
        /\ t # <<>> /\ Len(t) = n + 1
        /\ \A i \in DOMAIN r : t[i] = r[i]
    BY <1>1 DEF Wreaths
  <1> HIDE DEF t
  <1> DEFINE S == DOMAIN r
             f == Days2(r)
             h == Days2(t)
  <1>3. IsFiniteSet(S) /\ f \in [S -> Int]
    BY RingsAreFinite
  <1>4. h \in [S \cup {n + 1} -> Int]
    BY <1>2, RingsAreFinite
  <1>5. \A i \in S : h[i] = f[i]
    BY <1>2 DEF Days2
  <1>6. h[n + 1] = g.days
    BY <1>2 DEF Days2
  <1>7. n + 1 \notin S
    BY <1>2
  <1> HIDE DEF S, f, h
  <1>8. SumOf(h, S \cup {n + 1}) = h[n + 1] + SumOf(f, S) /\ SumOf(f, S) \in Int
    BY <1>3, <1>4, <1>5, <1>7, SumOfMore
  <1>9. Wide(t) = SumOf(h, S \cup {n + 1}) /\ Wide(r) = SumOf(f, S)
    BY <1>2 DEF Wide, S, f, h
  <1> QED
    BY <1>2, <1>6, <1>8, <1>9 DEF t

LEMMA NoRings ==
  ASSUME NEW r \in Wreaths, r = <<>>
  PROVE  Wide(r) = 0
  <1>1. DOMAIN r = {} /\ Days2(r) \in [{} -> Int]
    BY DEF Days2
  <1> QED
    BY <1>1, SumOfNone DEF Wide

(* The ring of an epoch.                                                     *)
LEMMA RingGrows ==
  ASSUME life \in Lives, RingsInv, ~life.legacy
  PROVE  LET g == [at |-> life.age + 1, days |-> Printed!RingDays(life.age + 1)]
         IN Grown2(Append(life.rings, g), life.age + 1)
  <1> PICK a \in Nat : a = life.age
    BY DEF Lives
  <1> DEFINE r == life.rings
             g == [at |-> a + 1, days |-> Printed!RingDays(a + 1)]
  <1>1. r \in Wreaths /\ (r # <<>> => r[Len(r)].at \in Nat)
    <2>1. r \in Wreaths
      BY DEF Lives
    <2>2. r # <<>> => r[Len(r)] \in Rings
      BY <2>1 DEF Wreaths
    <2> QED
      BY <2>1, <2>2 DEF Rings
  <1>2. /\ Printed!RingDays(a + 1) \in Nat
        /\ Printed!RingDays(a + 1) = IF r = <<>> THEN IF a + 1 > 0 THEN a + 1 ELSE 1
                                     ELSE IF a + 1 > r[Len(r)].at THEN (a + 1) - r[Len(r)].at ELSE 1
    <2>1. \A b \in Nat :
            /\ Printed!RingDays(b) \in Nat
            /\ Printed!RingDays(b) = IF r = <<>> THEN IF b > 0 THEN b ELSE 1
                                     ELSE IF b > r[Len(r)].at THEN b - r[Len(r)].at ELSE 1
      BY RingDaysIs
    <2> QED
      BY <2>1, a + 1 \in Nat
  <1>3. g \in Rings
    BY <1>2 DEF Rings
  <1>4. Grown2(r, a)
    BY DEF RingsInv
  <1> HIDE DEF r
  <1>5. Printed!RingDays(a + 1) + Wide(r) = a + 1
    <2>1. CASE r = <<>>
      BY <1>1, <1>2, <2>1, NoRings
    <2>2. CASE r # <<>>
      <3> PICK l \in Nat : l = r[Len(r)].at
        BY <1>1, <2>2
      <3>1. Wide(r) = l /\ l <= a
        BY <1>4, <2>2 DEF Grown2
      <3> QED
        BY <1>2, <2>2, <3>1
    <2> QED
      BY <2>1, <2>2
  <1>6. /\ Append(r, g) # <<>> /\ Len(Append(r, g)) = Len(r) + 1 /\ Append(r, g)[Len(r) + 1] = g
        /\ Wide(Append(r, g)) = g.days + Wide(r)
    BY <1>1, <1>3, OneMoreRing
  <1>7. Grown2(Append(r, g), a + 1)
    BY <1>5, <1>6 DEF Grown2
  <1> QED
    BY <1>7 DEF r

LEMMA GrownStill ==
  ASSUME NEW r \in Wreaths, NEW a \in Nat, NEW b \in Nat, a <= b, Grown2(r, a)
  PROVE  Grown2(r, b)
  <1>1. r # <<>> => r[Len(r)] \in Rings
    BY DEF Wreaths
  <1>2. r # <<>> => r[Len(r)].at \in Nat
    BY <1>1 DEF Rings
  <1> QED
    BY <1>2 DEF Grown2

(* What the book says of its rings.                                          *)
LEMMA RingsFollow ==
  ASSUME life \in Lives, RingsInv
  PROVE  Printed!RingsSumUp
  <1> DEFINE r == life.rings
             S == DOMAIN r
             f == Days2(r)
             F(k) == [s \in SUBSET S |-> IF s = {} THEN 0 ELSE r[Any(s)].days + k[s \ {Any(s)}]]
             c == CHOOSE k : k = F(k)
  <1>1. IsFiniteSet(S) /\ f \in [S -> Int] /\ \A i \in S : r[i].days = f[i]
    <2>1. r \in Wreaths
      BY DEF Lives
    <2> QED
      BY <2>1, RingsAreFinite DEF Days2
  <1>2. Printed!MapThenSumSet(LAMBDA i : life.rings[i].days, DOMAIN life.rings) = c[S]
    BY DEF Printed!MapThenSumSet, Printed!MapThenFoldSet, Any
  <1>3. PICK g \in [SUBSET S -> Int] : Sums(f, S, g) /\ SumOf(f, S) = g[S]
    <2> HIDE DEF S, f
    <2> QED
      BY <1>1, SumsAre
  <1>4. \A s \in SUBSET S : s # {} => r[Any(s)].days = f[Any(s)]
    <2>1. \A s \in SUBSET S : s # {} => Any(s) \in S
      BY AnyOf
    <2> HIDE DEF S, f
    <2> QED
      BY <1>1, <2>1
  <1>5. g = F(g)
    <2> HIDE DEF S, f, r
    <2> QED
      BY <1>3, <1>4 DEF Sums
  <1>6. c = F(c)
    <2> HIDE DEF F
    <2> QED
      BY <1>5
  <1> HIDE DEF c
  <1>7. Sums(f, S, c)
    <2> HIDE DEF S, f, r
    <2> QED
      BY <1>4, <1>6 DEF Sums
  <1>8. c[S] = g[S]
    <2> HIDE DEF S, f, F
    <2> QED
      BY <1>1, <1>3, <1>7, SumsAgree
  <1>9. Wide(r) = c[S]
    BY <1>3, <1>8 DEF Wide
  <1> HIDE DEF F
  <1> QED
    BY <1>2, <1>9 DEF Printed!RingsSumUp, RingsInv, Grown2

------------------------------------------------------------------------------
RecordInv == BookTypes /\ LedgerInv /\ RingsInv

LEMMA BookFacts ==
  ASSUME BookTypes
  PROVE  /\ life \in Lives /\ lines \in Seq(Rows) /\ torn \in BOOLEAN /\ page \in Nat /\ page \in Pages
         /\ life.p \in Ps /\ life.fast \in Ps /\ life.age \in Nat /\ life.settledTo \in Nat
         /\ life.settledTo \in Pages /\ life.rings \in Wreaths /\ life.legacy \in Truths
         /\ life.gen \in 1..MaxGens /\ life.words \in 0..MaxWords
  BY BookConstants DEF BookTypes, Lives, Pages

LEMMA SettleStep ==
  ASSUME RecordInv, NEW f \in Intensities, Printed!Settle(f)
  PROVE  RecordInv'
  <1>0. BookTypes /\ LedgerInv /\ RingsInv
    BY DEF RecordInv
  <1> DEFINE o == Printed!Outcomes(f)
             day == page - 1
             shift == Printed!EpochIndex(life.p) # Printed!EpochIndex(o.p)
             one == Printed!Written([lines |-> lines, torn |-> torn], Printed!Row("settle_day", o.p, day, f))
             two == Printed!Written(one, Printed!Row("epoch_shift", o.p, day, Printed!Quiet))
             p == o.p
             fast == o.fast
             age == life.age + 1
             ring == [at |-> life.age + 1, days |-> Printed!RingDays(life.age + 1)]
             rings == IF shift THEN Append(life.rings, ring) ELSE life.rings
  <1>1. /\ life.settledTo < page
        /\ life' = [life EXCEPT !.p = o.p, !.fast = o.fast, !.age = @ + 1, !.settledTo = page,
                                !.rings = IF shift THEN Append(@, ring) ELSE @]
        /\ Printed!Holds(IF shift THEN two ELSE one)
        /\ UNCHANGED <<page, shelf, press, slips>>
    BY DEF Printed!Settle, Printed!Ledger
  <1>2. o \in [p : Ps, fast : Ps] /\ o.p <= life.p /\ f.high \in Said /\ f.concern \in Said
    BY <1>0, OutcomeIs, BookFacts DEF Said
  <1>3. /\ life \in Lives /\ lines \in Seq(Rows) /\ torn \in BOOLEAN /\ page \in Nat /\ page \in Pages
        /\ life.p \in Ps /\ life.age \in Nat /\ life.settledTo \in Nat /\ life.rings \in Wreaths
    BY <1>0, BookFacts
  <1>4. p \in Ps /\ fast \in Ps /\ age \in Nat /\ p <= life.p
    BY <1>2, <1>3
  <1>5. rings \in Wreaths
    <2>1. Printed!RingDays(life.age + 1) \in Nat
      <3>1. \A b \in Nat : Printed!RingDays(b) \in Nat
        BY <1>3, RingDaysIs
      <3>2. life.age + 1 \in Nat
        BY <1>3
      <3> QED
        BY <3>1, <3>2
    <2>2. ring \in Rings
      BY <1>3, <2>1 DEF Rings
    <2> HIDE DEF ring
    <2>3. Append(life.rings, ring) \in Wreaths
      BY <1>3, <2>2 DEF Wreaths
    <2> QED
      BY <1>3, <2>3
  <1>6. life' = SettledAs(life, p, fast, age, page, rings)
    BY <1>1 DEF SettledAs
  <1>7. ~life.legacy => Grown2(rings, age)
    <2>1. ~life.legacy /\ shift => Grown2(rings, age)
      BY <1>0, <1>3, RingGrows
    <2>2. ~life.legacy /\ ~shift => Grown2(rings, age)
      <3>1. life.age <= life.age + 1 /\ life.age + 1 \in Nat
        BY <1>3
      <3> HIDE DEF shift
      <3> QED
        BY <1>0, <1>3, <3>1, GrownStill DEF RingsInv
    <2> QED
      BY <2>1, <2>2
  <1> HIDE DEF o, day, shift, p, fast, age, rings, one, two
  <1>8. /\ life' \in Lives /\ life'.gen = life.gen /\ life'.p = p /\ life'.age = age
        /\ life'.settledTo = page /\ life'.rings = rings /\ life'.legacy = life.legacy
    <2>1. life \in Lives /\ p \in Ps /\ fast \in Ps /\ age \in Nat /\ page \in Pages /\ rings \in Wreaths
      BY <1>3, <1>4, <1>5
    <2> QED
      BY <1>6, <2>1, LifeSettled
  <1>9. day \in Int
    BY <1>3 DEF day
  <1>10. Behind(lines, life')
    BY <1>0, <1>3, <1>4, <1>8, BehindStill DEF LedgerInv
  <1>11. Readable(one, life')
    <2> DEFINE row == Printed!Row("settle_day", o.p, day, f)
    <2>1. row \in Rows /\ row.gen = life'.gen /\ life'.p <= row.p
      <3>1. row \in Rows /\ row = [reason |-> "settle_day", gen |-> life.gen, p |-> o.p, day |-> day,
                                   high |-> f.high, concern |-> f.concern]
        BY <1>2, <1>3, <1>9, RowIs DEF Reasons
      <3>2. o.p <= o.p
        BY <1>2 DEF Ps
      <3> QED
        BY <1>8, <3>1, <3>2 DEF p
    <2> HIDE DEF row
    <2>2. one = WrittenTo(lines, torn, row)
      BY DEF one, row, WrittenTo
    <2> QED
      <3>1. lines \in Seq(Rows)
        BY <1>3
      <3> QED
        BY <1>10, <2>1, <2>2, <3>1, WrittenIs
  <1>12. Readable(two, life')
    <2> DEFINE row == Printed!Row("epoch_shift", o.p, day, Printed!Quiet)
    <2>1. row \in Rows /\ row.gen = life'.gen /\ life'.p <= row.p
      <3>1. row \in Rows /\ row = [reason |-> "epoch_shift", gen |-> life.gen, p |-> o.p, day |-> day,
                                   high |-> 0, concern |-> 0]
        <4> DEFINE q == Printed!Quiet
        <4>1. q.high = 0 /\ q.concern = 0
          BY DEF Printed!Quiet
        <4>2. q.high \in Said /\ q.concern \in Said
          BY <4>1 DEF Said
        <4> HIDE DEF q
        <4>3. o.p \in Ps /\ "epoch_shift" \in Reasons
          BY <1>2 DEF Reasons
        <4>4. row = Printed!Row("epoch_shift", o.p, day, q)
          BY DEF q, row
        <4> HIDE DEF row
        <4>5. /\ Printed!Row("epoch_shift", o.p, day, q) \in Rows
              /\ Printed!Row("epoch_shift", o.p, day, q)
                   = [reason |-> "epoch_shift", gen |-> life.gen, p |-> o.p, day |-> day, high |-> q.high,
                      concern |-> q.concern]
          BY <1>3, <1>9, <4>2, <4>3, RowIs
        <4> QED
          BY <4>1, <4>4, <4>5
      <3>2. o.p <= o.p
        BY <1>2 DEF Ps
      <3> QED
        BY <1>8, <3>1, <3>2 DEF p
    <2> HIDE DEF row
    <2>2. two = WrittenTo(one.lines, FALSE, row)
      BY <1>11 DEF two, row, WrittenTo, Readable
    <2>3. one.lines \in Seq(Rows) /\ Behind(one.lines, life')
      BY <1>11 DEF Readable
    <2> QED
      BY <2>1, <2>2, <2>3, WrittenIs
  <1>13. lines' \in Seq(Rows) /\ torn' \in BOOLEAN /\ Behind(lines', life')
    BY <1>1, <1>11, <1>12 DEF Printed!Holds, Readable
  <1>14. life'.age <= life'.settledTo /\ life'.settledTo <= page'
    BY <1>0, <1>1, <1>3, <1>8 DEF LedgerInv, age
  <1> QED
    BY <1>0, <1>1, <1>7, <1>8, <1>13, <1>14 DEF RecordInv, BookTypes, LedgerInv, RingsInv

LEMMA SlipStep ==
  ASSUME RecordInv, NEW f \in Intensities, Printed!SettleSlips(f)
  PROVE  RecordInv'
  <1>0. BookTypes /\ LedgerInv /\ RingsInv
    BY DEF RecordInv
  <1> DEFINE o == Printed!Outcomes(f)
             p == o.p
             fast == o.fast
             age == life.age + 1
  <1>1. /\ life.settledTo < page
        /\ life' = [life EXCEPT !.p = o.p, !.fast = o.fast, !.age = @ + 1, !.settledTo = page]
        /\ \E l \in Printed!Slipped([lines |-> lines, torn |-> torn]) : Printed!Holds(l)
        /\ slips' = slips + 1 /\ UNCHANGED <<page, shelf, press>>
    BY DEF Printed!SettleSlips, Printed!Ledger
  <1>2. o \in [p : Ps, fast : Ps] /\ o.p <= life.p
    BY <1>0, OutcomeIs, BookFacts
  <1>3. /\ life \in Lives /\ lines \in Seq(Rows) /\ torn \in BOOLEAN /\ page \in Nat /\ page \in Pages
        /\ life.p \in Ps /\ life.age \in Nat /\ life.settledTo \in Nat /\ life.rings \in Wreaths
    BY <1>0, BookFacts
  <1>4. p \in Ps /\ fast \in Ps /\ age \in Nat /\ p <= life.p /\ life.age <= age
    BY <1>2, <1>3
  <1>5. life' = SlippedAs(life, p, fast, age, page)
    BY <1>1 DEF SlippedAs
  <1> HIDE DEF o, p, fast, age
  <1>6. /\ life' \in Lives /\ life'.gen = life.gen /\ life'.p = p /\ life'.age = age
        /\ life'.settledTo = page /\ life'.rings = life.rings /\ life'.legacy = life.legacy
    <2>1. life \in Lives /\ p \in Ps /\ fast \in Ps /\ age \in Nat /\ page \in Pages
      BY <1>3, <1>4
    <2> QED
      BY <1>5, <2>1, LifeSlipped
  <1>7. Behind(lines, life')
    BY <1>0, <1>3, <1>4, <1>6, BehindStill DEF LedgerInv
  <1>8. lines' = lines /\ torn' \in BOOLEAN
    BY <1>1, <1>3, SlippedIs DEF Printed!Holds
  <1>9. life'.age <= life'.settledTo /\ life'.settledTo <= page'
    BY <1>0, <1>1, <1>3, <1>6 DEF LedgerInv, age
  <1>10. ~life.legacy => Grown2(life.rings, age)
    BY <1>0, <1>3, <1>4, GrownStill DEF RingsInv
  <1>11. slips' \in Nat
    BY <1>0, <1>1 DEF BookTypes
  <1> QED
    BY <1>0, <1>1, <1>6, <1>7, <1>8, <1>9, <1>10, <1>11 DEF RecordInv, BookTypes, LedgerInv, RingsInv

LEMMA DiesStep ==
  ASSUME RecordInv, NEW f \in Intensities, Printed!SettleDies(f)
  PROVE  RecordInv'
  <1>0. BookTypes /\ LedgerInv /\ RingsInv
    BY DEF RecordInv
  <1> DEFINE o == Printed!Outcomes(f)
             row == Printed!Row("settle_day", o.p, page - 1, f)
             w == Printed!Written([lines |-> lines, torn |-> torn], row)
             p == IF torn THEN life.p ELSE o.p
  <1>1. /\ Printed!Holds(w)
        /\ life' = [life EXCEPT !.p = IF torn THEN @ ELSE o.p]
        /\ slips' = slips + 1 /\ UNCHANGED <<page, shelf, press>>
    BY DEF Printed!SettleDies, Printed!Ledger
  <1>2. o \in [p : Ps, fast : Ps] /\ o.p <= life.p /\ f.high \in Said /\ f.concern \in Said
    BY <1>0, OutcomeIs, BookFacts DEF Said
  <1>3. /\ life \in Lives /\ lines \in Seq(Rows) /\ torn \in BOOLEAN /\ page \in Nat /\ page \in Pages
        /\ life.p \in Ps /\ life.age \in Nat /\ life.settledTo \in Nat /\ life.rings \in Wreaths
    BY <1>0, BookFacts
  <1>4. p \in Ps /\ p <= life.p /\ (~torn => p = o.p)
    BY <1>2, <1>3 DEF Ps
  <1>5. life' = PaidAs(life, p)
    BY <1>1 DEF PaidAs
  <1>6. row \in Rows /\ row.gen = life.gen /\ row.p = o.p
    <2>1. page - 1 \in Int
      BY <1>3
    <2>2. \A q \in Ps, d \in Int : LET r == Printed!Row("settle_day", q, d, f)
                                  IN r \in Rows /\ r.gen = life.gen /\ r.p = q
      <3> HIDE DEF o, row, w, p
      <3> QED
        <4>1. life \in Lives /\ f.high \in Said /\ f.concern \in Said /\ "settle_day" \in Reasons
          BY <1>2, <1>3 DEF Reasons
        <4> QED
          BY <4>1, RowIs
    <2>3. o.p \in Ps
      BY <1>2
    <2> QED
      BY <2>1, <2>2, <2>3
  <1> HIDE DEF o, p, row, w
  <1>7. /\ life' \in Lives /\ life'.gen = life.gen /\ life'.p = p /\ life'.age = life.age
        /\ life'.settledTo = life.settledTo /\ life'.rings = life.rings /\ life'.legacy = life.legacy
    <2>1. life \in Lives /\ p \in Ps /\ page \in Pages /\ life.words \in 0..MaxWords
      BY <1>3, <1>4 DEF Lives
    <2> QED
      BY <1>5, <2>1, LifeOne
  <1>8. Behind(lines, life')
    BY <1>0, <1>3, <1>4, <1>7, BehindStill DEF LedgerInv
  <1>9. lines' = w.lines /\ torn' = w.torn
    BY <1>1 DEF Printed!Holds
  <1>10. lines' \in Seq(Rows) /\ torn' \in BOOLEAN /\ Behind(lines', life')
    <2>1. CASE torn
      <3>1. w = [lines |-> lines, torn |-> FALSE]
        BY <2>1 DEF w, Printed!Written
      <3> QED
        BY <1>3, <1>8, <1>9, <3>1
    <2>2. CASE ~torn
      <3>1. life'.p <= row.p
        BY <1>2, <1>4, <1>6, <1>7, <2>2 DEF Ps
      <3>2. Readable(w, life')
        <4>1. lines \in Seq(Rows) /\ row \in Rows /\ row.gen = life'.gen
          BY <1>3, <1>6, <1>7
        <4>2. w = WrittenTo(lines, torn, row)
          BY DEF w, WrittenTo
        <4> QED
          BY <1>8, <3>1, <4>1, <4>2, WrittenIs
      <3> QED
        BY <1>9, <3>2 DEF Readable
    <2> QED
      BY <2>1, <2>2
  <1>11. slips' \in Nat
    BY <1>0, <1>1 DEF BookTypes
  <1> QED
    BY <1>0, <1>1, <1>7, <1>10, <1>11 DEF RecordInv, BookTypes, LedgerInv, RingsInv

------------------------------------------------------------------------------
LEMMA CoreLeaves ==
  ASSUME NEW p \in Ps, NEW high \in Nat
  PROVE  Printed!Floor(p - Printed!CoreSpend(high)) \in Ps
         /\ Printed!Floor(p - Printed!CoreSpend(high)) <= p
  <1> PICK k \in Nat : k = Printed!CoreSpend(high)
    <2>1. Age!CoreSpend(high) \in Nat
      BY CoreSpends
    <2> QED
      BY <2>1, SameWays
  <1> PICK n \in Nat : n = Age!Full
    BY AgeConstants
  <1>1. p \in 0..n
    BY DEF Ps
  <1>2. Printed!Floor(p - k) \in 0..n /\ Printed!Floor(p - k) <= p
    BY <1>1 DEF Printed!Floor
  <1> QED
    BY <1>2 DEF Ps

LEMMA LegacyStep ==
  ASSUME RecordInv, NEW f \in Intensities, Printed!SettleLegacy(f)
  PROVE  RecordInv'
  <1>0. BookTypes /\ LedgerInv /\ RingsInv
    BY DEF RecordInv
  <1> DEFINE p == Printed!Floor(life.p - Printed!CoreSpend(f.high))
             ring == [at |-> 0, days |-> 1]
             rings == IF Printed!EpochIndex(p) = Printed!EpochIndex(life.p) THEN life.rings
                      ELSE Append(life.rings, ring)
             row == Printed!Row("settle_day", p, page, Printed!Unsaid)
             w == Printed!Written([lines |-> lines, torn |-> torn], row)
             yes == TRUE
  <1>1. /\ life' = [life EXCEPT !.p = p, !.settledTo = page, !.legacy = TRUE,
                                !.rings = IF Printed!EpochIndex(p) = Printed!EpochIndex(life.p) THEN @
                                          ELSE Append(@, [at |-> 0, days |-> 1])]
        /\ Printed!Holds(IF p < life.p THEN w ELSE [lines |-> lines, torn |-> torn])
        /\ life.settledTo < page
        /\ slips' = slips + 1 /\ UNCHANGED <<page, shelf, press>>
    BY DEF Printed!SettleLegacy, Printed!Ledger
  <1>2. f.high \in Nat
    BY BookConstants
  <1>3. /\ life \in Lives /\ lines \in Seq(Rows) /\ torn \in BOOLEAN /\ page \in Nat /\ page \in Pages
        /\ life.p \in Ps /\ life.age \in Nat /\ life.settledTo \in Nat /\ life.rings \in Wreaths
    BY <1>0, BookFacts
  <1>4. p \in Ps /\ p <= life.p
    BY <1>2, <1>3, CoreLeaves
  <1> HIDE DEF p
  <1>5. rings \in Wreaths
    <2>1. ring \in Rings
      BY DEF Rings
    <2> HIDE DEF ring
    <2>2. Append(life.rings, ring) \in Wreaths
      BY <1>3, <2>1 DEF Wreaths
    <2> QED
      BY <1>3, <2>2
  <1>6. life' = LegacyAs(life, p, page, yes, rings)
    BY <1>1 DEF LegacyAs
  <1>7. yes \in Truths
    BY DEF Truths
  <1>8. row \in Rows /\ row.gen = life.gen /\ row.p = p
    <2> DEFINE u == Printed!Unsaid
    <2>1. u.high \in Said /\ u.concern \in Said /\ "settle_day" \in Reasons /\ page \in Int
      BY <1>3 DEF Printed!Unsaid, Said, Reasons, Printed!None
    <2>2. row = Printed!Row("settle_day", p, page, u)
      OBVIOUS
    <2>3. life \in Lives
      BY <1>3
    <2> HIDE DEF u, row
    <2>4. /\ Printed!Row("settle_day", p, page, u) \in Rows
          /\ Printed!Row("settle_day", p, page, u) =
               [reason |-> "settle_day", gen |-> life.gen, p |-> p, day |-> page, high |-> u.high,
                concern |-> u.concern]
      BY <1>4, <2>1, <2>3, RowIs
    <2> QED
      BY <2>2, <2>4
  <1>9. /\ life' \in Lives /\ life'.gen = life.gen /\ life'.p = p /\ life'.age = life.age
        /\ life'.settledTo = page /\ life'.rings = rings /\ life'.legacy = yes
    <2>1. life \in Lives /\ p \in Ps /\ page \in Pages /\ rings \in Wreaths
      BY <1>3, <1>4, <1>5
    <2> HIDE DEF rings, yes
    <2> QED
      BY <1>6, <1>7, <2>1, LifeLegacy
  <1> HIDE DEF row, w, rings
  <1>10. Behind(lines, life')
    BY <1>0, <1>3, <1>4, <1>9, BehindStill DEF LedgerInv
  <1>11. Readable(w, life')
    <2>1. lines \in Seq(Rows) /\ row \in Rows /\ row.gen = life'.gen
      BY <1>3, <1>8, <1>9
    <2>2. w = WrittenTo(lines, torn, row)
      BY DEF w, WrittenTo
    <2>3. life'.p <= row.p
      BY <1>4, <1>8, <1>9 DEF Ps
    <2> QED
      BY <1>10, <2>1, <2>2, <2>3, WrittenIs
  <1>12. lines' \in Seq(Rows) /\ torn' \in BOOLEAN /\ Behind(lines', life')
    <2>1. CASE p < life.p
      <3>1. lines' = w.lines /\ torn' = w.torn
        BY <1>1, <2>1 DEF Printed!Holds
      <3> QED
        BY <1>11, <3>1 DEF Readable
    <2>2. CASE ~(p < life.p)
      <3>1. lines' = lines /\ torn' = torn
        BY <1>1, <2>2 DEF Printed!Holds
      <3> QED
        BY <1>3, <1>10, <3>1
    <2> QED
      BY <2>1, <2>2
  <1>13. life'.age <= life'.settledTo /\ life'.settledTo <= page' /\ slips' \in Nat
    BY <1>0, <1>1, <1>3, <1>9 DEF LedgerInv, BookTypes
  <1> QED
    BY <1>0, <1>1, <1>9, <1>12, <1>13 DEF RecordInv, BookTypes, LedgerInv, RingsInv

LEMMA BookDayStep ==
  ASSUME RecordInv, Printed!Dawn \/ Printed!Speak
  PROVE  RecordInv'
  <1>0. BookTypes /\ LedgerInv /\ RingsInv
    BY DEF RecordInv
  <1>1. life \in Lives /\ lines \in Seq(Rows) /\ page \in Nat /\ page \in 0..LastPage /\ LastPage \in Nat
    BY <1>0, BookFacts, BookConstants DEF Pages
  <1>2. life.age \in Nat /\ life.settledTo \in Nat /\ life.p \in Ps /\ life.words \in 0..MaxWords /\ life.settledTo \in Pages
    BY <1>0, BookFacts
  <1> DEFINE to == page + 1
             words == life.words + 1
  <1>3. CASE Printed!Dawn
    <2>1. /\ page < LastPage /\ page' = to
          /\ (life' = life \/ life' = IdleAs(life, to))
          /\ UNCHANGED <<lines, torn, shelf, press, slips>>
      BY <1>3 DEF Printed!Dawn, IdleAs
    <2>2. to \in Pages /\ page < to /\ to \in Nat
      BY <1>1, <2>1 DEF Pages
    <2> HIDE DEF to
    <2>3. \/ life' = life
          \/ /\ life' \in Lives /\ life'.gen = life.gen /\ life'.p = life.p /\ life'.age = life.age
             /\ life'.settledTo = to /\ life'.rings = life.rings /\ life'.legacy = life.legacy
      <3>1. LET k == IdleAs(life, to)
            IN /\ k \in Lives /\ k.gen = life.gen /\ k.p = life.p /\ k.age = life.age /\ k.settledTo = to
               /\ k.rings = life.rings /\ k.legacy = life.legacy
        BY <1>1, <1>2, <2>2, LifeOne
      <3> QED
        BY <2>1, <3>1
    <2>4. life' \in Lives /\ life'.age <= life'.settledTo /\ life'.settledTo <= page'
      BY <1>0, <1>1, <1>2, <2>1, <2>2, <2>3 DEF LedgerInv
    <2>5. Behind(lines, life')
      BY <1>0, <2>3 DEF LedgerInv, Behind
    <2>6. RingsInv'
      BY <1>0, <2>3 DEF RingsInv
    <2> QED
      BY <1>0, <2>1, <2>2, <2>4, <2>5, <2>6 DEF RecordInv, BookTypes, LedgerInv
  <1>4. CASE Printed!Speak
    <2>1. /\ life.words < MaxWords /\ life' = SpokenAs(life, words)
          /\ UNCHANGED <<lines, torn, page, shelf, press, slips>>
      BY <1>4 DEF Printed!Speak, SpokenAs
    <2>2. words \in 0..MaxWords
      BY <1>2, <2>1, BookConstants
    <2> HIDE DEF words
    <2>3. /\ life' \in Lives /\ life'.gen = life.gen /\ life'.p = life.p /\ life'.age = life.age
          /\ life'.settledTo = life.settledTo /\ life'.rings = life.rings /\ life'.legacy = life.legacy
      BY <1>1, <1>2, <2>1, <2>2, LifeOne
    <2>4. Behind(lines, life')
      BY <1>0, <2>3 DEF LedgerInv, Behind
    <2>5. RingsInv'
      BY <1>0, <2>3 DEF RingsInv
    <2> QED
      BY <1>0, <2>1, <2>3, <2>4, <2>5 DEF RecordInv, BookTypes, LedgerInv
  <1> QED
    BY <1>3, <1>4

LEMMA HatchedIs ==
  ASSUME NEW gen \in 1..MaxGens, NEW m \in BookModels, page \in Pages
  PROVE  LET l == Printed!Hatched(gen, m)
         IN /\ l \in Lives /\ l.gen = gen /\ l.age = 0 /\ l.settledTo = page /\ l.rings = <<>>
            /\ l.legacy = FALSE /\ l.p = Age!Full
  <1>1. <<>> \in Wreaths /\ FALSE \in Truths /\ 0 \in 0..MaxWords
    BY BookConstants DEF Wreaths, Truths
  <1> QED
    BY <1>1, BookConstants DEF Printed!Hatched, Lives

LEMMA RebornStep ==
  ASSUME RecordInv, Printed!Reborn
  PROVE  RecordInv'
  <1>0. BookTypes /\ LedgerInv /\ RingsInv
    BY DEF RecordInv
  <1> DEFINE gen == life.gen + 1
             row == [Printed!Row("hatch", Printed!Full, page, Printed!Quiet) EXCEPT !.gen = gen]
             w == Printed!Written([lines |-> lines, torn |-> torn], row)
  <1>1. PICK m \in Models : life' = Printed!Hatched(gen, m)
    BY DEF Printed!Reborn
  <1>2. /\ life.gen < MaxGens /\ Printed!Holds(w)
        /\ UNCHANGED <<page, shelf, press, slips>>
    BY DEF Printed!Reborn, Printed!Ledger
  <1>3. life \in Lives /\ lines \in Seq(Rows) /\ page \in Nat /\ page \in Pages /\ life.gen \in 1..MaxGens
    BY <1>0, BookFacts
  <1>4. gen \in 1..MaxGens /\ life.gen < gen /\ m \in BookModels
    BY <1>2, <1>3, BookConstants
  <1>5. row \in Rows /\ row.gen = gen /\ row.p = Age!Full
    <2> DEFINE full == Printed!Full
               r == Printed!Row("hatch", full, page, Printed!Quiet)
    <2>1. full \in Ps /\ full = Age!Full /\ page \in Int
      BY <1>3, BookConstants
    <2>2. r = [reason |-> "hatch", gen |-> life.gen, p |-> full, day |-> page, high |-> 0, concern |-> 0]
      BY DEF Printed!Row, Printed!Quiet
    <2> HIDE DEF full, r, gen
    <2>3. row = [reason |-> "hatch", gen |-> gen, p |-> full, day |-> page, high |-> 0, concern |-> 0]
      <3>1. row = [r EXCEPT !.gen = gen]
        BY DEF r, full
      <3> HIDE DEF row
      <3> QED
        BY <2>2, <3>1
    <2>4. "hatch" \in Reasons /\ 0 \in Said
      BY DEF Reasons, Said
    <2> HIDE DEF row
    <2>5. [reason |-> "hatch", gen |-> gen, p |-> full, day |-> page, high |-> 0, concern |-> 0] \in Rows
      BY <1>4, <2>1, <2>4 DEF Rows
    <2> QED
      BY <2>1, <2>3, <2>5
  <1> HIDE DEF row, w, gen
  <1>6. /\ life' \in Lives /\ life'.gen = gen /\ life'.age = 0 /\ life'.settledTo = page
        /\ life'.rings = <<>> /\ life'.legacy = FALSE /\ life'.p = Age!Full
    BY <1>1, <1>3, <1>4, HatchedIs
  <1>7. Behind(lines, life')
    <2> SUFFICES ASSUME NEW i \in DOMAIN lines
                 PROVE  lines[i].gen <= gen /\ lines[i].gen # gen
      BY <1>6 DEF Behind
    <2>1. lines[i] \in Rows
      BY <1>3
    <2>2. lines[i].gen \in Nat /\ lines[i].gen <= life.gen
      BY <1>0, <2>1 DEF LedgerInv, Behind, Rows
    <2> QED
      BY <1>3, <1>4, <2>2
  <1>8. Readable(w, life')
    <2>1. w = WrittenTo(lines, torn, row)
      BY DEF w, WrittenTo
    <2>2. row.gen = life'.gen /\ life'.p <= row.p /\ lines \in Seq(Rows)
      BY <1>3, <1>5, <1>6, AgeConstants
    <2> QED
      BY <1>5, <1>7, <2>1, <2>2, WrittenIs
  <1>9. lines' \in Seq(Rows) /\ torn' \in BOOLEAN /\ Behind(lines', life')
    BY <1>2, <1>8 DEF Readable, Printed!Holds
  <1>10. RingsInv'
    BY <1>6 DEF RingsInv, Grown2
  <1>11. life'.age <= life'.settledTo /\ life'.settledTo <= page'
    BY <1>2, <1>3, <1>6
  <1> QED
    BY <1>0, <1>2, <1>6, <1>9, <1>10, <1>11 DEF RecordInv, BookTypes, LedgerInv

------------------------------------------------------------------------------
Fs(i) == Printed!Files[i]
Yet   == 4 - Len(press.left)        \* files of this edition that are written

PressInv ==
  /\ Len(press.left) \in 0..4
  /\ \A i \in 1..Len(press.left) : press.left[i] = Fs(Yet + i)
  /\ \A i, j \in 1..4 : i < j => shelf[Fs(i)].no >= shelf[Fs(j)].no
  /\ \A i \in 1..4 : shelf[Fs(i)].no <= press.edition.no
  /\ press.left # <<>> \/ slips = 0 => \A i \in 1..Yet : shelf[Fs(i)] = press.edition
  /\ slips = 0 => \A i, j \in (Yet + 1)..4 : shelf[Fs(i)] = shelf[Fs(j)]

Made(e) == e.picks = Printed!Picks(e.total)

(* Of two editions the later is of a later life, or knows more words of it.  *)
Since(e, l) == e.gen <= l.gen /\ (e.gen = l.gen => e.total <= l.total)
Now        == [gen |-> life.gen, total |-> life.words]

EditionInv ==
  /\ Made(shelf["long"]) /\ Made(press.edition)
  /\ Since(shelf["long"], press.edition) /\ Since(press.edition, Now)

BookInv == RecordInv /\ PressInv /\ EditionInv

LEMMA FilesAre ==
  /\ Fs(1) = "long" /\ Fs(2) = "short" /\ Fs(3) = "appendix" /\ Fs(4) = "pictures"
  /\ \A i \in 1..4 : Fs(i) \in Sheets
  /\ \A i, j \in 1..4 : i # j => Fs(i) # Fs(j)
  /\ Sheets = {Fs(i) : i \in 1..4}
  /\ Printed!Range(Printed!Files) = Sheets
  /\ Printed!Files \in Seq(Sheets) /\ Len(Printed!Files) = 4 /\ DOMAIN Printed!Files = 1..4
  <1>1. /\ Fs(1) = "long" /\ Fs(2) = "short" /\ Fs(3) = "appendix" /\ Fs(4) = "pictures"
        /\ Printed!Files \in Seq(Sheets) /\ Len(Printed!Files) = 4 /\ DOMAIN Printed!Files = 1..4
    BY DEF Fs, Printed!Files, Sheets
  <1>2. \A i \in 1..4 : i = 1 \/ i = 2 \/ i = 3 \/ i = 4
    OBVIOUS
  <1>3. 1 \in 1..4 /\ 2 \in 1..4 /\ 3 \in 1..4 /\ 4 \in 1..4
    OBVIOUS
  <1>4. \A i \in 1..4 : Fs(i) \in Sheets
    BY <1>1, <1>2 DEF Sheets
  <1>5. \A i, j \in 1..4 : i # j => Fs(i) # Fs(j)
    BY <1>1, <1>2
  <1>6. Sheets = {Fs(i) : i \in 1..4}
    BY <1>1, <1>2, <1>3 DEF Sheets
  <1>7. Printed!Range(Printed!Files) = {Fs(i) : i \in 1..4}
    BY <1>1 DEF Printed!Range, Fs
  <1> QED
    BY <1>1, <1>4, <1>5, <1>6, <1>7

(* The press, as long as it stands still.                                    *)
LEMMA PressStands ==
  ASSUME PressInv, UNCHANGED <<shelf, press>>, slips \in Nat, slips' \in Nat, slips <= slips'
  PROVE  PressInv'
  <1>1. slips' = 0 => slips = 0
    OBVIOUS
  <1>2. Yet' = Yet
    BY DEF Yet
  <1> QED
    BY <1>1, <1>2 DEF PressInv

LEMMA AssembleStep ==
  ASSUME BookTypes, PressInv, Printed!Assemble
  PROVE  PressInv' /\ press' \in [left : Seq(Sheets), edition : Editions]
  <1> DEFINE e == [no |-> press.edition.no + 1, gen |-> life.gen, total |-> life.words,
                   picks |-> Printed!Picks(life.words)]
  <1>1. /\ press.left = <<>> /\ press' = [left |-> Printed!Files, edition |-> e]
        /\ UNCHANGED <<life, lines, torn, page, shelf, slips>>
    BY DEF Printed!Assemble, Printed!Idle
  <1>2. e \in Editions /\ e.no = press.edition.no + 1 /\ press.edition.no \in Nat
    <2>1. Printed!Picks(life.words) \in SUBSET Nat
      BY BookFacts DEF Printed!Picks
    <2>2. press.edition.no \in Nat
      BY DEF BookTypes, Editions
    <2>3. life.gen \in 0..MaxGens /\ life.words \in 0..MaxWords
      BY BookFacts, BookConstants
    <2> QED
      BY <2>1, <2>2, <2>3 DEF Editions
  <1> HIDE DEF e
  <1>3. press'.left = Printed!Files /\ press'.edition = e
    BY <1>1
  <1>4. /\ Len(press'.left) = 4 /\ Yet' = 0 /\ Yet = 4 /\ press'.left \in Seq(Sheets)
    BY <1>1, <1>3, FilesAre DEF Yet
  <1>5. \A i \in 1..4 : press'.left[i] = Fs(0 + i)
    BY <1>3 DEF Fs
  <1>6. \A i \in 1..4 : shelf[Fs(i)] \in Editions
    BY FilesAre DEF BookTypes
  <1>7. \A i \in 1..4 : shelf[Fs(i)].no <= e.no
    <2> TAKE i \in 1..4
    <2>1. shelf[Fs(i)].no <= press.edition.no /\ shelf[Fs(i)].no \in Nat
      BY <1>6 DEF PressInv, Editions
    <2> QED
      BY <1>2, <2>1
  <1>8. slips = 0 => \A i, j \in 1..4 : shelf[Fs(i)] = shelf[Fs(j)]
    BY <1>4 DEF PressInv
  <1> DEFINE z == 0
  <1>9. z = 0 /\ Yet' = z
    BY <1>4
  <1> HIDE DEF z
  <1>10. /\ \A i \in 1..z : shelf[Fs(i)] = e
         /\ slips = 0 => \A i, j \in (z + 1)..4 : shelf[Fs(i)] = shelf[Fs(j)]
         /\ \A i \in 1..4 : press'.left[i] = Fs(z + i)
    BY <1>5, <1>8, <1>9
  <1>11. \A i, j \in 1..4 : i < j => shelf[Fs(i)].no >= shelf[Fs(j)].no
    BY DEF PressInv
  <1>12. press' \in [left : Seq(Sheets), edition : Editions]
    BY <1>1, <1>2, FilesAre
  <1>13. PressInv'
    <2>1. /\ Len(press'.left) = 4 /\ press'.edition = e /\ shelf' = shelf /\ slips' = slips
          /\ 4 \in 0..4 /\ Yet' = z
      BY <1>1, <1>3, <1>4, <1>9
    <2> QED
      BY <1>7, <1>10, <1>11, <2>1 DEF PressInv
  <1> QED
    BY <1>12, <1>13

LEMMA ImprintStep ==
  ASSUME BookTypes, PressInv, Printed!Imprint
  PROVE  PressInv' /\ press' \in [left : Seq(Sheets), edition : Editions]
         /\ press'.edition = press.edition /\ shelf' \in [Sheets -> Editions]
         /\ (shelf'["long"] = shelf["long"] \/ shelf'["long"] = press.edition)
  <1> DEFINE l == press.left
             e == press.edition
             n == Len(l)
             y == Yet
             k == y + 1
  <1>1. /\ l # <<>> /\ shelf' = [shelf EXCEPT ![Head(l)] = e]
        /\ press' = [press EXCEPT !.left = Tail(l)]
        /\ UNCHANGED <<life, lines, torn, page, slips>>
    BY DEF Printed!Imprint, Printed!Idle
  <1>2. /\ l \in Seq(Sheets) /\ e \in Editions /\ shelf \in [Sheets -> Editions] /\ slips \in Nat
        /\ press = [left |-> l, edition |-> e]
    BY DEF BookTypes
  <1>3. n \in 1..4 /\ y = 4 - n
    <2>1. n \in 0..4 /\ y = 4 - n
      BY DEF PressInv, Yet
    <2>2. n # 0
      BY <1>1, <1>2
    <2> HIDE DEF n, y
    <2> QED
      BY <2>1, <2>2
  <1>4. /\ \A i \in 1..n : l[i] = Fs(y + i)
        /\ \A i, j \in 1..4 : i < j => shelf[Fs(i)].no >= shelf[Fs(j)].no
        /\ \A i \in 1..4 : shelf[Fs(i)].no <= e.no
        /\ \A i \in 1..y : shelf[Fs(i)] = e
        /\ slips = 0 => \A i, j \in (y + 1)..4 : shelf[Fs(i)] = shelf[Fs(j)]
    BY <1>1 DEF PressInv
  <1>5. press' = [left |-> Tail(l), edition |-> e]
    BY <1>1, <1>2
  <1>6. Tail(l) \in Seq(Sheets) /\ Len(Tail(l)) = n - 1 /\ \A i \in 1..(n - 1) : Tail(l)[i] = l[i + 1]
        /\ Head(l) = l[1]
    BY <1>1, <1>2
  <1>7. press'.left = Tail(l) /\ press'.edition = e /\ press' \in [left : Seq(Sheets), edition : Editions]
    BY <1>2, <1>5, <1>6
  <1> HIDE DEF l, e, n
  <1>8. Yet' = k
    BY <1>3, <1>6, <1>7 DEF Yet
  <1> HIDE DEF y
  <1>9. y \in 0..3 /\ n = 4 - y /\ k \in 1..4
    BY <1>3
  <1>10. Head(l) = Fs(k)
    BY <1>3, <1>4, <1>6
  <1>11. \A i \in 1..4 : shelf'[Fs(i)] = IF i = k THEN e ELSE shelf[Fs(i)]
    <2> TAKE i \in 1..4
    <2>1. Fs(i) \in Sheets /\ Fs(k) \in Sheets /\ (i # k => Fs(i) # Fs(k))
      BY <1>9, FilesAre
    <2> QED
      BY <1>1, <1>2, <1>10, <2>1
  <1>12. shelf' \in [Sheets -> Editions]
    BY <1>1, <1>2
  <1>13. shelf'["long"] = shelf["long"] \/ shelf'["long"] = e
    BY <1>11, FilesAre
  <1>14. \A i \in 1..4 : shelf[Fs(i)] \in Editions
    BY <1>2, FilesAre
  <1>15. e.no \in Nat /\ \A i \in 1..4 : shelf[Fs(i)].no \in Nat
    BY <1>2, <1>14 DEF Editions
  <1>16. \A i \in 1..(n - 1) : Tail(l)[i] = Fs(k + i)
    <2> TAKE i \in 1..(n - 1)
    <2>1. i + 1 \in 1..n /\ y + (i + 1) = k + i
      BY <1>9
    <2> QED
      BY <1>4, <1>6, <2>1
  <1>17. \A i \in 1..4 : shelf'[Fs(i)].no <= e.no
    BY <1>4, <1>11, <1>15
  <1>18. \A i \in 1..k : shelf'[Fs(i)] = e
    BY <1>4, <1>9, <1>11
  <1>19. slips = 0 => \A i, j \in (k + 1)..4 : shelf'[Fs(i)] = shelf'[Fs(j)]
    <2> SUFFICES ASSUME slips = 0, NEW i \in (k + 1)..4, NEW j \in (k + 1)..4
                 PROVE  shelf'[Fs(i)] = shelf'[Fs(j)]
      OBVIOUS
    <2>1. i \in 1..4 /\ j \in 1..4 /\ i # k /\ j # k /\ i \in (y + 1)..4 /\ j \in (y + 1)..4
      BY <1>9
    <2> QED
      BY <1>4, <1>11, <2>1
  <1>20. \A i, j \in 1..4 : i < j => shelf'[Fs(i)].no >= shelf'[Fs(j)].no
    <2> SUFFICES ASSUME NEW i \in 1..4, NEW j \in 1..4, i < j
                 PROVE  shelf'[Fs(i)].no >= shelf'[Fs(j)].no
      OBVIOUS
    <2>1. CASE i \in 1..k
      BY <1>15, <1>17, <1>18, <2>1
    <2>2. CASE i \notin 1..k
      <3>1. i # k /\ j # k
        BY <1>9, <2>2
      <3> QED
        BY <1>4, <1>11, <3>1
    <2> QED
      BY <2>1, <2>2
  <1>21. Len(press'.left) = n - 1 /\ n - 1 \in 0..4 /\ slips' = slips
    BY <1>1, <1>3, <1>6, <1>7
  <1> HIDE DEF k
  <1>22. PressInv'
    BY <1>7, <1>8, <1>16, <1>17, <1>18, <1>19, <1>20, <1>21 DEF PressInv
  <1> QED
    BY <1>7, <1>12, <1>13, <1>22 DEF e

------------------------------------------------------------------------------
LEMMA JamStep ==
  ASSUME BookTypes, PressInv, Printed!Jam
  PROVE  PressInv' /\ press' \in [left : Seq(Sheets), edition : Editions]
         /\ press'.edition = press.edition
  <1> DEFINE e == press.edition
             z == 4
  <1>1. /\ press' = [press EXCEPT !.left = <<>>] /\ slips' = slips + 1
        /\ UNCHANGED <<life, lines, torn, page, shelf>>
    BY DEF Printed!Jam
  <1>2. /\ press = [left |-> press.left, edition |-> e] /\ e \in Editions /\ slips \in Nat
        /\ press.left \in Seq(Sheets)
    BY DEF BookTypes
  <1>3. press' = [left |-> <<>>, edition |-> e] /\ <<>> \in Seq(Sheets)
    BY <1>1, <1>2
  <1>4. press'.left = <<>> /\ press'.edition = e /\ press' \in [left : Seq(Sheets), edition : Editions]
    BY <1>2, <1>3
  <1>5. Len(press'.left) = 0 /\ Yet' = z /\ 0 \in 0..4
    BY <1>4 DEF Yet
  <1>6. /\ \A i, j \in 1..4 : i < j => shelf[Fs(i)].no >= shelf[Fs(j)].no
        /\ \A i \in 1..4 : shelf[Fs(i)].no <= e.no
    BY DEF PressInv
  <1>7. slips' # 0
    BY <1>1, <1>2
  <1>8. \A i \in 1..0 : press'.left[i] = Fs(z + i)
    OBVIOUS
  <1> HIDE DEF e, z
  <1>9. PressInv'
    BY <1>1, <1>4, <1>5, <1>6, <1>7, <1>8 DEF PressInv
  <1> QED
    BY <1>4, <1>9 DEF e

(* What the press knows of a life is no more than there is.                  *)
LEMMA EditionStands ==
  ASSUME EditionInv, UNCHANGED <<shelf, press>>,
         \/ life'.gen > life.gen /\ press.edition.gen \in Nat /\ life.gen \in Nat /\ life'.gen \in Nat
         \/ life'.gen = life.gen /\ life'.words >= life.words
            /\ life.words \in Nat /\ life'.words \in Nat /\ press.edition.total \in Nat
  PROVE  EditionInv'
  <1>1. Since(press.edition, Now')
    BY DEF EditionInv, Since, Now
  <1> QED
    BY <1>1 DEF EditionInv

LEMMA EditionIs ==
  ASSUME NEW e \in Editions
  PROVE  e.no \in Nat /\ e.gen \in Nat /\ e.total \in Nat
  BY BookConstants DEF Editions

LEMMA ShelfFacts ==
  ASSUME BookTypes
  PROVE  /\ shelf["long"] \in Editions /\ press.edition \in Editions /\ press.edition.gen \in Nat
         /\ press.edition.total \in Nat /\ life.gen \in Nat /\ life.words \in Nat
         /\ shelf["long"].gen \in Nat /\ shelf["long"].total \in Nat
         /\ press.left \in Seq(Sheets)
  <1>1. shelf \in [Sheets -> Editions] /\ press \in [left : Seq(Sheets), edition : Editions]
    BY DEF BookTypes
  <1>2. shelf["long"] \in Editions /\ press.edition \in Editions /\ press.left \in Seq(Sheets)
    BY <1>1 DEF Sheets
  <1>3. life \in Lives
    BY DEF BookTypes
  <1>4. life.gen \in 1..MaxGens /\ life.words \in 0..MaxWords
    BY <1>3 DEF Lives
  <1>5. life.gen \in Nat /\ life.words \in Nat
    BY <1>4
  <1> QED
    BY <1>2, <1>5, EditionIs

LEMMA BookSteps ==
  ASSUME BookInv, Printed!Next
  PROVE  BookInv'
  <1>0. BookTypes /\ LedgerInv /\ RingsInv /\ RecordInv /\ PressInv /\ EditionInv
    BY DEF BookInv, RecordInv
  <1>1. slips \in Nat /\ press.edition.gen \in Nat /\ press.edition.total \in Nat /\ life.gen \in Nat
        /\ life.words \in Nat
    BY <1>0, ShelfFacts DEF BookTypes
  <1>2. ASSUME NEW f \in Intensities,
               Printed!Settle(f) \/ Printed!SettleSlips(f) \/ Printed!SettleDies(f) \/ Printed!SettleLegacy(f)
        PROVE  BookInv'
    <2>1. RecordInv'
      BY <1>0, <1>2, SettleStep, SlipStep, DiesStep, LegacyStep
    <2>2. UNCHANGED <<shelf, press>> /\ (slips' = slips \/ slips' = slips + 1)
      BY <1>2 DEF Printed!Settle, Printed!SettleSlips, Printed!SettleDies, Printed!SettleLegacy
    <2>3. life'.gen = life.gen /\ life'.words = life.words
      <3>1. life \in Lives
        BY <1>0, BookFacts
      <3>2. ASSUME Printed!Settle(f)  PROVE life'.gen = life.gen /\ life'.words = life.words
        BY <3>1, <3>2 DEF Printed!Settle, Lives
      <3>3. ASSUME Printed!SettleSlips(f)  PROVE life'.gen = life.gen /\ life'.words = life.words
        BY <3>1, <3>3 DEF Printed!SettleSlips, Lives
      <3>4. ASSUME Printed!SettleDies(f)  PROVE life'.gen = life.gen /\ life'.words = life.words
        BY <3>1, <3>4 DEF Printed!SettleDies, Lives
      <3>5. ASSUME Printed!SettleLegacy(f)  PROVE life'.gen = life.gen /\ life'.words = life.words
        BY <3>1, <3>5 DEF Printed!SettleLegacy, Lives
      <3> QED
        BY <1>2, <3>2, <3>3, <3>4, <3>5
    <2>4. slips' \in Nat /\ slips <= slips'
      BY <1>1, <2>2
    <2>5. PressInv'
      BY <1>0, <1>1, <2>2, <2>4, PressStands
    <2>6. EditionInv'
      BY <1>0, <1>1, <2>2, <2>3, EditionStands
    <2> QED
      BY <2>1, <2>5, <2>6 DEF BookInv
  <1>3. CASE Printed!Dawn \/ Printed!Speak
    <2>1. RecordInv'
      BY <1>0, <1>3, BookDayStep
    <2>2. UNCHANGED <<shelf, press>> /\ slips' = slips /\ slips <= slips
      BY <1>1, <1>3 DEF Printed!Dawn, Printed!Speak
    <2>3. life'.gen = life.gen /\ life'.words >= life.words /\ life'.words \in Nat
      <3>1. life \in Lives
        BY <1>0, BookFacts
      <3>2. life' = life \/ (\E to : life' = IdleAs(life, to)) \/ life' = SpokenAs(life, life.words + 1)
        BY <1>3, Zenon DEF Printed!Dawn, Printed!Speak, IdleAs, SpokenAs
      <3>3. /\ SpokenAs(life, life.words + 1).gen = life.gen
            /\ SpokenAs(life, life.words + 1).words = life.words + 1
            /\ \A to : IdleAs(life, to).gen = life.gen /\ IdleAs(life, to).words = life.words
        BY <3>1 DEF Lives, SpokenAs, IdleAs
      <3> QED
        BY <1>1, <3>2, <3>3
    <2>4. PressInv'
      BY <1>0, <1>1, <2>2, PressStands
    <2>5. EditionInv'
      BY <1>0, <1>1, <2>2, <2>3, EditionStands
    <2> QED
      BY <2>1, <2>4, <2>5 DEF BookInv
  <1>4. CASE Printed!Reborn
    <2>1. RecordInv'
      BY <1>0, <1>4, RebornStep
    <2>2. UNCHANGED <<shelf, press>> /\ slips' = slips /\ slips <= slips
      BY <1>1, <1>4 DEF Printed!Reborn
    <2>3. life'.gen = life.gen + 1
      BY <1>4 DEF Printed!Reborn, Printed!Hatched
    <2>4. PressInv'
      BY <1>0, <1>1, <2>2, PressStands
    <2>5. EditionInv'
      BY <1>0, <1>1, <2>2, <2>3, EditionStands
    <2> QED
      BY <2>1, <2>4, <2>5 DEF BookInv
  <1>5. CASE Printed!Assemble
    <2>1. PressInv' /\ press' \in [left : Seq(Sheets), edition : Editions]
      BY <1>0, <1>5, AssembleStep
    <2>2. UNCHANGED <<life, lines, torn, page, shelf, slips>>
      BY <1>5 DEF Printed!Assemble
    <2>3. RecordInv'
      BY <1>0, <2>1, <2>2 DEF RecordInv, BookTypes, LedgerInv, RingsInv
    <2>4. EditionInv'
      <3>1. /\ press'.edition.gen = life.gen /\ press'.edition.total = life.words
            /\ press'.edition.picks = Printed!Picks(life.words)
        BY <1>5 DEF Printed!Assemble
      <3>2. Made(press'.edition) /\ Since(press'.edition, Now)
        BY <1>1, <3>1 DEF Made, Since, Now
      <3>3. Since(shelf["long"], press'.edition)
        <4>1. /\ shelf["long"].gen \in Nat /\ shelf["long"].total \in Nat
          BY <1>0, ShelfFacts
        <4> QED
          BY <1>0, <1>1, <3>1, <4>1 DEF EditionInv, Since, Now
      <3> QED
        BY <1>0, <2>2, <3>2, <3>3 DEF EditionInv, Now
    <2> QED
      BY <2>1, <2>3, <2>4 DEF BookInv
  <1>6. CASE Printed!Imprint
    <2>1. /\ PressInv' /\ press' \in [left : Seq(Sheets), edition : Editions]
          /\ press'.edition = press.edition /\ shelf' \in [Sheets -> Editions]
          /\ (shelf'["long"] = shelf["long"] \/ shelf'["long"] = press.edition)
      BY <1>0, <1>6, ImprintStep
    <2>2. UNCHANGED <<life, lines, torn, page, slips>>
      BY <1>6 DEF Printed!Imprint
    <2>3. RecordInv'
      BY <1>0, <2>1, <2>2 DEF RecordInv, BookTypes, LedgerInv, RingsInv
    <2>4. EditionInv'
      BY <1>0, <1>1, <2>1, <2>2 DEF EditionInv, Since, Now
    <2> QED
      BY <2>1, <2>3, <2>4 DEF BookInv
  <1>7. CASE Printed!Jam
    <2>1. /\ PressInv' /\ press' \in [left : Seq(Sheets), edition : Editions]
          /\ press'.edition = press.edition
      BY <1>0, <1>7, JamStep
    <2>2. UNCHANGED <<life, lines, torn, page, shelf>> /\ slips' = slips + 1
      BY <1>7 DEF Printed!Jam
    <2>3. RecordInv'
      BY <1>0, <1>1, <2>1, <2>2 DEF RecordInv, BookTypes, LedgerInv, RingsInv
    <2>4. EditionInv'
      BY <1>0, <2>1, <2>2 DEF EditionInv, Now
    <2> QED
      BY <2>1, <2>3, <2>4 DEF BookInv
  <1> QED
    BY <1>2, <1>3, <1>4, <1>5, <1>6, <1>7 DEF Printed!Next

LEMMA BookStep == BookInv /\ [Printed!Next]_bvars => BookInv'
  <1>1. BookInv /\ UNCHANGED bvars => BookInv'
    BY DEF bvars, BookInv, RecordInv, BookTypes, LedgerInv, RingsInv, PressInv, Yet, EditionInv, Now
  <1> QED
    BY <1>1, BookSteps

LEMMA BookBegins == Printed!Init => BookInv
  <1> SUFFICES ASSUME Printed!Init PROVE BookInv
    OBVIOUS
  <1> DEFINE none == Printed!NoEdition
  <1>1. /\ page = 0 /\ lines = <<>> /\ torn = FALSE /\ slips = 0
        /\ life = [Printed!Hatched(1, "linear") EXCEPT !.settledTo = 0]
        /\ shelf = [f \in Sheets |-> none]
        /\ press = [left |-> <<>>, edition |-> none]
    BY FilesAre DEF Printed!Init
  <1>2. page \in Pages /\ 1 \in 1..MaxGens /\ "linear" \in BookModels
    BY <1>1, BookConstants DEF Pages, BookModels
  <1>3. /\ life \in Lives /\ life.gen = 1 /\ life.age = 0 /\ life.settledTo = page /\ life.rings = <<>>
        /\ life.legacy = FALSE
    <2> DEFINE h == Printed!Hatched(1, "linear")
    <2>1. /\ h \in Lives /\ h.gen = 1 /\ h.age = 0 /\ h.settledTo = page /\ h.rings = <<>>
          /\ h.legacy = FALSE
      BY <1>2, HatchedIs
    <2>2. life = [h EXCEPT !.settledTo = page]
      BY <1>1
    <2> HIDE DEF h
    <2>3. life = h
      BY <2>1, <2>2 DEF Lives
    <2> QED
      BY <2>1, <2>3
  <1>4. none = [no |-> 0, gen |-> 0, total |-> 0, picks |-> {}] /\ none \in Editions
    BY BookConstants DEF Printed!NoEdition, Editions
  <1> HIDE DEF none
  <1>5. Made(none)
    BY <1>4 DEF Made, Printed!Picks
  <1>6. BookTypes
    <2>1. /\ lines \in Seq(Rows)
          /\ torn \in BOOLEAN
          /\ slips \in Nat
      <3>1. <<>> \in Seq(Rows) /\ FALSE \in BOOLEAN /\ 0 \in Nat
        OBVIOUS
      <3> QED
        BY <1>1, <3>1, Zenon
    <2>2. shelf \in [Sheets -> Editions]
      BY <1>1, <1>4
    <2>3. <<>> \in Seq(Sheets)
      OBVIOUS
    <2>4. press \in [left : Seq(Sheets), edition : Editions]
      BY <1>1, <1>4, <2>3
    <2> QED
      BY <1>2, <1>3, <2>1, <2>2, <2>4 DEF BookTypes
  <1>7. LedgerInv /\ RingsInv
    BY <1>1, <1>3 DEF LedgerInv, Behind, RingsInv, Grown2
  <1>8. \A f \in Sheets : shelf[f] = none
    BY <1>1
  <1>9. press.left = <<>> /\ press.edition = none /\ Len(press.left) = 0 /\ Yet = 4
    BY <1>1 DEF Yet
  <1>10. PressInv
    <2>1. \A i \in 1..4 : shelf[Fs(i)] = none
      BY <1>8, FilesAre
    <2>2. none.no \in Nat
      BY <1>4
    <2> QED
      BY <1>1, <1>9, <2>1, <2>2 DEF PressInv
  <1>11. EditionInv
    <2>1. shelf["long"] = none
      BY <1>8, FilesAre
    <2>2. none.gen = 0 /\ none.total = 0 /\ life.gen = 1
      BY <1>3, <1>4
    <2> QED
      BY <1>5, <1>9, <2>1, <2>2 DEF EditionInv, Since, Now
  <1> QED
    BY <1>6, <1>7, <1>10, <1>11 DEF BookInv, RecordInv

------------------------------------------------------------------------------
LEMMA RowsAre ==
  ASSUME NEW rows \in Seq(Rows), NEW i \in DOMAIN rows
  PROVE  /\ rows[i] \in Rows /\ rows[i].p \in Ps /\ rows[i].day \in Int /\ rows[i].high \in Said
         /\ rows[i].concern \in Said /\ i \in 1..Len(rows) /\ Len(rows) \in Nat /\ i \in Nat
  <1>1. rows[i] \in Rows
    OBVIOUS
  <1> QED
    BY <1>1 DEF Rows

(* The last of some rows.                                                    *)
LEMMA LastOf ==
  ASSUME NEW n \in Nat, NEW T \in SUBSET (1..n), T # {}
  PROVE  Printed!Max(T) \in T
  <1>1. T \in SUBSET (0..n)
    OBVIOUS
  <1>2. Printed!Max(T) = CHOOSE x \in T : \A y \in T : x >= y
    BY DEF Printed!Max
  <1> DEFINE m == CHOOSE x \in T : \A y \in T : x >= y
  <1>3. m \in T /\ \A k \in T : k <= m
    BY <1>1, Greatest
  <1> QED
    BY <1>2, <1>3

LEMMA SameCount == \A S : Printed!Cardinality(S) = Cardinality(S)
  BY DEF Printed!Cardinality, Cardinality

LEMMA NotPastTheLedgerHolds ==
  ASSUME BookTypes, LedgerInv
  PROVE  Printed!NotPastTheLedger
  <1>1. lines \in Seq(Rows) /\ life \in Lives
    BY DEF BookTypes
  <1> PICK n \in Nat : DOMAIN lines = 1..n
    BY <1>1
  <1> DEFINE M == Printed!Mine
             m == Printed!Max(M)
  <1>2. CASE M = {}
    BY <1>2, Zenon DEF Printed!NotPastTheLedger, Printed!FinalP
  <1>3. CASE M # {}
    <2>1. M \in SUBSET (1..n)
      BY DEF Printed!Mine
    <2>2. m \in M
      BY <1>3, <2>1, LastOf
    <2>3. m \in DOMAIN lines /\ lines[m].gen = life.gen
      BY <2>2 DEF Printed!Mine
    <2>4. life.p <= lines[m].p
      BY <2>3 DEF LedgerInv, Behind
    <2>5. Printed!FinalP = lines[m].p
      BY <1>3, Zenon DEF Printed!FinalP
    <2> QED
      BY <2>4, <2>5 DEF Printed!NotPastTheLedger
  <1> QED
    BY <1>2, <1>3

LEMMA OneEditionHolds ==
  ASSUME BookTypes, PressInv
  PROVE  Printed!OneEdition
  <1>1. press.left \in Seq(Sheets)
    BY ShelfFacts
  <1>2. \A i, j \in DOMAIN Printed!Files : i < j => shelf[Printed!Files[i]].no >= shelf[Printed!Files[j]].no
    BY FilesAre DEF PressInv, Fs
  <1>3. ASSUME Printed!Idle, slips = 0
        PROVE  Printed!Cardinality({shelf[f] : f \in Printed!Range(Printed!Files)}) = 1
    <2>1. press.left = <<>> /\ Len(press.left) = 0 /\ Yet = 4
      BY <1>3 DEF Printed!Idle, Yet
    <2>2. \A i \in 1..4 : shelf[Fs(i)] = press.edition
      BY <1>3, <2>1 DEF PressInv
    <2>3. \A f \in Sheets : shelf[f] = press.edition
      BY <2>2, FilesAre
    <2>4. "long" \in Sheets
      BY DEF Sheets
    <2>5. {shelf[f] : f \in Sheets} = {press.edition}
      BY <2>3, <2>4, Zenon
    <2>6. Cardinality({press.edition}) = 1
      BY FS_Singleton
    <2> QED
      BY <2>5, <2>6, FilesAre, SameCount
  <1> QED
    BY <1>2, <1>3, Zenon DEF Printed!OneEdition

LEMMA FieldsToldHolds == Printed!FieldsTold
  <1> DEFINE R == Printed!FIELD_REGISTRY
             F == {"name", "incarnation", "p", "model", "age", "fast", "utterances", "epochs",
                   "p_series", "hi_by_day", "concern_by_day", "projection"}
  <1>1. DOMAIN R = F
    BY DEF Printed!FIELD_REGISTRY
  <1>2. \A f \in F : R[f] \subseteq {"long", "short", "appendix"}
    BY DEF Printed!FIELD_REGISTRY
  <1>3. \A f \in F : "short" \in R[f] => f \in {"name", "p", "model", "utterances", "projection"}
    BY DEF Printed!FIELD_REGISTRY
  <1>4. \A f \in F : "long" \in R[f] =>
          f \in {"name", "incarnation", "p", "model", "age", "utterances", "epochs", "p_series", "projection"}
    BY DEF Printed!FIELD_REGISTRY
  <1>5. \A S : \A f \in S : <<f, Printed!Told(f)>> \in Printed!Facts(S)
    BY Zenon DEF Printed!Facts
  <1>6. \A f \in F : <<f, Printed!Told(f)>> \in Printed!Template("appendix")
    <2>1. Printed!Template("appendix") = Printed!Facts(F)
      BY <1>1 DEF Printed!Template, Printed!Appendix
    <2> QED
      BY <1>5, <2>1
  <1>7. \A f \in {"name", "p", "model", "utterances", "projection"} :
          <<f, Printed!Told(f)>> \in Printed!Template("short")
    <2>1. Printed!Template("short") =
            Printed!Facts({"name", "model"}) \cup Printed!Facts({"utterances"})
              \cup Printed!Facts({"p", "projection"})
      BY DEF Printed!Template, Printed!Short, Printed!Utterances, Printed!ChapterTail
    <2> QED
      BY <1>5, <2>1
  <1>8. \A f \in {"name", "incarnation", "p", "model", "age", "utterances", "epochs", "p_series",
                  "projection"} :
          <<f, Printed!Told(f)>> \in Printed!Template("long")
    <2>1. Printed!Template("long") =
            Printed!Facts({"name", "incarnation", "model", "age"}) \cup Printed!Facts({"epochs"})
              \cup Printed!Facts({"p_series"}) \cup Printed!Facts({"utterances"})
              \cup Printed!Facts({"p", "projection"})
      BY DEF Printed!Template, Printed!Long, Printed!ChapterHead, Printed!EpochHistory, Printed!PCurve,
             Printed!Utterances, Printed!ChapterTail
    <2> QED
      BY <1>5, <2>1
  <1> HIDE DEF R, F
  <1>9. \A f \in DOMAIN R : \A t \in R[f] : <<f, Printed!Told(f)>> \in Printed!Template(t)
    <2> SUFFICES ASSUME NEW f \in DOMAIN R, NEW t \in R[f]
                 PROVE  <<f, Printed!Told(f)>> \in Printed!Template(t)
      OBVIOUS
    <2>1. t = "long" \/ t = "short" \/ t = "appendix"
      BY <1>1, <1>2
    <2>2. CASE t = "long"
      BY <1>1, <1>4, <1>8, <2>2, Zenon
    <2>3. CASE t = "short"
      BY <1>1, <1>3, <1>7, <2>3, Zenon
    <2>4. CASE t = "appendix"
      BY <1>1, <1>6, <2>4, Zenon
    <2> QED
      BY <2>1, <2>2, <2>3, <2>4
  <1> QED
    BY <1>9, Zenon DEF Printed!FieldsTold, R

------------------------------------------------------------------------------
(* A row that says how the day was says both how much and how grave.         *)
Whole(row) == row.high = -1 \/ row.concern # -1
WholeRows(rows) == \A i \in DOMAIN rows : Whole(rows[i])
WholeInv == WholeRows(lines)

LEMMA WholeRow ==
  ASSUME NEW reason, NEW p, NEW day, NEW f, f.high = -1 \/ f.concern # -1
  PROVE  Whole(Printed!Row(reason, p, day, f))
  <1>1. /\ Printed!Row(reason, p, day, f).high = f.high
        /\ Printed!Row(reason, p, day, f).concern = f.concern
    BY DEF Printed!Row
  <1> QED
    BY <1>1 DEF Whole

LEMMA WholeWritten ==
  ASSUME NEW rows \in Seq(Rows), WholeRows(rows), NEW cut, NEW row \in Rows, Whole(row)
  PROVE  /\ WholeRows(WrittenTo(rows, cut, row).lines) /\ WrittenTo(rows, cut, row).torn = FALSE
         /\ WrittenTo(rows, cut, row).lines \in Seq(Rows)
         /\ WrittenTo(rows, cut, row) = [lines |-> WrittenTo(rows, cut, row).lines, torn |-> FALSE]
  <1> DEFINE t == Append(rows, row)
             now == IF cut THEN rows ELSE t
  <1>1. /\ t \in Seq(Rows) /\ DOMAIN t = 1..(Len(rows) + 1) /\ t[Len(rows) + 1] = row
        /\ \A i \in 1..Len(rows) : t[i] = rows[i]
    OBVIOUS
  <1> PICK n \in Nat : n = Len(rows) /\ DOMAIN rows = 1..n
    OBVIOUS
  <1> HIDE DEF t
  <1>2. \A i \in DOMAIN t : i \in 1..n \/ i = n + 1
    BY <1>1
  <1>3. WholeRows(t)
    <2> SUFFICES ASSUME NEW i \in DOMAIN t PROVE Whole(t[i])
      BY DEF WholeRows
    <2>1. CASE i \in 1..n
      BY <1>1, <2>1 DEF WholeRows
    <2>2. CASE i = n + 1
      BY <1>1, <2>2
    <2> QED
      BY <1>2, <2>1, <2>2
  <1>4. now \in Seq(Rows) /\ WholeRows(now)
    BY <1>1, <1>3
  <1>5. WrittenTo(rows, cut, row) = [lines |-> now, torn |-> FALSE]
    BY DEF WrittenTo, Printed!Written, t
  <1> HIDE DEF now
  <1>6. WrittenTo(rows, cut, row).lines = now /\ WrittenTo(rows, cut, row).torn = FALSE
    BY <1>5
  <1> QED
    BY <1>4, <1>5, <1>6

LEMMA FieldsOf ==
  ASSUME NEW f \in Intensities
  PROVE  f.high \in Nat /\ f.concern \in Nat /\ f.concern # -1
  <1>1. f \in [high : Nat, concern : Nat]
    BY BookConstants
  <1> QED
    BY <1>1

(* A row of this life that the code writes.                                  *)
LEMMA RowWhole ==
  ASSUME life \in Lives, NEW reason \in Reasons, NEW p \in Ps, NEW day \in Int, NEW f,
         f.high \in Said, f.concern \in Said, f.high = -1 \/ f.concern # -1
  PROVE  Printed!Row(reason, p, day, f) \in Rows /\ Whole(Printed!Row(reason, p, day, f))
  BY RowIs, WholeRow

LEMMA WholeSettle ==
  ASSUME BookTypes, WholeInv, NEW f \in Intensities, Printed!Settle(f)
  PROVE  WholeInv'
  <1> DEFINE o == Printed!Outcomes(f)
             day == page - 1
             r1 == Printed!Row("settle_day", o.p, day, f)
             r2 == Printed!Row("epoch_shift", o.p, day, Printed!Quiet)
             one == WrittenTo(lines, torn, r1)
             two == WrittenTo(one.lines, one.torn, r2)
  <1>1. Printed!Holds(one) \/ Printed!Holds(Printed!Written(one, r2))
    BY DEF Printed!Settle, Printed!Ledger, WrittenTo
  <1>2. life \in Lives /\ lines \in Seq(Rows) /\ page \in Nat /\ o.p \in Ps /\ day \in Int
    BY BookFacts, OutcomeIs
  <1>3. r1 \in Rows /\ Whole(r1)
    <2>1. f.high \in Said /\ f.concern \in Said /\ f.concern # -1 /\ "settle_day" \in Reasons
      BY FieldsOf DEF Said, Reasons
    <2> HIDE DEF o, day
    <2> QED
      BY <1>2, <2>1, RowWhole
  <1>4. r2 \in Rows /\ Whole(r2)
    <2> DEFINE q == Printed!Quiet
    <2>1. q.high \in Said /\ q.concern \in Said /\ q.concern # -1 /\ "epoch_shift" \in Reasons
      BY DEF Said, Reasons, Printed!Quiet
    <2>2. r2 = Printed!Row("epoch_shift", o.p, day, q)
      OBVIOUS
    <2> HIDE DEF o, day, q, r2
    <2> QED
      BY <1>2, <2>1, <2>2, RowWhole
  <1> HIDE DEF o, day, r1, r2
  <1>5. /\ WholeRows(one.lines) /\ one.lines \in Seq(Rows) /\ one = [lines |-> one.lines, torn |-> FALSE]
    BY <1>2, <1>3, WholeWritten DEF WholeInv
  <1> HIDE DEF one
  <1>6. Printed!Written(one, r2) = WrittenTo(one.lines, FALSE, r2)
    BY <1>5 DEF WrittenTo
  <1>7. WholeRows(WrittenTo(one.lines, FALSE, r2).lines)
    BY <1>4, <1>5, WholeWritten
  <1> QED
    BY <1>1, <1>5, <1>6, <1>7 DEF Printed!Holds, WholeInv

LEMMA WholeOthers ==
  ASSUME BookTypes, WholeInv, NEW f \in Intensities,
         Printed!SettleSlips(f) \/ Printed!SettleDies(f) \/ Printed!SettleLegacy(f)
  PROVE  WholeInv'
  <1>1. life \in Lives /\ lines \in Seq(Rows) /\ page \in Nat /\ page \in Int /\ life.p \in Ps
    BY BookFacts
  <1>2. CASE Printed!SettleSlips(f)
    <2>1. PICK l \in Printed!Slipped([lines |-> lines, torn |-> torn]) : Printed!Holds(l)
      BY <1>2 DEF Printed!SettleSlips, Printed!Ledger
    <2>2. torn \in BOOLEAN
      BY BookFacts
    <2>3. lines' = lines
      BY <2>1, <2>2, SlippedIs DEF Printed!Holds
    <2> QED
      BY <2>3 DEF WholeInv
  <1>3. CASE Printed!SettleDies(f)
    <2> DEFINE o == Printed!Outcomes(f)
               day == page - 1
               r1 == Printed!Row("settle_day", o.p, day, f)
               w == WrittenTo(lines, torn, r1)
    <2>1. Printed!Holds(w)
      BY <1>3 DEF Printed!SettleDies, Printed!Ledger, WrittenTo
    <2>2. o.p \in Ps /\ day \in Int
      BY <1>1, OutcomeIs
    <2>3. r1 \in Rows /\ Whole(r1)
      <3>1. f.high \in Said /\ f.concern \in Said /\ f.concern # -1 /\ "settle_day" \in Reasons
        BY FieldsOf DEF Said, Reasons
      <3> HIDE DEF o, day
      <3> QED
        BY <1>1, <2>2, <3>1, RowWhole
    <2> HIDE DEF r1
    <2>4. WholeRows(w.lines)
      BY <1>1, <2>3, WholeWritten DEF WholeInv
    <2> QED
      BY <2>1, <2>4 DEF Printed!Holds, WholeInv
  <1>4. CASE Printed!SettleLegacy(f)
    <2> DEFINE p == Printed!Floor(life.p - Printed!CoreSpend(f.high))
               u == Printed!Unsaid
               row == Printed!Row("settle_day", p, page, u)
               w == WrittenTo(lines, torn, row)
    <2>1. lines' = lines \/ Printed!Holds(w)
      BY <1>4 DEF Printed!SettleLegacy, Printed!Ledger, Printed!Holds, WrittenTo
    <2>2. p \in Ps
      BY <1>1, FieldsOf, CoreLeaves
    <2>3. u.high \in Said /\ u.concern \in Said /\ u.high = -1 /\ "settle_day" \in Reasons
      BY DEF Printed!Unsaid, Said, Reasons, Printed!None
    <2> HIDE DEF p, u
    <2>4. row \in Rows /\ Whole(row)
      BY <1>1, <2>2, <2>3, RowWhole
    <2> HIDE DEF row
    <2>5. WholeRows(w.lines)
      BY <1>1, <2>4, WholeWritten DEF WholeInv
    <2> QED
      BY <2>1, <2>5 DEF Printed!Holds, WholeInv
  <1> QED
    BY <1>2, <1>3, <1>4

LEMMA WholeReborn ==
  ASSUME BookTypes, WholeInv, Printed!Reborn
  PROVE  WholeInv'
  <1> DEFINE gen == life.gen + 1
             r == Printed!Row("hatch", Printed!Full, page, Printed!Quiet)
             row == [r EXCEPT !.gen = gen]
             w == WrittenTo(lines, torn, row)
  <1>1. Printed!Holds(w) /\ life.gen < MaxGens
    BY DEF Printed!Reborn, Printed!Ledger, WrittenTo
  <1>2. lines \in Seq(Rows) /\ page \in Int /\ life.gen \in 1..MaxGens
    BY BookFacts
  <1>3. row = [reason |-> "hatch", gen |-> gen, p |-> Printed!Full, day |-> page, high |-> 0, concern |-> 0]
    <2> DEFINE full == Printed!Full
    <2>1. r = [reason |-> "hatch", gen |-> life.gen, p |-> full, day |-> page, high |-> 0, concern |-> 0]
      BY DEF Printed!Row, Printed!Quiet
    <2> HIDE DEF full, r, gen
    <2>2. row = [reason |-> "hatch", gen |-> gen, p |-> full, day |-> page, high |-> 0, concern |-> 0]
      BY <2>1
    <2> QED
      BY <2>2 DEF full
  <1>4. gen \in 1..MaxGens /\ Printed!Full \in Ps /\ "hatch" \in Reasons /\ 0 \in Said
    BY <1>1, <1>2, BookConstants DEF Reasons, Said
  <1> HIDE DEF row, gen
  <1>5. row \in Rows /\ Whole(row)
    <2>1. row.concern = 0
      BY <1>3
    <2>2. row \in Rows
      BY <1>2, <1>3, <1>4 DEF Rows
    <2> QED
      BY <2>1, <2>2 DEF Whole
  <1>6. WholeRows(w.lines)
    BY <1>2, <1>5, WholeWritten DEF WholeInv
  <1> QED
    BY <1>1, <1>6 DEF Printed!Holds, WholeInv

LEMMA WholeStep == BookTypes /\ WholeInv /\ [Printed!Next]_bvars => WholeInv'
  <1> SUFFICES ASSUME BookTypes, WholeInv, [Printed!Next]_bvars PROVE WholeInv'
    OBVIOUS
  <1>1. CASE lines' = lines
    BY <1>1 DEF WholeInv
  <1>2. CASE lines' # lines
    <2>1. \/ \E f \in Intensities : \/ Printed!Settle(f) \/ Printed!SettleSlips(f)
                                    \/ Printed!SettleDies(f) \/ Printed!SettleLegacy(f)
          \/ Printed!Reborn
      BY <1>2 DEF Printed!Next, bvars, Printed!Dawn, Printed!Speak, Printed!Assemble, Printed!Imprint,
                  Printed!Jam
    <2> QED
      BY <2>1, WholeSettle, WholeOthers, WholeReborn
  <1> QED
    BY <1>1, <1>2

LEMMA WholeBegins == Printed!Init => WholeInv
  BY DEF Printed!Init, WholeInv, WholeRows

------------------------------------------------------------------------------
(* Rounding up and to the nearest.                                           *)
LEMMA Times ==
  ASSUME NEW a \in Nat, NEW b \in Nat, NEW s \in Nat, a <= b
  PROVE  a * s <= b * s /\ s * a <= s * b
  <1> PICK d \in Nat : b = a + d
    <2>1. b = a + (b - a) /\ b - a \in Nat
      OBVIOUS
    <2> QED
      BY <2>1
  <1>1. d * s \in Nat
    OBVIOUS
  <1>2. (a + d) * s = a * s + d * s
    OBVIOUS
  <1> QED
    BY <1>1, <1>2

LEMMA Divided ==
  ASSUME NEW a \in Nat, NEW b \in Nat \ {0}
  PROVE  LET k == a \div b
         IN k \in Nat /\ k * b <= a /\ a < k * b + b /\ a % b = a - k * b
  <1>1. a \div b \in Nat /\ a % b \in 0..(b - 1) /\ a = b * (a \div b) + (a % b)
    OBVIOUS
  <1> QED
    BY <1>1

LEMMA CeilIs ==
  ASSUME NEW x \in Nat, NEW s \in Nat \ {0}, NEW k \in Nat
  PROVE  Printed!Ceil(x, s) \in Nat /\ (Printed!Ceil(x, s) <= k <=> x <= k * s)
  <1> PICK a \in Nat : a = x + s - 1
    OBVIOUS
  <1> PICK q \in Nat : q = a \div s /\ q * s <= a /\ a < q * s + s
    BY Divided
  <1>1. Printed!Ceil(x, s) = q
    BY DEF Printed!Ceil
  <1>2. x <= q * s /\ q * s < x + s
    BY q * s \in Nat
  <1>3. q <= k => x <= k * s
    <2> HAVE q <= k
    <2>1. q * s <= k * s /\ q * s \in Nat /\ k * s \in Nat
      BY Times
    <2> QED
      BY <1>2, <2>1
  <1>4. ~(q <= k) => ~(x <= k * s)
    <2> HAVE ~(q <= k)
    <2>1. k + 1 <= q /\ k + 1 \in Nat
      OBVIOUS
    <2>2. (k + 1) * s <= q * s
      BY <2>1, Times
    <2>3. (k + 1) * s = k * s + s /\ q * s \in Nat /\ k * s \in Nat
      OBVIOUS
    <2> QED
      BY <1>2, <2>2, <2>3
  <1> QED
    BY <1>1, <1>3, <1>4

LEMMA CeilUp ==
  ASSUME NEW x \in Nat, NEW y \in Nat, x <= y, NEW s \in Nat \ {0}
  PROVE  Printed!Ceil(x, s) <= Printed!Ceil(y, s)
  <1> PICK k \in Nat : k = Printed!Ceil(y, s)
    BY CeilIs, 0 \in Nat
  <1>1. y <= k * s
    BY CeilIs
  <1>2. x <= k * s
    BY <1>1, k * s \in Nat
  <1> QED
    BY <1>2, CeilIs

(* c days of w are at least as many as 1 of 1.                               *)
LEMMA CeilWider ==
  ASSUME NEW r \in Nat, NEW w \in Nat, NEW c \in Nat \ {0}, c <= w
  PROVE  r <= Printed!Ceil(r * w, c)
  <1> PICK x \in Nat : x = r * w
    OBVIOUS
  <1> PICK k \in Nat : k = Printed!Ceil(x, c)
    BY CeilIs, 0 \in Nat
  <1>1. x <= k * c
    BY CeilIs
  <1>2. r * c <= x
    BY Times
  <1>3. r <= k
    <2> SUFFICES ASSUME ~(r <= k) PROVE FALSE
      OBVIOUS
    <2>1. k + 1 <= r /\ k + 1 \in Nat
      OBVIOUS
    <2>2. (k + 1) * c <= r * c
      BY <2>1, Times
    <2>3. (k + 1) * c = k * c + c /\ k * c \in Nat /\ r * c \in Nat
      OBVIOUS
    <2> QED
      BY <1>1, <1>2, <2>2, <2>3
  <1> QED
    BY <1>3

(* A day cheaper than the forecast supposed takes no more than one off it.   *)
LEMMA CeilLess ==
  ASSUME NEW p \in Nat, NEW q \in Nat, NEW c \in Nat \ {0}, p <= q + c, NEW s \in Nat \ {0}, s <= c
  PROVE  Printed!Ceil(p, c) <= Printed!Ceil(q, s) + 1
  <1> PICK k \in Nat : k = Printed!Ceil(q, s)
    BY CeilIs, 0 \in Nat
  <1>1. q <= k * s
    BY CeilIs
  <1>2. k * s <= k * c
    BY Times
  <1>3. (k + 1) * c = k * c + c /\ k * c \in Nat /\ k * s \in Nat
    OBVIOUS
  <1>4. p <= (k + 1) * c
    BY <1>1, <1>2, <1>3
  <1>5. k + 1 \in Nat
    OBVIOUS
  <1>6. Printed!Ceil(p, c) <= k + 1
    BY <1>4, <1>5, CeilIs
  <1> QED
    BY <1>6

(* ... and to the nearest, the even one from the middle.                     *)
LEMMA RoundIs ==
  ASSUME NEW x \in Nat, NEW n \in Nat \ {0}
  PROVE  LET k == Printed!Round(x, n)
         IN /\ k \in Nat /\ 2 * x <= 2 * (k * n) + n
            /\ \A m \in Nat : 2 * x < 2 * (m * n) + n => k <= m
  <1> PICK q \in Nat : q = x \div n /\ q * n <= x /\ x < q * n + n /\ x % n = x - q * n
    BY Divided
  <1> PICK a \in Nat : a = q * n
    OBVIOUS
  <1>1. n # 0 /\ x % n = x - a
    OBVIOUS
  <1> DEFINE up == 2 * (x - a) > n \/ (2 * (x - a) = n /\ q % 2 = 1)
             k == Printed!Round(x, n)
  <1>2. k = IF up THEN q + 1 ELSE q
    BY <1>1 DEF Printed!Round
  <1>3. (q + 1) * n = a + n
    OBVIOUS
  <1>4. k \in Nat /\ (k = q \/ k = q + 1)
    BY <1>2
  <1>5. 2 * x <= 2 * (k * n) + n
    <2>1. CASE up
      BY <1>2, <1>3, <2>1
    <2>2. CASE ~up
      BY <1>2, <2>2
    <2> QED
      BY <2>1, <2>2
  <1>6. ASSUME NEW m \in Nat, 2 * x < 2 * (m * n) + n PROVE k <= m
    <2> SUFFICES ASSUME ~(k <= m) PROVE FALSE
      OBVIOUS
    <2> HIDE DEF k
    <2> PICK b \in Nat : b = m * n
      OBVIOUS
    <2>1. CASE k = q
      <3>1. m + 1 <= q /\ m + 1 \in Nat
        BY <2>1
      <3>2. (m + 1) * n <= q * n /\ (m + 1) * n = b + n
        BY <3>1, Times
      <3> QED
        BY <1>6, <3>2
    <2>2. CASE k = q + 1
      <3>1. m <= q
        BY <2>2
      <3>2. b <= a
        BY <3>1, Times
      <3>3. k # q
        BY <2>2
      <3>4. up
        BY <1>2, <3>3 DEF k
      <3>5. 2 * (x - a) >= n
        BY <3>4
      <3> QED
        BY <1>6, <3>2, <3>5
    <2> QED
      BY <1>4, <2>1, <2>2
  <1> QED
    BY <1>4, <1>5, <1>6

(* One more number that is not above the mean leaves it where it was, or     *)
(* lowers it.                                                                *)
LEMMA RoundStays ==
  ASSUME NEW x \in Nat, NEW n \in Nat, NEW h \in Nat, n = 0 => x = 0, h <= Printed!Round(x, n)
  PROVE  Printed!Round(x + h, n + 1) <= Printed!Round(x, n)
  <1> PICK k \in Nat : k = Printed!Round(x, n) /\ (n = 0 => k = 0) /\ 2 * x <= 2 * (k * n) + n
    <2>1. CASE n = 0
      <3>1. Printed!Round(x, n) = 0
        BY <2>1 DEF Printed!Round
      <3> QED
        BY <2>1, <3>1
    <2>2. CASE n # 0
      <3>1. n \in Nat \ {0}
        BY <2>2
      <3> QED
        BY <2>2, <3>1, RoundIs
    <2> QED
      BY <2>1, <2>2
  <1> PICK y \in Nat : y = x + h
    OBVIOUS
  <1> PICK m \in Nat \ {0} : m = n + 1
    OBVIOUS
  <1> PICK b \in Nat : b = k * n
    OBVIOUS
  <1>1. k * m = b + k
    OBVIOUS
  <1>2. 2 * y < 2 * (k * m) + m
    BY <1>1
  <1> QED
    BY <1>2, RoundIs

------------------------------------------------------------------------------
(* The days the ledger tells of, and what it tells of each.                  *)
Highs    == [d \in Printed!Recent |-> Printed!RowOf(d).high]
Concerns == [d \in Printed!Recent |-> Printed!RowOf(d).concern]

TellersOf(d) == {i \in Printed!Telling : lines[i].day = d}

LEMMA TellingIs ==
  ASSUME BookTypes
  PROVE  \E n \in Nat : /\ n = Len(lines) /\ DOMAIN lines = 1..n /\ Printed!Telling \subseteq 1..n
                        /\ \A d \in Printed!Settled :
                             Printed!Max(TellersOf(d)) \in TellersOf(d)
  <1>1. lines \in Seq(Rows)
    BY DEF BookTypes
  <1> PICK n \in Nat : n = Len(lines) /\ DOMAIN lines = 1..n
    BY <1>1
  <1>2. Printed!Telling \subseteq 1..n
    BY DEF Printed!Telling, Printed!Settles, Printed!Mine
  <1>3. ASSUME NEW d \in Printed!Settled PROVE Printed!Max(TellersOf(d)) \in TellersOf(d)
    <2>1. TellersOf(d) \in SUBSET (1..n) /\ TellersOf(d) # {}
      BY <1>2, <1>3 DEF TellersOf, Printed!Settled
    <2> QED
      BY <2>1, LastOf
  <1> QED
    BY <1>2, <1>3

LEMMA RowOfIs ==
  ASSUME BookTypes, WholeInv, NEW d \in Printed!Settled
  PROVE  Printed!RowOf(d).high \in Nat /\ Printed!RowOf(d).concern \in Nat
  <1>1. lines \in Seq(Rows)
    BY DEF BookTypes
  <1> PICK i : i = Printed!Max(TellersOf(d)) /\ i \in TellersOf(d)
    BY TellingIs
  <1>2. i \in DOMAIN lines /\ lines[i].high # -1
    BY DEF TellersOf, Printed!Telling, Printed!Settles, Printed!Mine, Printed!None
  <1>3. lines[i].high \in Said /\ lines[i].concern \in Said /\ Whole(lines[i])
    BY <1>1, <1>2, RowsAre DEF WholeInv, WholeRows
  <1>4. Printed!RowOf(d) = lines[i]
    BY DEF Printed!RowOf, TellersOf
  <1> QED
    BY <1>2, <1>3, <1>4 DEF Whole, Said

LEMMA RecentIs ==
  ASSUME BookTypes, WholeInv
  PROVE  /\ IsFiniteSet(Printed!Recent) /\ Cardinality(Printed!Recent) \in Nat
         /\ Cardinality(Printed!Recent) <= Calendar
         /\ Cardinality(Printed!Recent) = 0 <=> Printed!Recent = {}
         /\ Highs \in [Printed!Recent -> Nat] /\ Concerns \in [Printed!Recent -> Nat]
  <1> PICK w \in Nat \ {0}, t \in Nat : w = Calendar /\ t = page
    BY BookConstants, BookFacts
  <1> DEFINE I == (t - w + 1)..t
  <1>1. IsFiniteSet(I) /\ Cardinality(I) = w
    BY FS_Interval
  <1>2. Printed!Recent \subseteq I /\ Printed!Recent \subseteq Printed!Settled
    BY DEF Printed!Recent
  <1> HIDE DEF I
  <1>3. /\ IsFiniteSet(Printed!Recent) /\ Cardinality(Printed!Recent) <= Cardinality(I)
    BY <1>1, <1>2, FS_Subset
  <1>4. Cardinality(Printed!Recent) \in Nat /\ (Cardinality(Printed!Recent) = 0 <=> Printed!Recent = {})
    BY <1>3, NoneOf
  <1>5. \A d \in Printed!Recent : Printed!RowOf(d).high \in Nat /\ Printed!RowOf(d).concern \in Nat
    BY <1>2, RowOfIs
  <1>6. Highs \in [Printed!Recent -> Nat] /\ Concerns \in [Printed!Recent -> Nat]
    BY <1>5 DEF Highs, Concerns
  <1> QED
    BY <1>1, <1>3, <1>4, <1>6

LEMMA SumIs ==
  ASSUME NEW S, IsFiniteSet(S), NEW f \in [S -> Int], NEW c, Sums(f, S, c)
  PROVE  SumOf(f, S) = c[S]
  <1> PICK g \in [SUBSET S -> Int] : Sums(f, S, g) /\ SumOf(f, S) = g[S]
    BY SumsAre
  <1>1. c[S] = g[S]
    BY SumsAgree
  <1> QED
    BY <1>1

LEMMA BusyIs ==
  ASSUME BookTypes, WholeInv
  PROVE  Printed!Busy = Printed!Round(SumOf(Highs, Printed!Recent), Cardinality(Printed!Recent))
  <1> DEFINE S == Printed!Recent
             f == Highs
             F(k) == [s \in SUBSET S |-> IF s = {} THEN 0
                                         ELSE Printed!RowOf(Any(s)).high + k[s \ {Any(s)}]]
             c == CHOOSE k : k = F(k)
  <1>1. IsFiniteSet(S) /\ f \in [S -> Int] /\ \A d \in S : Printed!RowOf(d).high = f[d]
    BY RecentIs DEF Highs
  <1>2. Printed!MapThenSumSet(LAMBDA d : Printed!RowOf(d).high, Printed!Recent) = c[S]
    BY DEF Printed!MapThenSumSet, Printed!MapThenFoldSet, Any
  <1>3. PICK g \in [SUBSET S -> Int] : Sums(f, S, g) /\ SumOf(f, S) = g[S]
    <2> HIDE DEF S, f
    <2> QED
      BY <1>1, SumsAre
  <1>4. \A s \in SUBSET S : s # {} => Printed!RowOf(Any(s)).high = f[Any(s)]
    <2>1. \A s \in SUBSET S : s # {} => Any(s) \in S
      BY AnyOf
    <2> HIDE DEF S, f
    <2> QED
      BY <1>1, <2>1
  <1>5. g = F(g)
    <2> HIDE DEF S, f
    <2> QED
      BY <1>3, <1>4 DEF Sums
  <1>6. c = F(c)
    <2> HIDE DEF F
    <2> QED
      BY <1>5
  <1> HIDE DEF c
  <1>7. Sums(f, S, c)
    <2> HIDE DEF S, f
    <2> QED
      BY <1>4, <1>6 DEF Sums
  <1>8. c[S] = SumOf(f, S)
    <2> HIDE DEF S, f, F
    <2> QED
      BY <1>1, <1>7, SumIs
  <1> HIDE DEF F
  <1> QED
    BY <1>2, <1>8, SameCount DEF Printed!Busy

LEMMA WorriedIs ==
  ASSUME BookTypes, WholeInv
  PROVE  Printed!Worried = Printed!Round(SumOf(Concerns, Printed!Recent), Cardinality(Printed!Recent))
  <1> DEFINE S == Printed!Recent
             f == Concerns
             F(k) == [s \in SUBSET S |-> IF s = {} THEN 0
                                         ELSE Printed!RowOf(Any(s)).concern + k[s \ {Any(s)}]]
             c == CHOOSE k : k = F(k)
  <1>1. IsFiniteSet(S) /\ f \in [S -> Int] /\ \A d \in S : Printed!RowOf(d).concern = f[d]
    BY RecentIs DEF Concerns
  <1>2. Printed!MapThenSumSet(LAMBDA d : Printed!RowOf(d).concern, Printed!Recent) = c[S]
    BY DEF Printed!MapThenSumSet, Printed!MapThenFoldSet, Any
  <1>3. PICK g \in [SUBSET S -> Int] : Sums(f, S, g) /\ SumOf(f, S) = g[S]
    <2> HIDE DEF S, f
    <2> QED
      BY <1>1, SumsAre
  <1>4. \A s \in SUBSET S : s # {} => Printed!RowOf(Any(s)).concern = f[Any(s)]
    <2>1. \A s \in SUBSET S : s # {} => Any(s) \in S
      BY AnyOf
    <2> HIDE DEF S, f
    <2> QED
      BY <1>1, <2>1
  <1>5. g = F(g)
    <2> HIDE DEF S, f
    <2> QED
      BY <1>3, <1>4 DEF Sums
  <1>6. c = F(c)
    <2> HIDE DEF F
    <2> QED
      BY <1>5
  <1> HIDE DEF c
  <1>7. Sums(f, S, c)
    <2> HIDE DEF S, f
    <2> QED
      BY <1>4, <1>6 DEF Sums
  <1>8. c[S] = SumOf(f, S)
    <2> HIDE DEF S, f, F
    <2> QED
      BY <1>1, <1>7, SumIs
  <1> HIDE DEF F
  <1> QED
    BY <1>2, <1>8, SameCount DEF Printed!Worried

LEMMA MeanIs ==
  ASSUME NEW S, IsFiniteSet(S), NEW f \in [S -> Nat]
  PROVE  /\ SumOf(f, S) \in Nat /\ (Cardinality(S) = 0 => SumOf(f, S) = 0)
         /\ Printed!Round(SumOf(f, S), Cardinality(S)) \in Nat
  <1> PICK x \in Nat, n \in Nat : x = SumOf(f, S) /\ n = Cardinality(S)
    BY SumOfNat, NoneOf
  <1>1. n = 0 => x = 0
    <2> HAVE n = 0
    <2>1. S = {}
      BY NoneOf
    <2>2. SumOf(f, {}) = 0
      BY <2>1, SumOfNone
    <2> QED
      BY <2>1, <2>2
  <1>2. Printed!Round(x, n) \in Nat
    <2>1. CASE n = 0
      BY <2>1 DEF Printed!Round
    <2>2. CASE n # 0
      BY <2>2, RoundIs
    <2> QED
      BY <2>1, <2>2
  <1> QED
    BY <1>1, <1>2

(* The day the forecast supposes is a day.                                   *)
LEMMA ForecastIs ==
  ASSUME BookTypes, WholeInv
  PROVE  /\ Printed!Busy \in Nat /\ Printed!Worried \in Nat /\ Factual(Printed!Forecast)
         /\ Printed!Forecast.high = Printed!Busy
  <1>1. Printed!Busy \in Nat /\ Printed!Worried \in Nat
    BY RecentIs, BusyIs, WorriedIs, MeanIs
  <1> DEFINE shift == Printed!Settled # {} /\ 2 * Printed!Cardinality(Printed!ShiftDays) >= Calendar
  <1>2. Printed!Forecast = [active |-> TRUE, high |-> Printed!Busy, concern |-> Printed!Worried,
                            shift |-> shift, age |-> life.age]
    BY DEF Printed!Forecast
  <1>3. shift \in BOOLEAN
    BY Zenon
  <1>4. life.age \in Nat
    BY BookFacts
  <1> HIDE DEF shift
  <1> QED
    BY <1>1, <1>2, <1>3, <1>4 DEF Factual

LEMMA SpentInt ==
  ASSUME NEW model \in BookModels, NEW p \in Ps, NEW fast \in Ps, NEW f, Factual(f)
  PROVE  Printed!Spent(model, p, fast, f).p \in Int
  <1>1. \A x, y : Age!Outcome(x, y).p = x
    BY DEF Age!Outcome
  <1>2. CASE model = "weibull"
    BY <1>1, <1>2, WeibullIs, SameSpent DEF Age!Spent
  <1>3. CASE model = "event"
    BY <1>1, <1>3, EventIs, SameSpent DEF Age!Spent
  <1>4. CASE model = "reserve"
    <2> PICK x \in Int, y \in Ps : Age!Reserve(p, fast, f) = Age!Outcome(x, y)
      BY ReserveIs
    <2>1. Printed!Spent(model, p, fast, f) = Age!Reserve(p, fast, f)
      BY <1>4, SameSpent DEF Age!Spent
    <2> QED
      BY <1>1, <2>1
  <1>5. CASE model = "linear"
    BY <1>1, <1>5, LinearIs, SameSpent DEF Age!Spent
  <1> QED
    BY <1>2, <1>3, <1>4, <1>5 DEF BookModels

LEMMA SpendIs ==
  ASSUME BookTypes, WholeInv
  PROVE  Printed!EstSpend \in Nat
  <1> DEFINE x == Printed!Spent(life.model, life.p, life.fast, Printed!Forecast).p
  <1>1. life.model \in BookModels /\ life.p \in Ps /\ life.fast \in Ps
    BY BookFacts DEF Lives
  <1>2. x \in Int
    BY <1>1, ForecastIs, SpentInt
  <1>3. life.p \in Int
    BY <1>1, AgeConstants DEF Ps
  <1>4. Printed!EstSpend = Printed!Floor(life.p - x)
    BY DEF Printed!EstSpend
  <1> HIDE DEF x
  <1>5. \A y \in Int : Printed!Floor(y) \in Nat
    BY DEF Printed!Floor
  <1> QED
    BY <1>2, <1>3, <1>4, <1>5

------------------------------------------------------------------------------
LEMMA Boundaries ==
  /\ \A i \in 1..4 : Printed!Boundary(i) \in Nat
  /\ \A i, j \in 1..4 : i < j => Printed!Boundary(j) <= Printed!Boundary(i)
  /\ Printed!Boundary(4) = 0
  <1> PICK f \in Nat : f = Printed!Full
    BY BookConstants, AgeConstants
  <1> PICK a \in Nat, b \in Nat, c \in Nat :
        a = (6 * f) \div 10 /\ b = (3 * f) \div 10 /\ c = (3 * f) \div 20 /\ c <= b /\ b <= a
    OBVIOUS
  <1>1. /\ Printed!Boundary(1) = a /\ Printed!Boundary(2) = b /\ Printed!Boundary(3) = c
        /\ Printed!Boundary(4) = 0
    BY DEF Printed!Boundary
  <1>2. \A i \in 1..4 : i = 1 \/ i = 2 \/ i = 3 \/ i = 4
    OBVIOUS
  <1>3. \A i \in 1..4 : Printed!Boundary(i) \in Nat
    BY <1>1, <1>2
  <1>4. ASSUME NEW i \in 1..4, NEW j \in 1..4, i < j
        PROVE  Printed!Boundary(j) <= Printed!Boundary(i)
    <2>1. CASE i = 1
      BY <1>1, <1>2, <1>4, <2>1
    <2>2. CASE i = 2
      BY <1>1, <1>2, <1>4, <2>2
    <2>3. CASE i = 3
      BY <1>1, <1>2, <1>4, <2>3
    <2> QED
      BY <1>2, <1>4, <2>1, <2>2, <2>3
  <1> QED
    BY <1>1, <1>3, <1>4

LEMMA EtaIs ==
  ASSUME NEW p \in Nat, p = life.p, NEW e \in 1..4, NEW spend \in Nat \ {0}
  PROVE  Printed!Eta(e, spend) = IF p > Printed!Boundary(e)
                                 THEN Printed!Ceil(p - Printed!Boundary(e), spend) ELSE 0
  <1>1. spend > 0 /\ spend # 0
    OBVIOUS
  <1>2. CASE p > Printed!Boundary(e)
    BY <1>1, <1>2 DEF Printed!Eta
  <1>3. CASE ~(p > Printed!Boundary(e))
    BY <1>1, <1>3 DEF Printed!Eta
  <1> QED
    BY <1>2, <1>3

LEMMA LastsIs ==
  ASSUME NEW p \in Nat, p = life.p, NEW spend \in Nat
  PROVE  /\ Printed!Lasts(spend) = IF p = 0 THEN 0 ELSE IF spend = 0 THEN 1000 ELSE Printed!Ceil(p, spend)
         /\ Printed!Lasts(spend) \in Nat
  <1>1. CASE p = 0
    BY <1>1 DEF Printed!Lasts
  <1>2. CASE p > 0 /\ spend = 0
    BY <1>2 DEF Printed!Lasts, Printed!Infinite
  <1>3. CASE p > 0 /\ spend > 0
    <2>1. Printed!Lasts(spend) = Printed!Ceil(p, spend)
      BY <1>3 DEF Printed!Lasts
    <2>2. spend \in Nat \ {0}
      BY <1>3
    <2>3. Printed!Ceil(p, spend) \in Nat
      BY <2>2, CeilIs, 0 \in Nat
    <2> QED
      BY <1>3, <2>1, <2>3
  <1> QED
    BY <1>1, <1>2, <1>3

LEMMA EtasInOrder ==
  ASSUME NEW p \in Nat, p = life.p, NEW spend \in Nat \ {0}, NEW i \in 1..4, NEW j \in 1..4, i < j
  PROVE  Printed!Eta(i, spend) <= Printed!Eta(j, spend)
  <1> PICK a \in Nat, b \in Nat : a = Printed!Boundary(i) /\ b = Printed!Boundary(j) /\ b <= a
    BY Boundaries
  <1> PICK u, v : u = Printed!Eta(i, spend) /\ v = Printed!Eta(j, spend)
    OBVIOUS
  <1>1. u = (IF p > a THEN Printed!Ceil(p - a, spend) ELSE 0)
    BY EtaIs
  <1>2. v = (IF p > b THEN Printed!Ceil(p - b, spend) ELSE 0)
    BY EtaIs
  <1>3. CASE p > a
    <2>1. p - a \in Nat /\ p - b \in Nat /\ p - a <= p - b /\ p > b
      BY <1>3
    <2>2. Printed!Ceil(p - a, spend) <= Printed!Ceil(p - b, spend)
      BY <2>1, CeilUp
    <2> QED
      BY <1>1, <1>2, <1>3, <2>1, <2>2
  <1>4. CASE ~(p > a)
    <2>1. v \in Nat
      <3>1. CASE p > b
        <4>1. p - b \in Nat
          BY <3>1
        <4>2. Printed!Ceil(p - b, spend) \in Nat
          BY <4>1, CeilIs, 0 \in Nat
        <4> QED
          BY <1>2, <3>1, <4>2
      <3>2. CASE ~(p > b)
        BY <1>2, <3>2
      <3> QED
        BY <3>1, <3>2
    <2> QED
      BY <1>1, <1>4, <2>1
  <1> QED
    BY <1>3, <1>4

LEMMA EtaOfTheEnd ==
  ASSUME NEW p \in Nat, p = life.p, NEW spend \in Nat \ {0}
  PROVE  Printed!Eta(4, spend) = Printed!Lasts(spend)
  <1>1. 4 \in 1..4 /\ spend \in Nat /\ spend # 0
    OBVIOUS
  <1>2. Printed!Eta(4, spend) = IF p > 0 THEN Printed!Ceil(p - 0, spend) ELSE 0
    BY <1>1, EtaIs, Boundaries
  <1>3. Printed!Lasts(spend) = IF p = 0 THEN 0 ELSE IF spend = 0 THEN 1000 ELSE Printed!Ceil(p, spend)
    BY <1>1, LastsIs
  <1>4. p - 0 = p
    OBVIOUS
  <1> QED
    BY <1>1, <1>2, <1>3, <1>4

LEMMA EpochsAre ==
  ASSUME NEW p \in Ps
  PROVE  Printed!EpochIndex(p) \in 0..4
  <1>1. p <= p
    BY AgeConstants DEF Ps
  <1> QED
    BY <1>1, Epochs, SameWays

LEMMA ForecastInOrderHolds ==
  ASSUME BookTypes, WholeInv
  PROVE  Printed!ForecastInOrder
  <1> PICK p \in Nat : p = life.p
    BY BookFacts, AgeConstants DEF Ps
  <1> DEFINE spend == Printed!EstSpend
             remaining == Printed!Lasts(spend)
             calendar == Printed!RemainingCalendar(remaining)
  <1>1. spend \in Nat /\ remaining \in Nat
    BY SpendIs, LastsIs
  <1>2. \A i \in Printed!ToCome : i \in 1..4
    <2> PICK k \in 0..4 : k = Printed!EpochIndex(life.p)
      BY BookFacts, EpochsAre
    <2>1. Printed!ToCome = (k + 1)..4
      BY DEF Printed!ToCome
    <2> QED
      BY <2>1
  <1> HIDE DEF spend
  <1>3. spend > 0 => \A i, j \in Printed!ToCome : i < j => Printed!Eta(i, spend) <= Printed!Eta(j, spend)
    <2> HAVE spend > 0
    <2>1. spend \in Nat \ {0}
      BY <1>1
    <2> QED
      BY <1>2, <2>1, EtasInOrder
  <1>4. spend > 0 => Printed!Eta(4, spend) = remaining
    <2> HAVE spend > 0
    <2>1. spend \in Nat \ {0}
      BY <1>1
    <2> QED
      BY <2>1, EtaOfTheEnd
  <1> HIDE DEF remaining
  <1>5. calendar # Printed!None => calendar >= remaining
    <2> HAVE calendar # Printed!None
    <2> DEFINE S == Printed!Recent
    <2>1. S # {} /\ calendar = Printed!Ceil(remaining * Calendar, Printed!Cardinality(S))
      BY DEF Printed!RemainingCalendar
    <2> PICK c \in Nat \ {0}, w \in Nat : c = Cardinality(S) /\ w = Calendar /\ c <= w
      BY <2>1, RecentIs, BookConstants
    <2>2. calendar = Printed!Ceil(remaining * w, c)
      BY <2>1, SameCount
    <2>3. remaining <= Printed!Ceil(remaining * w, c)
      BY <1>1, CeilWider
    <2>4. Printed!Ceil(remaining * w, c) \in Nat
      BY <1>1, CeilIs, 0 \in Nat, remaining * w \in Nat
    <2> HIDE DEF calendar
    <2> QED
      BY <1>1, <2>2, <2>3, <2>4
  <1> HIDE DEF calendar
  <1> QED
    BY <1>3, <1>4, <1>5 DEF Printed!ForecastInOrder, spend, remaining, calendar

------------------------------------------------------------------------------
LEMMA PicksStay ==
  ASSUME NEW m \in Nat, NEW n \in Nat, m <= n
  PROVE  Printed!Picks(n) \cap 1..m \subseteq Printed!Picks(m)
  <1> SUFFICES ASSUME NEW i \in 1..m, i \in Printed!Picks(n) PROVE i \in Printed!Picks(m)
    OBVIOUS
  <1> DEFINE A == {j \in 1..n : WordOrder[j] < WordOrder[i]}
             B == {j \in 1..m : WordOrder[j] < WordOrder[i]}
  <1>1. Cardinality(A) < PerEpoch
    BY SameCount DEF Printed!Picks
  <1>2. IsFiniteSet(1..n)
    BY FS_Interval
  <1>3. A \subseteq 1..n /\ B \subseteq A
    <2>1. \A j \in 1..m : j \in 1..n
      OBVIOUS
    <2> QED
      BY <2>1
  <1> HIDE DEF A, B
  <1>4. IsFiniteSet(A) /\ Cardinality(B) <= Cardinality(A) /\ IsFiniteSet(B)
    BY <1>2, <1>3, FS_Subset
  <1>5. Cardinality(A) \in Nat /\ Cardinality(B) \in Nat /\ PerEpoch \in Nat
    BY <1>4, NoneOf, BookConstants
  <1>6. Cardinality(B) < PerEpoch
    BY <1>1, <1>4, <1>5
  <1> QED
    BY <1>6, SameCount DEF Printed!Picks, B

LEMMA LeftOutStep ==
  ASSUME BookInv, [Printed!Next]_bvars
  PROVE  LET was == shelf["long"] now == shelf'["long"]
         IN was.gen = now.gen => now.picks \cap 1..was.total \subseteq was.picks
  <1>1. BookTypes /\ PressInv /\ EditionInv
    BY DEF BookInv, RecordInv
  <1>2. CASE shelf' = shelf
    BY <1>2
  <1>3. CASE shelf' # shelf
    <2>1. Printed!Imprint
      BY <1>3 DEF Printed!Next, bvars, Printed!Settle, Printed!SettleSlips, Printed!SettleDies,
                  Printed!SettleLegacy, Printed!Dawn, Printed!Speak, Printed!Reborn, Printed!Assemble,
                  Printed!Jam
    <2>2. shelf'["long"] = shelf["long"] \/ shelf'["long"] = press.edition
      BY <1>1, <2>1, ImprintStep
    <2>3. CASE shelf'["long"] = shelf["long"]
      BY <2>3
    <2>4. CASE shelf'["long"] = press.edition
      <3> DEFINE was == shelf["long"]
                 now == press.edition
      <3>1. was.gen = now.gen => was.total <= now.total
        BY <1>1 DEF EditionInv, Since
      <3>2. was.picks = Printed!Picks(was.total) /\ now.picks = Printed!Picks(now.total)
        BY <1>1 DEF EditionInv, Made
      <3>3. was.total \in Nat /\ now.total \in Nat
        BY <1>1, ShelfFacts
      <3> HIDE DEF was, now
      <3>4. was.gen = now.gen => now.picks \cap 1..was.total \subseteq was.picks
        BY <3>1, <3>2, <3>3, PicksStay
      <3> QED
        BY <2>4, <3>4 DEF was, now
    <2> QED
      BY <2>2, <2>3, <2>4
  <1> QED
    BY <1>2, <1>3

------------------------------------------------------------------------------
(* What a day as busy costs, of the ways that pay by the day.                *)
Cost(model, high) == IF model = "linear" THEN Printed!CoreSpend(high) ELSE 20

LEMMA CostIs ==
  ASSUME NEW model \in {"linear", "reserve"}, NEW h \in Nat, NEW k \in Nat, k <= h
  PROVE  Cost(model, h) \in Nat /\ Cost(model, k) \in Nat /\ Cost(model, k) <= Cost(model, h)
  <1> PICK a \in Nat, b \in Nat : a = (20 * h) \div 2 /\ b = (20 * k) \div 2 /\ b <= a
    OBVIOUS
  <1>1. /\ Printed!CoreSpend(h) = (IF 20 + a < 40 THEN 20 + a ELSE 40)
        /\ Printed!CoreSpend(k) = (IF 20 + b < 40 THEN 20 + b ELSE 40)
    BY DEF Printed!CoreSpend, Printed!Unit, Printed!Least
  <1>2. CASE model = "linear"
    BY <1>1, <1>2 DEF Cost
  <1>3. CASE model = "reserve"
    BY <1>3 DEF Cost
  <1> QED
    BY <1>2, <1>3

LEMMA SpentByTheDay ==
  ASSUME NEW model \in {"linear", "reserve"}, NEW p, NEW fast, NEW f
  PROVE  Printed!Spent(model, p, fast, f).p = Printed!Floor(p - Cost(model, f.high))
  <1>1. CASE model = "linear"
    <2>1. Printed!Spent(model, p, fast, f) = Printed!Linear(p, fast, f)
      BY <1>1 DEF Printed!Spent
    <2> QED
      BY <1>1, <2>1 DEF Printed!Linear, Printed!Outcome, Cost
  <1>2. CASE model = "reserve"
    <2>1. Printed!Spent(model, p, fast, f) = Printed!Reserve(p, fast, f)
      BY <1>2 DEF Printed!Spent
    <2>2. Printed!Reserve(p, fast, f).p = Printed!Floor(p - 20)
      BY DEF Printed!Reserve, Printed!Outcome, Printed!Unit
    <2>3. Cost(model, f.high) = 20
      BY <1>2 DEF Cost
    <2> QED
      BY <2>1, <2>2, <2>3
  <1> QED
    BY <1>1, <1>2

Min2(x, y) == IF x < y THEN x ELSE y
Less(p, d) == IF p - d < 0 THEN 0 ELSE p - d
Rest(p, s) == IF p = 0 THEN 0 ELSE IF s = 0 THEN 1000 ELSE Printed!Ceil(p, s)

LEMMA SpendByTheDay ==
  BookTypes /\ WholeInv /\ life.model \in {"linear", "reserve"} =>
    /\ Printed!EstSpend = Min2(life.p, Cost(life.model, Printed!Busy)) /\ Printed!Busy \in Nat
    /\ Printed!Remaining = Rest(life.p, Printed!EstSpend)
    /\ life.p \in Nat
  <1> SUFFICES ASSUME BookTypes, WholeInv, life.model \in {"linear", "reserve"}
               PROVE  /\ Printed!EstSpend = Min2(life.p, Cost(life.model, Printed!Busy)) /\ Printed!Busy \in Nat
                      /\ Printed!Remaining = Rest(life.p, Printed!EstSpend)
                      /\ life.p \in Nat
    OBVIOUS
  <1> PICK m \in {"linear", "reserve"} : m = life.model
    OBVIOUS
  <1> PICK p \in Nat : p = life.p
    BY BookFacts, AgeConstants DEF Ps
  <1>1. Printed!Busy \in Nat /\ Printed!Forecast.high = Printed!Busy
    BY ForecastIs
  <1> PICK b \in Nat : b = Printed!Busy
    BY <1>1
  <1> PICK c \in Nat : c = Cost(m, b)
    <2>1. b <= b
      OBVIOUS
    <2> QED
      BY <2>1, CostIs
  <1>2. Printed!Spent(m, p, life.fast, Printed!Forecast).p = Printed!Floor(p - c)
    BY <1>1, SpentByTheDay
  <1>3. Printed!EstSpend = Printed!Floor(p - Printed!Floor(p - c))
    BY <1>2 DEF Printed!EstSpend
  <1>4. Printed!Floor(p - Printed!Floor(p - c)) = Min2(p, c)
    BY DEF Printed!Floor, Min2
  <1>5. Printed!EstSpend \in Nat
    BY SpendIs
  <1>6. Printed!Remaining = IF p = 0 THEN 0 ELSE IF Printed!EstSpend = 0 THEN 1000
                            ELSE Printed!Ceil(p, Printed!EstSpend)
    BY <1>5, LastsIs DEF Printed!Remaining
  <1>7. Printed!Remaining = Rest(life.p, Printed!EstSpend)
    BY <1>6 DEF Rest
  <1> QED
    BY <1>1, <1>3, <1>4, <1>7

(* The numbers of it.                                                        *)
LEMMA HonestNumbers ==
  ASSUME NEW p \in Nat, NEW c \in Nat, NEW d \in Nat, NEW e \in Nat, d <= c, e <= c,
         Rest(p, Min2(p, c)) < 1000
  PROVE  Rest(Less(p, d), Min2(Less(p, d), e)) >= Rest(p, Min2(p, c)) - 1
  <1> PICK q \in Nat : q = Less(p, d) /\ q = (IF p - d < 0 THEN 0 ELSE p - d)
    <2>1. Less(p, d) \in Nat
      BY DEF Less
    <2> QED
      BY <2>1 DEF Less
  <1> PICK s : s = Min2(p, c)
    OBVIOUS
  <1> PICK t : t = Min2(q, e)
    OBVIOUS
  <1> PICK r : r = Rest(p, s) /\ r < 1000 /\ r = (IF p = 0 THEN 0 ELSE IF s = 0 THEN 1000 ELSE Printed!Ceil(p, s))
    BY DEF Rest
  <1> PICK u : u = Rest(q, t) /\ u = (IF q = 0 THEN 0 ELSE IF t = 0 THEN 1000 ELSE Printed!Ceil(q, t))
    BY DEF Rest
  <1> SUFFICES u >= r - 1
    OBVIOUS
  <1>1. s \in Nat /\ t \in Nat /\ s <= c /\ t <= e /\ s <= p /\ t <= q
    BY DEF Min2
  <1>2. CASE p = 0
    <2>1. r = 0 /\ q = 0
      BY <1>2
    <2> QED
      BY <2>1
  <1>3. CASE p # 0
    <2>1. s # 0 /\ r = Printed!Ceil(p, s)
      BY <1>3
    <2>2. s \in Nat \ {0}
      BY <1>1, <2>1
    <2>3. r \in Nat
      BY <2>1, <2>2, CeilIs, 0 \in Nat
    <2>4. CASE p <= c
      <3>1. s = p
        BY <2>4 DEF Min2
      <3>2. p <= 1 * p /\ 1 \in Nat
        OBVIOUS
      <3>3. r <= 1
        BY <2>1, <2>2, <3>1, <3>2, CeilIs
      <3>4. u \in Nat
        <4>1. CASE q = 0 \/ t = 0
          BY <4>1
        <4>2. CASE q # 0 /\ t # 0
          <5>1. t \in Nat \ {0}
            BY <1>1, <4>2
          <5>2. Printed!Ceil(q, t) \in Nat
            BY <5>1, CeilIs, 0 \in Nat
          <5> QED
            BY <4>2, <5>2
        <4> QED
          BY <4>1, <4>2
      <3> QED
        BY <2>3, <3>3, <3>4
    <2>5. CASE ~(p <= c)
      <3>1. s = c /\ q # 0 /\ p <= q + c
        BY <2>5 DEF Min2
      <3>2. CASE t = 0
        <4>1. u = 1000
          BY <3>1, <3>2
        <4> QED
          BY <2>3, <4>1
      <3>3. CASE t # 0
        <4>1. t \in Nat \ {0} /\ t <= c /\ c \in Nat \ {0}
          BY <1>1, <2>2, <3>1, <3>3
        <4>2. u = Printed!Ceil(q, t)
          BY <3>1, <3>3
        <4>3. Printed!Ceil(p, c) <= Printed!Ceil(q, t) + 1
          BY <3>1, <4>1, CeilLess
        <4>4. u \in Nat /\ r = Printed!Ceil(p, c)
          BY <2>1, <3>1, <4>1, <4>2, CeilIs, 0 \in Nat
        <4> QED
          BY <2>3, <4>2, <4>3, <4>4
      <3> QED
        BY <3>2, <3>3
    <2> QED
      BY <2>4, <2>5
  <1> QED
    BY <1>2, <1>3

------------------------------------------------------------------------------
(* A day that was settled, its row written, in no new epoch.                 *)
DayRow(f) == Printed!Row("settle_day", Printed!Outcomes(f).p, page - 1, f)

PaidDay(f) ==
  /\ lines' = Append(lines, DayRow(f)) /\ page' = page
  /\ life'.gen = life.gen /\ life'.model = life.model /\ life'.p = Printed!Outcomes(f).p

LEMMA OnlySettle ==
  ASSUME BookTypes, [Printed!Next]_bvars, life'.age = life.age + 1, slips' = slips
  PROVE  \E f \in Intensities : Printed!Settle(f)
  <1>1. slips' # slips + 1 /\ life'.age # life.age /\ life.age \in Nat /\ life \in Lives
    <2>1. slips \in Nat
      BY DEF BookTypes
    <2> QED
      BY <2>1, BookFacts
  <1>2. ~Printed!Dawn
    <2> SUFFICES ASSUME Printed!Dawn PROVE FALSE
      OBVIOUS
    <2>1. life'.age = life.age
      BY <1>1 DEF Printed!Dawn, Lives
    <2> QED
      BY <1>1, <2>1
  <1>3. ~Printed!Speak
    <2> SUFFICES ASSUME Printed!Speak PROVE FALSE
      OBVIOUS
    <2>1. life'.age = life.age
      BY <1>1 DEF Printed!Speak, Lives
    <2> QED
      BY <1>1, <2>1
  <1>4. ~Printed!Reborn
    <2> SUFFICES ASSUME Printed!Reborn PROVE FALSE
      OBVIOUS
    <2>1. life'.age = 0
      BY DEF Printed!Reborn, Printed!Hatched
    <2> QED
      BY <1>1, <2>1
  <1>5. ~Printed!Assemble /\ ~Printed!Imprint /\ ~Printed!Jam
    BY <1>1 DEF Printed!Assemble, Printed!Imprint, Printed!Jam
  <1>6. \A f \in Intensities : ~Printed!SettleSlips(f) /\ ~Printed!SettleDies(f) /\ ~Printed!SettleLegacy(f)
    BY <1>1 DEF Printed!SettleSlips, Printed!SettleDies, Printed!SettleLegacy
  <1>7. Printed!Next
    BY <1>1 DEF bvars
  <1> QED
    BY <1>2, <1>3, <1>4, <1>5, <1>6, <1>7 DEF Printed!Next

LEMMA OnePaidDay ==
  ASSUME BookTypes, NEW f \in Intensities, Printed!Settle(f), Len(lines') = Len(lines) + 1,
         Printed!Newest'.reason = "settle_day"
  PROVE  PaidDay(f)
  <1> DEFINE o == Printed!Outcomes(f)
             r1 == DayRow(f)
             r2 == Printed!Row("epoch_shift", o.p, page - 1, Printed!Quiet)
             shift == Printed!EpochIndex(life.p) # Printed!EpochIndex(o.p)
             one == IF torn THEN lines ELSE Append(lines, r1)
  <1>1. life \in Lives /\ lines \in Seq(Rows)
    BY BookFacts
  <1>2. life'.gen = life.gen /\ life'.model = life.model /\ life'.p = o.p
    BY <1>1 DEF Printed!Settle, Lives
  <1>3. page' = page
    BY DEF Printed!Settle
  <1>4. Printed!Written([lines |-> lines, torn |-> torn], r1) = [lines |-> one, torn |-> FALSE]
    BY DEF Printed!Written
  <1>5. Printed!Written([lines |-> one, torn |-> FALSE], r2) = [lines |-> Append(one, r2), torn |-> FALSE]
    BY DEF Printed!Written
  <1>6. Printed!Holds(IF shift THEN Printed!Written(Printed!Written([lines |-> lines, torn |-> torn], r1), r2)
                      ELSE Printed!Written([lines |-> lines, torn |-> torn], r1))
    BY DEF Printed!Settle, DayRow, Printed!Ledger
  <1> HIDE DEF shift, o, r1, r2, one
  <1>7. Printed!Holds(IF shift THEN [lines |-> Append(one, r2), torn |-> FALSE]
                      ELSE [lines |-> one, torn |-> FALSE])
    BY <1>4, <1>5, <1>6
  <1>8. lines' = one \/ lines' = Append(one, r2)
    <2>1. CASE shift
      <3>1. Printed!Holds([lines |-> Append(one, r2), torn |-> FALSE])
        BY <1>7, <2>1
      <3> QED
        BY <3>1 DEF Printed!Holds
    <2>2. CASE ~shift
      <3>1. Printed!Holds([lines |-> one, torn |-> FALSE])
        BY <1>7, <2>2
      <3> QED
        BY <3>1 DEF Printed!Holds
    <2> QED
      BY <2>1, <2>2
  <1>9. DayRow(f) \in Rows
    <2>1. page - 1 \in Int /\ "settle_day" \in Reasons /\ f.high \in Said /\ f.concern \in Said /\ o.p \in Ps
      BY <1>1, BookFacts, FieldsOf, OutcomeIs DEF Reasons, Said, o
    <2> QED
      BY <1>1, <2>1, RowIs DEF DayRow, o
  <1>10. one \in Seq(Rows)
    BY <1>1, <1>9 DEF one, r1
  <1>11. CASE lines' = Append(one, r2)
    <2>1. r2.reason = "epoch_shift"
      BY DEF Printed!Row, r2
    <2>2. Len(Append(one, r2)) = Len(one) + 1 /\ Append(one, r2)[Len(one) + 1] = r2
      BY <1>10
    <2>3. Printed!Newest' = r2
      BY <1>11, <2>2 DEF Printed!Newest
    <2> QED
      BY <2>1, <2>3
  <1>12. CASE lines' = one
    <2>1. Len(lines) \in Nat
      BY <1>1
    <2>2. lines' # lines
      BY <2>1
    <2>3. lines' = Append(lines, r1)
      BY <1>12, <2>2 DEF one
    <2> QED
      BY <1>2, <1>3, <2>3 DEF PaidDay, r1, o
  <1> QED
    BY <1>8, <1>11, <1>12

------------------------------------------------------------------------------
(* What the replay says once the row is there.                               *)
LEMMA OneMoreTells ==
  ASSUME BookTypes, WholeInv, NEW f \in Intensities, PaidDay(f), page - 1 \notin Printed!Settled
  PROVE  /\ Printed!Settled' = Printed!Settled \cup {page - 1}
         /\ \A d \in Printed!Settled : Printed!RowOf(d)' = Printed!RowOf(d)
         /\ (Printed!RowOf(page - 1).high)' = f.high
  <1> DEFINE row == DayRow(f)
  <1>1. lines \in Seq(Rows) /\ life \in Lives
    BY BookFacts
  <1> PICK n \in Nat : n = Len(lines) /\ DOMAIN lines = 1..n
    BY <1>1
  <1>2. /\ row.reason = "settle_day" /\ row.gen = life.gen /\ row.day = page - 1 /\ row.high = f.high
        /\ row.high # -1
    <2>1. f.high \in Nat
      BY FieldsOf
    <2> QED
      BY <2>1 DEF DayRow, Printed!Row
  <1> HIDE DEF row
  <1>3. /\ DOMAIN lines' = 1..(n + 1) /\ lines'[n + 1] = row /\ \A i \in 1..n : lines'[i] = lines[i]
    BY <1>1 DEF PaidDay, row
  <1>4. Printed!Telling' = Printed!Telling \cup {n + 1}
    <2>1. \A i \in 1..(n + 1) : i \in 1..n \/ i = n + 1
      OBVIOUS
    <2>2. life'.gen = life.gen
      BY DEF PaidDay
    <2>3. \A i \in 1..n : i \in 1..(n + 1)
      OBVIOUS
    <2>4. n + 1 \in 1..(n + 1)
      OBVIOUS
    <2>5. Printed!Telling = {i \in 1..n : lines[i].gen = life.gen /\ lines[i].reason = "settle_day"
                                          /\ lines[i].high # -1}
      BY DEF Printed!Telling, Printed!Settles, Printed!Mine, Printed!None
    <2>6. Printed!Telling' = {i \in 1..(n + 1) : lines'[i].gen = life'.gen /\ lines'[i].reason = "settle_day"
                                                 /\ lines'[i].high # -1}
      BY <1>3 DEF Printed!Telling, Printed!Settles, Printed!Mine, Printed!None
    <2>7. ASSUME NEW i \in 1..(n + 1)
          PROVE  i \in Printed!Telling' <=> i \in Printed!Telling \/ i = n + 1
      <3>1. CASE i \in 1..n
        BY <1>3, <2>2, <2>5, <2>6, <3>1
      <3>2. CASE i = n + 1
        BY <1>2, <1>3, <2>2, <2>6, <3>2
      <3> QED
        BY <2>1, <3>1, <3>2
    <2> QED
      BY <2>3, <2>4, <2>5, <2>6, <2>7
  <1>5. Printed!Telling \subseteq 1..n
    BY DEF Printed!Telling, Printed!Settles, Printed!Mine
  <1>6. /\ Printed!Settled = {lines[i].day : i \in Printed!Telling}
        /\ Printed!Settled' = {lines'[i].day : i \in Printed!Telling'}
    BY DEF Printed!Settled
  <1>7. Printed!Settled' = Printed!Settled \cup {page - 1}
    BY <1>2, <1>3, <1>4, <1>5, <1>6
  <1>8. ASSUME NEW d \in Printed!Settled PROVE Printed!RowOf(d)' = Printed!RowOf(d)
    <2>1. d # page - 1
      OBVIOUS
    <2>2. {i \in Printed!Telling' : lines'[i].day = d} = TellersOf(d)
      BY <1>2, <1>3, <1>4, <1>5, <2>1 DEF TellersOf
    <2>3. Printed!Max(TellersOf(d)) \in 1..n
      <3>1. Printed!Max(TellersOf(d)) \in TellersOf(d)
        BY TellingIs
      <3> QED
        BY <1>5, <3>1 DEF TellersOf
    <2>4. Printed!RowOf(d) = lines[Printed!Max(TellersOf(d))]
      BY DEF Printed!RowOf, TellersOf
    <2>5. Printed!RowOf(d)' = lines'[Printed!Max({i \in Printed!Telling' : lines'[i].day = d})]
      BY DEF Printed!RowOf, Printed!Max
    <2> QED
      BY <1>3, <2>2, <2>3, <2>4, <2>5
  <1>9. (Printed!RowOf(page - 1).high)' = f.high
    <2> DEFINE d == page - 1
               M == {i \in Printed!Telling' : lines'[i].day = d}
    <2>1. \A i \in Printed!Telling : lines[i].day # d
      BY <1>6
    <2>2. M = {n + 1}
      BY <1>2, <1>3, <1>4, <1>5, <2>1
    <2>3. Printed!Max({n + 1}) = n + 1
      <3>1. Printed!Max({n + 1}) \in {n + 1}
        BY n + 1 \in Nat, {n + 1} \in SUBSET (1..(n + 1)), LastOf
      <3> QED
        BY <3>1
    <2>4. (Printed!RowOf(page - 1).high)' = lines'[Printed!Max(M)].high
      <3>1. page' = page
        BY DEF PaidDay
      <3> QED
        BY <3>1 DEF Printed!RowOf, Printed!Max
    <2> QED
      BY <1>2, <1>3, <2>2, <2>3, <2>4
  <1> QED
    BY <1>7, <1>8, <1>9

LEMMA BusyNow ==
  BookTypes /\ WholeInv =>
    /\ Printed!Busy = Printed!Round(SumOf(Highs, Printed!Recent), Cardinality(Printed!Recent))
    /\ Highs \in [Printed!Recent -> Nat] /\ IsFiniteSet(Printed!Recent)
  BY BusyIs, RecentIs

(* A day no busier than the mean does not raise it.                          *)
LEMMA BusyFalls ==
  ASSUME BookTypes, WholeInv, BookTypes', WholeInv', NEW f \in Intensities, PaidDay(f),
         page - 1 \notin Printed!Settled, f.high <= Printed!Busy
  PROVE  Printed!Busy' <= Printed!Busy
  <1> DEFINE S == Printed!Recent
             R == Printed!Recent'
             x == page - 1
  <1>1. /\ Printed!Busy = Printed!Round(SumOf(Highs, S), Cardinality(S))
        /\ Highs \in [S -> Nat] /\ IsFiniteSet(S)
    BY BusyNow
  <1>2. (BookTypes /\ WholeInv =>
           /\ Printed!Busy = Printed!Round(SumOf(Highs, Printed!Recent), Cardinality(Printed!Recent))
           /\ Highs \in [Printed!Recent -> Nat] /\ IsFiniteSet(Printed!Recent))'
    BY BusyNow, PTL
  <1>3. /\ Printed!Busy' = (Printed!Round(SumOf(Highs, Printed!Recent), Cardinality(Printed!Recent)))'
        /\ Highs' \in [R -> Nat] /\ IsFiniteSet(R)
    BY <1>2
  <1>4. (Printed!Round(SumOf(Highs, Printed!Recent), Cardinality(Printed!Recent)))'
          = Printed!Round(SumOf(Highs', R), Cardinality(R))
    BY DEF Printed!Round, SumOf, Printed!MapThenSumSet, Printed!MapThenFoldSet, Cardinality
  <1>5. /\ Printed!Settled' = Printed!Settled \cup {x} /\ x \notin Printed!Settled
        /\ \A d \in Printed!Settled : Printed!RowOf(d)' = Printed!RowOf(d)
        /\ (Printed!RowOf(page - 1).high)' = f.high
    BY OneMoreTells
  <1>6. page' = page /\ page \in Nat /\ Calendar \in Nat \ {0}
    BY BookFacts, BookConstants DEF PaidDay
  <1>7. R = S \cup ({x} \cap ((page - Calendar + 1)..page)) /\ x \notin S /\ S \subseteq Printed!Settled
    BY <1>5, <1>6 DEF Printed!Recent
  <1>8. /\ Highs = [d \in S |-> Printed!RowOf(d).high]
        /\ Highs' = [d \in R |-> (Printed!RowOf(d).high)']
    BY DEF Highs
  <1>9. \A d \in S : Highs'[d] = Highs[d]
    BY <1>5, <1>7, <1>8
  <1> DEFINE g == Highs'
             h == Highs
  <1> HIDE DEF S, R, g, h
  <1>10. CASE R = S
    <2>1. g = h
      BY <1>1, <1>3, <1>9, <1>10 DEF g, h
    <2>2. Printed!Busy' = Printed!Busy
      BY <1>1, <1>3, <1>4, <1>10, <2>1 DEF g, h
    <2>3. Printed!Busy \in Nat
      BY ForecastIs
    <2> QED
      BY <2>2, <2>3
  <1>11. CASE R = S \cup {x}
    <2>1. h \in [S -> Nat] /\ g \in [S \cup {x} -> Nat] /\ \A d \in S : g[d] = h[d]
      BY <1>1, <1>3, <1>9, <1>11 DEF g, h
    <2>2. g[x] = f.high
      BY <1>5, <1>6, <1>8, <1>11 DEF g
    <2>3. h \in [S -> Int] /\ g \in [S \cup {x} -> Int]
      BY <2>1
    <2>4. SumOf(g, S \cup {x}) = g[x] + SumOf(h, S) /\ SumOf(h, S) \in Int
      BY <1>1, <1>7, <2>1, <2>3, SumOfMore
    <2>5. Cardinality(S \cup {x}) = Cardinality(S) + 1
      BY <1>1, <1>7, FS_AddElement
    <2> PICK s \in Nat, n \in Nat : s = SumOf(h, S) /\ n = Cardinality(S) /\ (n = 0 => s = 0)
      BY <1>1, <2>1, MeanIs, NoneOf
    <2> PICK k \in Nat : k = f.high
      BY FieldsOf
    <2>6. Printed!Busy = Printed!Round(s, n)
      BY <1>1 DEF h
    <2>7. k + s = s + k
      OBVIOUS
    <2>8. Printed!Busy' = Printed!Round(s + k, n + 1)
      BY <1>3, <1>4, <1>11, <2>2, <2>4, <2>5, <2>7 DEF g
    <2>9. Printed!Round(s + k, n + 1) <= Printed!Round(s, n)
      BY <2>6, RoundStays
    <2> QED
      BY <2>6, <2>8, <2>9
  <1>12. R = S \/ R = S \cup {x}
    BY <1>7
  <1> QED
    BY <1>10, <1>11, <1>12

LEMMA HonestStep ==
  ASSUME BookInv, WholeInv, BookTypes', WholeInv', [Printed!Next]_bvars,
         life.model \in {"linear", "reserve"}, life'.age = life.age + 1,
         slips' = slips, Printed!Remaining < 1000,
         Len(lines') = Len(lines) + 1, Printed!Newest'.reason = "settle_day",
         Printed!Newest'.high <= Printed!Busy, Printed!Newest'.day \notin Printed!Settled
  PROVE  Printed!Remaining' >= Printed!Remaining - 1
  <1>0. BookTypes
    BY DEF BookInv, RecordInv
  <1> PICK f \in Intensities : Printed!Settle(f)
    BY <1>0, OnlySettle
  <1>1. PaidDay(f)
    BY <1>0, OnePaidDay
  <1>2. Printed!Newest' = DayRow(f)
    BY <1>0, <1>1, BookFacts DEF PaidDay, Printed!Newest
  <1>3. f.high <= Printed!Busy /\ page - 1 \notin Printed!Settled /\ f.high \in Nat
    BY <1>2, FieldsOf DEF DayRow, Printed!Row
  <1>4. Printed!Busy' <= Printed!Busy
    BY <1>0, <1>1, <1>3, BusyFalls
  <1>5. /\ Printed!EstSpend = Min2(life.p, Cost(life.model, Printed!Busy)) /\ Printed!Busy \in Nat
        /\ Printed!Remaining = Rest(life.p, Printed!EstSpend)
        /\ life.p \in Nat
    BY <1>0, SpendByTheDay
  <1>6. (BookTypes /\ WholeInv /\ life.model \in {"linear", "reserve"} =>
           /\ Printed!EstSpend = Min2(life.p, Cost(life.model, Printed!Busy)) /\ Printed!Busy \in Nat
           /\ Printed!Remaining = Rest(life.p, Printed!EstSpend)
           /\ life.p \in Nat)'
    BY SpendByTheDay, PTL
  <1>7. life'.model = life.model /\ life'.p = Printed!Outcomes(f).p
    BY <1>1 DEF PaidDay
  <1>8. /\ Printed!EstSpend' = Min2(life'.p, Cost(life.model, Printed!Busy')) /\ Printed!Busy' \in Nat
        /\ Printed!Remaining' = Rest(life'.p, Printed!EstSpend')
        /\ life'.p \in Nat
    BY <1>6, <1>7 DEF Min2, Cost, Rest, Printed!Ceil
  <1> PICK m \in {"linear", "reserve"} : m = life.model
    OBVIOUS
  <1> PICK p \in Nat, q \in Nat, a \in Nat, b \in Nat, h \in Nat :
        p = life.p /\ q = life'.p /\ a = Printed!Busy /\ b = Printed!Busy' /\ h = f.high /\ b <= a /\ h <= a
    BY <1>3, <1>4, <1>5, <1>8
  <1> PICK c \in Nat, d \in Nat, e \in Nat :
        c = Cost(m, a) /\ d = Cost(m, h) /\ e = Cost(m, b) /\ d <= c /\ e <= c
    BY CostIs
  <1>9. q = IF p - d < 0 THEN 0 ELSE p - d
    <2>1. \A g : Printed!Spent(m, p, life.fast, g).p = Printed!Floor(p - Cost(m, g.high))
      BY SpentByTheDay
    <2> DEFINE g == [active |-> TRUE, high |-> f.high, concern |-> f.concern, shift |-> FALSE, age |-> life.age]
    <2>2. g.high = h
      OBVIOUS
    <2>3. Printed!Outcomes(f) = Printed!Gated(p, Printed!Spent(m, p, life.fast, g))
      BY DEF Printed!Outcomes
    <2> HIDE DEF g
    <2> DEFINE o == Printed!Spent(m, p, life.fast, g)
    <2>4. o.p = Printed!Floor(p - d)
      BY <2>1, <2>2
    <2>5. o = [p |-> o.p, fast |-> o.fast]
      <3>1. CASE m = "linear"
        BY <3>1 DEF Printed!Spent, Printed!Linear, Printed!Outcome
      <3>2. CASE m = "reserve"
        BY <3>2 DEF Printed!Spent, Printed!Reserve, Printed!Outcome
      <3> QED
        BY <3>1, <3>2
    <2> HIDE DEF o
    <2>6. Printed!Gated(p, o).p = Printed!Least(p, Printed!Floor(o.p))
      BY <2>5 DEF Printed!Gated
    <2>7. Printed!Least(p, Printed!Floor(Printed!Floor(p - d))) = IF p - d < 0 THEN 0 ELSE p - d
      BY DEF Printed!Least, Printed!Floor
    <2> QED
      BY <1>7, <2>3, <2>4, <2>6, <2>7 DEF o
  <1>10. q = Less(p, d)
    BY <1>9 DEF Less
  <1>11. Rest(Less(p, d), Min2(Less(p, d), e)) >= Rest(p, Min2(p, c)) - 1
    BY <1>5, HonestNumbers
  <1> QED
    BY <1>5, <1>8, <1>10, <1>11

------------------------------------------------------------------------------
PressOf(left, k) == Len(left) = k /\ \A i \in 1..k : left[i] = Fs(4 - k + i)

LEMMA TailOfFiles ==
  ASSUME NEW s \in Seq(Sheets), Len(s) = 4, NEW i \in 1..5
  PROVE  /\ SubSeq(s, i, 4) \in Seq(Sheets) /\ Len(SubSeq(s, i, 4)) = 5 - i
         /\ \A j \in 1..(5 - i) : SubSeq(s, i, 4)[j] = s[i + j - 1]
  <1>1. \A j \in 1..Len(s) : s[j] \in Sheets
    BY ElementOfSeq
  <1>2. \A j \in i..4 : s[j] \in Sheets
    <2>1. \A j \in i..4 : j \in 1..4
      OBVIOUS
    <2> QED
      BY <1>1, <2>1
  <1>3. i \in Int /\ 4 \in Int /\ 4 - i + 1 = 5 - i /\ i <= 4 + 1
    OBVIOUS
  <1>4. /\ SubSeq(s, i, 4) \in Seq(Sheets)
        /\ Len(SubSeq(s, i, 4)) = IF i <= 4 THEN 4 - i + 1 ELSE 0
        /\ \A j \in 1..(4 - i + 1) : SubSeq(s, i, 4)[j] = s[i + j - 1]
    BY <1>2, <1>3, SubSeqProperties
  <1>5. (IF i <= 4 THEN 4 - i + 1 ELSE 0) = 5 - i
    OBVIOUS
  <1> QED
    BY <1>3, <1>4, <1>5

LEMMA FilesLeft ==
  ASSUME NEW left \in Seq(Sheets), Len(left) \in 0..4, PressOf(left, Len(left))
  PROVE  left \in {SubSeq(Printed!Files, i, 4) : i \in 1..5}
  <1> PICK k \in 0..4 : k = Len(left)
    OBVIOUS
  <1> DEFINE i == 5 - k
             t == SubSeq(Printed!Files, i, 4)
  <1>1. Printed!Files \in Seq(Sheets) /\ Len(Printed!Files) = 4
    BY FilesAre
  <1>2. i \in 1..5 /\ 5 - i = k
    <2>1. \A n \in 0..4 : 5 - n \in 1..5 /\ 5 - (5 - n) = n
      OBVIOUS
    <2> QED
      BY <2>1
  <1> HIDE DEF i
  <1>3. Len(t) = k /\ t \in Seq(Sheets) /\ \A j \in 1..k : t[j] = Printed!Files[i + j - 1]
    BY <1>1, <1>2, TailOfFiles
  <1>4. \A j \in 1..k : t[j] = left[j]
    <2> TAKE j \in 1..k
    <2>1. left[j] = Fs(4 - k + j) /\ 4 - k + j = i + j - 1
      BY DEF PressOf, i
    <2> QED
      BY <1>3, <2>1 DEF Fs
  <1>5. t = left
    <2> HIDE DEF t
    <2>1. Len(left) = k /\ left \in Seq(Sheets)
      OBVIOUS
    <2>2. t = [j \in 1..k |-> t[j]] /\ left = [j \in 1..k |-> left[j]]
      BY <1>3, <2>1
    <2> QED
      BY <1>4, <2>2
  <1> QED
    BY <1>2, <1>5

LEMMA BookTypeOK ==
  ASSUME BookInv
  PROVE  Printed!TypeOK
  <1>1. BookTypes /\ LedgerInv /\ PressInv
    BY DEF BookInv, RecordInv
  <1>2. life.p \in 0..Printed!Full /\ life.fast \in 0..Printed!Full
    BY <1>1, BookFacts, BookConstants DEF Ps
  <1>3. life.age \in 0..(LastPage + MaxSlips) /\ page \in 0..LastPage
    <2> PICK p \in Nat, a \in Nat, s \in Nat : p = LastPage /\ a = life.age /\ s = life.settledTo
      BY <1>1, BookFacts, BookConstants
    <2> PICK m \in Nat : m = MaxSlips
      BY BookConstants
    <2> PICK g \in 0..p : g = page
      BY <1>1, BookFacts DEF Pages
    <2>1. a <= s /\ s <= g
      BY <1>1 DEF LedgerInv
    <2> QED
      BY <2>1
  <1>4. life.gen \in 1..MaxGens /\ life.words \in 0..MaxWords
    BY <1>1, BookFacts
  <1>5. \A i \in DOMAIN lines : lines[i].reason \in {"hatch", "settle_day", "epoch_shift"}
    <2> TAKE i \in DOMAIN lines
    <2>1. lines[i] \in Rows
      BY <1>1, BookFacts
    <2> QED
      BY <2>1 DEF Rows, Reasons
  <1>6. DOMAIN shelf = Printed!Range(Printed!Files)
    BY <1>1, FilesAre DEF BookTypes
  <1>7. press.left \in {SubSeq(Printed!Files, i, 4) : i \in 1..5}
    <2>1. press.left \in Seq(Sheets)
      BY <1>1, ShelfFacts
    <2>2. Len(press.left) \in 0..4 /\ PressOf(press.left, Len(press.left))
      BY <1>1 DEF PressInv, PressOf, Yet
    <2> QED
      BY <2>1, <2>2, FilesLeft
  <1>8. torn \in BOOLEAN
    BY <1>1 DEF BookTypes
  <1> HIDE DEF BookInv
  <1> QED
    BY <1>2, <1>3, <1>4, <1>5, <1>6, <1>7, <1>8, Zenon DEF Printed!TypeOK

BookAll == BookInv /\ WholeInv

LEMMA BookAllBegins == Printed!Init => BookAll
  BY BookBegins, WholeBegins DEF BookAll

LEMMA BookAllStep == BookAll /\ [Printed!Next]_bvars => BookAll'
  BY BookStep, WholeStep DEF BookAll, BookInv, RecordInv

LEMMA BookFollows ==
  ASSUME BookAll
  PROVE  /\ Printed!NotPastTheLedger /\ Printed!ForecastInOrder /\ Printed!RingsSumUp
         /\ Printed!FieldsTold /\ Printed!OneEdition /\ Printed!TypeOK
  <1>1. BookInv /\ WholeInv /\ BookTypes /\ LedgerInv /\ RingsInv /\ PressInv
    BY DEF BookAll, BookInv, RecordInv
  <1>2. life \in Lives
    BY <1>1, BookFacts
  <1> QED
    BY <1>1, <1>2, NotPastTheLedgerHolds, ForecastInOrderHolds, RingsFollow, FieldsToldHolds,
       OneEditionHolds, BookTypeOK
================================================================================
