----------------------------- MODULE HeartbeatProofs -----------------------------
(* Her own words, for any clock, any cap, gap and quiet hours, any number of *)
(* crashes, and an engine that may raise or be slow: the clock goes on under *)
(* a beat that awaits it.                                                    *)
EXTENDS Heartbeat, FiniteSetTheorems, TLAPS

(* The words of kind K that are of the day d and were decided after t, among *)
(* those told, S, and those that wait in the record r.                       *)
Sel(S, K, d, t)      == {w \in S : w.kind \in K /\ w.day = d /\ w.ts > t}
Count(r, S, K, d, t) == Cardinality(Sel(S, K, d, t)) + Cardinality(Sel(r.queue, K, d, t))
Mine(r, S)           == {w \in S \cup r.queue : w.kind \in Own}

(* A record at the time n keeps its types, in memory as on disk. *)
RecordOK(r, n) ==
  /\ r \in Record
  /\ r.sent <= CapBase
  /\ r.last \in {Never} \cup 0..n
  /\ r.day <= Day(n)
  /\ IsFiniteSet(r.queue)
  /\ \A w \in r.queue : w.ts <= n

SpokenOK(S, n) ==
  /\ IsFiniteSet(S)
  /\ \A w \in S : w.ts \in 0..n /\ w.at \in w.ts..n /\ w.day \in Days /\ w.p \in Levels

(* A beat in progress is of the day of its record.                           *)
BeatOK ==
  /\ beat \in [ts : Nat, day : Nat, quiet : BOOLEAN, window : BOOLEAN]
  /\ beat.ts \in 0..now /\ beat.day \in 0..Day(now)
  /\ beat.quiet \in BOOLEAN /\ beat.window \in BOOLEAN
  /\ pc \in {"tick", "shadow"} => beat.day = Day(beat.ts) /\ mem.day = beat.day

StateInv ==
  /\ TypeOK /\ RecordOK(mem, now) /\ RecordOK(disk, now) /\ SpokenOK(spoken, now) /\ BeatOK
  /\ over \in [{NoDay} \cup Days -> 0..2]

(* The record r accounts for every word of hers that was told or waits in    *)
(* it: a slot for each of its day, none ahead of its last, and those after   *)
(* the user's last words, at h, counted as unanswered.                       *)
Rationed(r, S, h) ==
  /\ \A w \in Mine(r, S) : w.day <= r.day /\ (w.day = r.day => w.p = r.p /\ w.ts <= r.last)
  /\ \A v, w \in Mine(r, S) : v.day = w.day /\ v.ts < w.ts => v.ts + Gap <= w.ts
  /\ Count(r, S, Own, r.day, -1) <= r.sent /\ r.sent <= Cap(r.p)
  /\ \A w \in Mine(r, S) : Count(r, S, Own, w.day, -1) <= Cap(w.p)
  /\ Count(r, S, Own, r.day, h) <= r.streak
  /\ \A d \in Days : Count(r, S, Own, d, h) <= 2

RationInv == Rationed(mem, spoken, heard) /\ Rationed(disk, spoken, heard)

(* While a word can be told, its time has not passed.                        *)
Timely(w) ==
  \A t \in w.made..(w.expires - 1) :
    /\ w.kind \in {"contact", "night"} /\ Quiet(t) => Quiet(w.made) /\ w.ts < w.made
    /\ w.kind \in {"dream", "concern"} => Day(t) = Day(w.made)

(* A beat knows whether it is quiet, as long as the clock has not gone on.   *)
Aware == pc = "shadow" /\ beat.ts = now => beat.quiet = Quiet(now)

TimeInv ==
  /\ \A w \in mem.queue \cup disk.queue : Timely(w) /\ w.made <= now
  /\ Aware

(* The dreams of a day are none before its record says so, and then one.     *)
Dreamed(r, S) ==
  /\ \A w \in S \cup r.queue : w.kind = "dream" => w.day <= r.day
  /\ Count(r, S, {"dream"}, r.day, -1) <= IF r.dreamt THEN 1 ELSE 0
  /\ \A d \in Days : Count(r, S, {"dream"}, d, -1) <= 1

DreamInv == Dreamed(mem, spoken) /\ Dreamed(disk, spoken)

(* The beats a record has counted were of the night it names. *)
NightInv == mem.count <= over[mem.night] /\ disk.count <= over[disk.night]

------------------------------------------------------------------------------
(* The clock. *)

LEMMA DivFacts ==
  ASSUME NEW a \in Nat, NEW d \in Nat \ {0}
  PROVE  /\ a \div d \in Nat /\ (a \div d) * d <= a /\ a < ((a \div d) + 1) * d
         /\ a % d = a - (a \div d) * d /\ a % d \in 0..(d - 1)
  BY SMT

LEMMA DivMonotone ==
  ASSUME NEW a \in Nat, NEW b \in Nat, NEW d \in Nat \ {0}, a <= b
  PROVE  a \div d <= b \div d
  BY SMT

LEMMA DayFacts ==
  ASSUME NEW t \in Nat
  PROVE  /\ Day(t) \in Nat /\ Day(t) * DayLength <= t /\ t < (Day(t) + 1) * DayLength
         /\ Day(t) * DayLength \in Nat
         /\ Minute(t) = t - Day(t) * DayLength /\ Minute(t) \in 0..(DayLength - 1)
         /\ (Day(t) + 1) * DayLength = Day(t) * DayLength + DayLength
  <1>1. DayLength \in Nat \ {0}
    BY ClockAssumption
  <1>2. /\ Day(t) \in Nat /\ Day(t) * DayLength <= t /\ t < (Day(t) + 1) * DayLength
        /\ Minute(t) = t - Day(t) * DayLength /\ Minute(t) \in 0..(DayLength - 1)
    BY <1>1, DivFacts DEF Day, Minute
  <1>3. Day(t) * DayLength \in Nat /\ (Day(t) + 1) * DayLength = Day(t) * DayLength + DayLength
    BY <1>1, <1>2
  <1> QED
    BY <1>2, <1>3

LEMMA DayMonotone ==
  ASSUME NEW t \in Nat, NEW u \in Nat, t <= u
  PROVE  Day(t) <= Day(u) /\ Day(t) \in Nat /\ Day(u) \in Nat
  BY DivMonotone, DayFacts, ClockAssumption DEF Day

(* The day of a tick is given by its bounds. *)
LEMMA DayUnique ==
  ASSUME NEW t \in Nat, NEW d \in Nat,
         d * DayLength <= t, t < (d + 1) * DayLength
  PROVE  Day(t) = d
  <1>1. DayLength \in Nat \ {0} /\ Day(t) \in Nat /\ Day(t) * DayLength <= t
        /\ t < (Day(t) + 1) * DayLength
    BY DayFacts, ClockAssumption
  <1>2. ASSUME NEW a \in Nat, NEW b \in Nat, a < b
        PROVE  (a + 1) * DayLength <= b * DayLength
    BY <1>1, <1>2
  <1> QED
    BY <1>1, <1>2

LEMMA DaysType ==
  ASSUME NEW t \in 0..MaxNow
  PROVE  Day(t) \in Days /\ Day(MaxNow) \in Nat /\ t \in Nat
  BY DayMonotone, BoundsAssumption DEF Days

LEMMA CapType ==
  ASSUME NEW p \in Levels
  PROVE  Cap(p) \in Nat /\ Cap(p) <= CapBase
  <1>1. CapBase \in Nat
    BY SettingsAssumption
  <1>2. p = 0 \/ p = 1 \/ p = 2 \/ p = 3 \/ p = 4
    BY DEF Levels
  <1>3. CapBase * p \in Nat /\ CapBase * p <= CapBase * 4
    BY <1>1, <1>2
  <1> QED
    BY <1>1, <1>3 DEF Cap

------------------------------------------------------------------------------
(* Counting. *)

LEMMA SelFinite ==
  ASSUME NEW S, IsFiniteSet(S), NEW K, NEW d, NEW t
  PROVE  IsFiniteSet(Sel(S, K, d, t)) /\ Cardinality(Sel(S, K, d, t)) \in Nat
         /\ Sel(S, K, d, t) \subseteq S
  BY FS_Subset, FS_CardinalityType DEF Sel

LEMMA SelSmaller ==
  ASSUME NEW S, IsFiniteSet(S), NEW T, T \subseteq S, NEW K, NEW d, NEW t
  PROVE  Cardinality(Sel(T, K, d, t)) <= Cardinality(Sel(S, K, d, t))
  <1>1. Sel(T, K, d, t) \subseteq Sel(S, K, d, t)
    BY DEF Sel
  <1> QED
    BY <1>1, SelFinite, FS_Subset

LEMMA SelNone ==
  ASSUME NEW S, NEW K, NEW d, NEW t,
         \A w \in S : ~(w.kind \in K /\ w.day = d /\ w.ts > t)
  PROVE  Cardinality(Sel(S, K, d, t)) = 0
  <1>1. Sel(S, K, d, t) = {}
    BY DEF Sel
  <1> QED
    BY <1>1, FS_EmptySet

LEMMA UnionBound ==
  ASSUME NEW A, NEW B, IsFiniteSet(A), IsFiniteSet(B)
  PROVE  IsFiniteSet(A \cup B) /\ Cardinality(A \cup B) <= Cardinality(A) + Cardinality(B)
  <1>1. /\ Cardinality(A) \in Nat /\ Cardinality(B) \in Nat /\ Cardinality(A \cap B) \in Nat
        /\ IsFiniteSet(A \cup B)
        /\ Cardinality(A \cup B) = Cardinality(A) + Cardinality(B) - Cardinality(A \cap B)
    BY FS_Intersection, FS_CardinalityType, FS_Union
  <1> QED
    BY <1>1

LEMMA AddBound ==
  ASSUME NEW A, NEW x, IsFiniteSet(A)
  PROVE  IsFiniteSet(A \cup {x}) /\ Cardinality(A \cup {x}) <= Cardinality(A) + 1
  <1>1. IsFiniteSet({x}) /\ Cardinality({x}) = 1
    BY FS_Singleton
  <1>2. Cardinality(A \cup {x}) <= Cardinality(A) + Cardinality({x})
    BY <1>1, UnionBound
  <1> QED
    BY <1>1, <1>2, FS_AddElement

(* One word more counts for one at most, and where it is not selected for    *)
(* none.                                                                     *)
LEMMA SelMore ==
  ASSUME NEW S, IsFiniteSet(S), NEW x, NEW K, NEW d, NEW t
  PROVE  /\ IsFiniteSet(S \cup {x})
         /\ Cardinality(Sel(S \cup {x}, K, d, t)) <= Cardinality(Sel(S, K, d, t)) + 1
         /\ ~(x.kind \in K /\ x.day = d /\ x.ts > t)
              => Sel(S \cup {x}, K, d, t) = Sel(S, K, d, t)
  <1>1. IsFiniteSet(Sel(S, K, d, t)) /\ Cardinality(Sel(S, K, d, t)) \in Nat
    BY SelFinite
  <1>2. CASE x.kind \in K /\ x.day = d /\ x.ts > t
    <2>1. Sel(S \cup {x}, K, d, t) = Sel(S, K, d, t) \cup {x}
      BY <1>2 DEF Sel
    <2>2. Cardinality(Sel(S, K, d, t) \cup {x}) <= Cardinality(Sel(S, K, d, t)) + 1
      BY <1>1, AddBound
    <2>3. IsFiniteSet(S \cup {x})
      BY FS_AddElement
    <2> QED
      BY <1>2, <2>1, <2>2, <2>3
  <1>3. CASE ~(x.kind \in K /\ x.day = d /\ x.ts > t)
    <2>1. Sel(S \cup {x}, K, d, t) = Sel(S, K, d, t)
      BY <1>3 DEF Sel
    <2> QED
      BY <1>1, <2>1, FS_AddElement
  <1> QED
    BY <1>2, <1>3

(* Words that are told count as they did while they waited. *)
LEMMA SelTold ==
  ASSUME NEW S, IsFiniteSet(S), NEW Q, IsFiniteSet(Q), NEW K, NEW d, NEW t
  PROVE  LET T == S \cup {Told(w) : w \in Q}
         IN /\ IsFiniteSet(T)
            /\ Cardinality(Sel(T, K, d, t))
                 <= Cardinality(Sel(S, K, d, t)) + Cardinality(Sel(Q, K, d, t))
  <1> DEFINE Im(P) == {Told(w) : w \in P}
             f(P)  == [w \in P |-> Told(w)]
  <1>1. ASSUME NEW P, IsFiniteSet(P)
        PROVE  IsFiniteSet(Im(P)) /\ Cardinality(Im(P)) <= Cardinality(P)
    <2>1. f(P) \in Surjection(P, Im(P))
      BY DEF Surjection
    <2> QED
      BY <1>1, <2>1, FS_Surjection
  <1>2. IsFiniteSet(S \cup Im(Q))
    BY <1>1, FS_Union
  <1> DEFINE A == Sel(S, K, d, t)
             B == Sel(Q, K, d, t)
  <1>3. Sel(S \cup Im(Q), K, d, t) = A \cup Im(B)
    BY DEF Sel, Told
  <1>4. IsFiniteSet(A) /\ IsFiniteSet(B) /\ Cardinality(A) \in Nat /\ Cardinality(B) \in Nat
    BY SelFinite
  <1>5. IsFiniteSet(Im(B)) /\ Cardinality(Im(B)) <= Cardinality(B) /\ Cardinality(Im(B)) \in Nat
    BY <1>1, <1>4, FS_CardinalityType
  <1>6. Cardinality(A \cup Im(B)) <= Cardinality(A) + Cardinality(B)
    <2>1. Cardinality(A \cup Im(B)) <= Cardinality(A) + Cardinality(Im(B))
      BY <1>4, <1>5, UnionBound
    <2>2. Cardinality(A \cup Im(B)) \in Nat
      BY <1>4, <1>5, UnionBound, FS_CardinalityType
    <2> HIDE DEF A, B, Im
    <2> QED
      BY <1>4, <1>5, <2>1, <2>2
  <1> QED
    BY <1>2, <1>3, <1>6

------------------------------------------------------------------------------
(* What the handlers make of a record. *)

LEMMA RolledFacts ==
  ASSUME NEW r, NEW older \in BOOLEAN, StateInv, RecordOK(r, now)
  PROVE  /\ RecordOK(Rolled(r, older), now)
         /\ Rolled(r, older).day = Day(now) /\ Rolled(r, older).queue = r.queue
         /\ Rolled(r, older).p <= r.p
         /\ Rolled(r, older).night = r.night /\ Rolled(r, older).count = r.count
         /\ Rolled(r, older).pending = r.pending
         /\ \/ r.day = Day(now) /\ Rolled(r, older) = r
            \/ /\ r.day < Day(now) /\ Rolled(r, older).sent = 0 /\ Rolled(r, older).streak = 0
               /\ Rolled(r, older).dreamt = FALSE
  <1>1. now \in 0..MaxNow /\ Day(now) \in Days /\ Day(now) \in Nat /\ r.day \in Nat
    BY DaysType, DayFacts, BoundsAssumption DEF StateInv, TypeOK, RecordOK, Record, Days
  <1>2. CASE r.day = Day(now)
    BY <1>1, <1>2 DEF Rolled, RecordOK, Record, Levels
  <1>3. CASE r.day # Day(now)
    <2> DEFINE p == IF older /\ r.p > 0 THEN r.p - 1 ELSE r.p
    <2>1. p \in Levels /\ p <= r.p
      BY DEF RecordOK, Record, Levels
    <2>2. Rolled(r, older) = [r EXCEPT !.day = Day(now), !.sent = 0, !.last = Never, !.streak = 0,
                               !.nightDone = FALSE, !.frozen = FALSE, !.dreamt = FALSE, !.p = p]
      BY <1>3 DEF Rolled
    <2>3. 0 \in 0..(CapBase + 1) /\ 0 <= CapBase /\ 0 \in 0..2 /\ FALSE \in BOOLEAN
      BY SettingsAssumption
    <2> HIDE DEF p
    <2> DEFINE q == Rolled(r, older)
    <2>4. r \in Record /\ Never \in {Never} \cup 0..MaxNow
      BY DEF RecordOK
    <2>5. /\ q.day = Day(now) /\ q.sent = 0 /\ q.last = Never /\ q.streak = 0 /\ q.p = p
          /\ q.dreamt = FALSE /\ q.queue = r.queue /\ q.night = r.night /\ q.count = r.count
          /\ q.pending = r.pending
      BY <2>2, <2>4 DEF Record
    <2>6. q \in Record
      BY <1>1, <2>1, <2>2, <2>3, <2>4 DEF Record
    <2> HIDE DEF q
    <2>7. RecordOK(q, now)
      BY <1>1, <2>3, <2>5, <2>6 DEF RecordOK
    <2> QED
      BY <1>1, <1>3, <2>1, <2>5, <2>7 DEF RecordOK, q
  <1> QED
    BY <1>2, <1>3

LEMMA DayEndFacts ==
  ASSUME StateInv
  PROVE  /\ DayEnd \in Nat /\ now < DayEnd /\ DayEnd <= MaxNow + 2 * DayLength + Horizon
         /\ ContactExpiry \in Nat /\ ContactExpiry <= MaxNow + 2 * DayLength + Horizon
  <1>1. /\ now \in Nat /\ now <= MaxNow /\ MaxNow \in Nat /\ DayLength \in Nat \ {0} /\ Horizon \in Nat
        /\ QuietStart \in 0..(DayLength - 1) /\ beat.ts \in 0..now
    BY ClockAssumption, BoundsAssumption DEF StateInv, TypeOK, BeatOK
  <1>2. /\ DayEnd = Day(now) * DayLength + DayLength /\ now < DayEnd /\ Day(now) * DayLength <= now
        /\ Day(now) * DayLength \in Nat
    BY <1>1, DayFacts DEF DayEnd
  <1>3. NextQuiet \in Nat
    BY <1>1, <1>2 DEF NextQuiet
  <1> QED
    BY <1>1, <1>2, <1>3 DEF ContactExpiry

(* The words that a beat makes. *)
LEMMA MakeFacts ==
  ASSUME NEW r, StateInv, RecordOK(r, now), NEW kind \in {"contact", "night", "concern", "dream"},
         NEW expires \in Nat, expires <= MaxNow + 2 * DayLength + Horizon
  PROVE  LET w == Make(kind, r, expires)
         IN /\ w \in Word /\ w.kind = kind /\ w.ts = beat.ts /\ w.day = beat.day /\ w.p = r.p
            /\ w.made = now /\ w.expires = expires
  <1>1. expires \in 0..(MaxNow + 2 * DayLength + Horizon)
    BY ClockAssumption, BoundsAssumption
  <1>2. /\ now \in 0..MaxNow /\ beat.ts \in 0..MaxNow /\ beat.day \in Days
    <2>1. now \in 0..MaxNow /\ Day(now) \in Days /\ Day(MaxNow) \in Nat
      BY DaysType DEF StateInv, TypeOK
    <2> QED
      BY <2>1, BoundsAssumption DEF StateInv, TypeOK, BeatOK, Days
  <1>3. r.p \in Levels /\ r.frozen \in BOOLEAN
    BY DEF RecordOK, Record
  <1> QED
    BY <1>1, <1>2, <1>3 DEF Make, Word

ThisNight == NightOf(beat.day, Minute(now))

LEMMA NightType ==
  ASSUME StateInv
  PROVE  ThisNight \in {NoDay} \cup Days /\ ThisNight \in {NoDay} \cup (-1..Day(MaxNow))
         /\ NoDay = -1
  <1>1. now \in 0..MaxNow /\ Day(now) \in Days /\ Day(MaxNow) \in Nat
    BY DaysType DEF StateInv, TypeOK
  <1>2. beat.day \in 0..Day(MaxNow)
    BY <1>1 DEF StateInv, BeatOK, Days
  <1> QED
    BY <1>1, <1>2 DEF ThisNight, NightOf, NoDay, Days

(* Of the record, the night, its count and the dream it armed may change.    *)
SameWords(q, r) ==
  /\ q.p = r.p /\ q.day = r.day /\ q.sent = r.sent /\ q.last = r.last /\ q.streak = r.streak
  /\ q.queue = r.queue /\ q.dreamt = r.dreamt

LEMMA DreamingFacts ==
  ASSUME NEW r, NEW above \in BOOLEAN, StateInv, RecordOK(r, now)
  PROVE  LET q == Dreaming(r, above)
         IN /\ RecordOK(q, now) /\ SameWords(q, r)
            /\ q.pending /\ ~r.pending => r.count >= 2
            /\ \/ q.night = r.night /\ q.count <= r.count
               \/ /\ above /\ Quiet(now) /\ q.night = ThisNight /\ q.count <= 2
                  /\ q.count <= (IF r.night = ThisNight THEN r.count ELSE 0) + 1
  <1> DEFINE count == IF r.night = ThisNight THEN r.count ELSE 0
             q     == Dreaming(r, above)
  <1>1. r \in Record /\ r.count \in 0..2
    BY DEF RecordOK, Record
  <1>2. CASE Quiet(now) /\ above
    <2>1. q = [r EXCEPT !.night = ThisNight, !.count = IF count < 2 THEN count + 1 ELSE 2]
      BY <1>2 DEF Dreaming, ThisNight
    <2>2. (IF count < 2 THEN count + 1 ELSE 2) \in 0..2
          /\ (IF count < 2 THEN count + 1 ELSE 2) <= count + 1
      BY <1>1
    <2> HIDE DEF q, count
    <2>3. /\ SameWords(q, r) /\ q.pending = r.pending /\ q.night = ThisNight
          /\ q.count = IF count < 2 THEN count + 1 ELSE 2
      BY <1>1, <2>1 DEF Record, SameWords
    <2>4. q \in Record
      BY <1>1, <2>1, <2>2, NightType DEF Record
    <2>5. RecordOK(q, now)
      BY <2>3, <2>4 DEF RecordOK, SameWords
    <2>6. ~(q.pending /\ ~r.pending)
      BY <2>3, Zenon
    <2>7. /\ above /\ Quiet(now) /\ q.night = ThisNight /\ q.count <= 2 /\ q.count <= count + 1
      BY <1>1, <1>2, <2>2, <2>3
    <2> QED
      BY <2>3, <2>5, <2>6, <2>7 DEF q, count
  <1>3. CASE ~(Quiet(now) /\ above) /\ ~Quiet(now) /\ r.count >= 2 /\ ~r.pending
    <2>1. q = [r EXCEPT !.pending = TRUE, !.count = 0]
      BY <1>3 DEF Dreaming
    <2> HIDE DEF q
    <2>2. SameWords(q, r) /\ q.night = r.night /\ q.count = 0
      BY <1>1, <2>1 DEF Record, SameWords
    <2>4. TRUE \in BOOLEAN /\ 0 \in 0..2
      OBVIOUS
    <2>5. q \in Record
      BY <1>1, <2>1, <2>4 DEF Record
    <2>3. RecordOK(q, now)
      BY <2>2, <2>5 DEF RecordOK, SameWords
    <2> QED
      BY <1>1, <1>3, <2>2, <2>3 DEF q
  <1>4. CASE ~(Quiet(now) /\ above) /\ ~(~Quiet(now) /\ r.count >= 2 /\ ~r.pending)
    <2>1. q = r
      BY <1>4 DEF Dreaming
    <2> QED
      BY <1>1, <2>1 DEF SameWords
  <1> QED
    BY <1>2, <1>3, <1>4

(* A dream is queued, or nothing happens. *)
LEMMA DreamtFacts ==
  ASSUME NEW r, StateInv, RecordOK(r, now)
  PROVE  LET q == Dreamt(r)
             w == Make("dream", r, DayEnd)
         IN /\ RecordOK(q, now)
            /\ q.night = r.night /\ q.count = r.count
            /\ \/ q = r
               \/ /\ r.pending /\ ~r.dreamt /\ q.dreamt /\ ~q.pending
                  /\ q.queue = r.queue \cup {w}
                  /\ q.p = r.p /\ q.day = r.day /\ q.sent = r.sent /\ q.last = r.last
                  /\ q.streak = r.streak
  <1> DEFINE q == Dreamt(r)
             w == Make("dream", r, DayEnd)
  <1>1. r \in Record
    BY DEF RecordOK
  <1>2. CASE ~DreamReady(r)
    BY <1>2 DEF Dreamt
  <1>3. CASE DreamReady(r)
    <2>1. q = [r EXCEPT !.pending = FALSE, !.dreamt = TRUE, !.queue = r.queue \cup {w}]
      BY <1>1, <1>3 DEF Dreamt, Record
    <2>2. w \in Word /\ w.ts = beat.ts
      BY DayEndFacts, MakeFacts
    <2> HIDE DEF q, w
    <2>3. /\ q.dreamt /\ ~q.pending /\ q.queue = r.queue \cup {w}
          /\ q.p = r.p /\ q.day = r.day /\ q.sent = r.sent /\ q.last = r.last
          /\ q.streak = r.streak /\ q.night = r.night /\ q.count = r.count
      BY <1>1, <2>1 DEF Record
    <2>4. r.queue \cup {w} \in SUBSET Word
      BY <1>1, <2>2 DEF Record
    <2>5. q \in Record
      BY <1>1, <2>1, <2>4 DEF Record
    <2>6. IsFiniteSet(r.queue \cup {w})
      BY FS_AddElement DEF RecordOK
    <2>7. beat.ts <= now
      BY DEF StateInv, BeatOK
    <2>8. RecordOK(q, now)
      BY <2>2, <2>3, <2>5, <2>6, <2>7 DEF RecordOK
    <2> QED
      BY <1>3, <2>3, <2>8 DEF q, w, DreamReady
  <1> QED
    BY <1>2, <1>3

(* A word of her own is queued, its slot reserved. *)
Added(r, kind, expires) ==
  [Reserved(r, kind) EXCEPT !.queue = @ \cup {Make(kind, r, expires)}]

LEMMA AddedFacts ==
  ASSUME NEW r, StateInv, RecordOK(r, now), GatesPass(r), NEW kind \in Own,
         NEW expires \in Nat, expires <= MaxNow + 2 * DayLength + Horizon
  PROVE  LET q == Added(r, kind, expires)
         IN /\ RecordOK(q, now)
            /\ q.queue = r.queue \cup {Make(kind, r, expires)}
            /\ q.p = r.p /\ q.day = r.day /\ q.sent = r.sent + 1 /\ q.last = beat.ts
            /\ q.streak = r.streak + 1
            /\ q.night = r.night /\ q.count = r.count /\ q.pending = r.pending
            /\ q.dreamt = r.dreamt
  <1> DEFINE q == Added(r, kind, expires)
             w == Make(kind, r, expires)
  <1>1. r \in Record /\ r.sent \in Nat /\ r.streak \in 0..2 /\ r.p \in Levels
    BY SettingsAssumption DEF RecordOK, Record
  <1>2. q = [r EXCEPT !.sent = r.sent + 1, !.last = beat.ts, !.streak = r.streak + 1,
                      !.nightDone = r.nightDone \/ kind = "night", !.queue = r.queue \cup {w}]
    BY <1>1 DEF Added, Reserved, Record
  <1>3. w \in Word /\ w.ts = beat.ts
    BY MakeFacts DEF Own
  <1>4. /\ r.sent + 1 \in 0..(CapBase + 1) /\ r.sent + 1 <= CapBase /\ r.streak + 1 \in 0..2
        /\ beat.ts \in 0..now /\ beat.ts \in 0..MaxNow
        /\ (r.nightDone \/ kind = "night") \in BOOLEAN
        /\ r.queue \cup {w} \in SUBSET Word
    <2>1. r.sent < Cap(r.p) /\ r.streak < 2
      BY DEF GatesPass
    <2>2. Cap(r.p) \in Nat /\ Cap(r.p) <= CapBase
      BY <1>1, CapType
    <2>3. beat.ts \in 0..now /\ now \in 0..MaxNow
      BY DEF StateInv, BeatOK, TypeOK
    <2> QED
      BY <1>1, <1>3, <2>1, <2>2, <2>3, SettingsAssumption, BoundsAssumption DEF Record
  <1>5. IsFiniteSet(r.queue \cup {w})
    BY FS_AddElement DEF RecordOK
  <1> HIDE DEF q, w
  <1>6. /\ q.queue = r.queue \cup {w} /\ q.p = r.p /\ q.day = r.day /\ q.sent = r.sent + 1
        /\ q.last = beat.ts /\ q.streak = r.streak + 1
        /\ q.night = r.night /\ q.count = r.count /\ q.pending = r.pending
        /\ q.dreamt = r.dreamt
    BY <1>1, <1>2 DEF Record
  <1>7. q \in Record
    BY <1>1, <1>2, <1>4 DEF Record
  <1>8. RecordOK(q, now)
    BY <1>3, <1>4, <1>5, <1>6, <1>7 DEF RecordOK
  <1> QED
    BY <1>6, <1>8 DEF q, w

------------------------------------------------------------------------------
(* Her own words are rationed. *)

LEMMA CountType ==
  ASSUME NEW r, NEW S, IsFiniteSet(S), IsFiniteSet(r.queue), NEW K, NEW d, NEW t
  PROVE  Count(r, S, K, d, t) \in Nat
  BY SelFinite DEF Count

(* The words of kind K that q and T have are among those of r and S, and no  *)
(* more of them.                                                             *)
Fewer(q, T, r, S, K) ==
  /\ \A w \in T \cup q.queue :
       w.kind \in K => \E v \in S \cup r.queue :
                         v.kind = w.kind /\ v.day = w.day /\ v.p = w.p /\ v.ts = w.ts
  /\ \A d, t : /\ Count(q, T, K, d, t) \in Nat /\ Count(r, S, K, d, t) \in Nat
               /\ Count(q, T, K, d, t) <= Count(r, S, K, d, t)

SameBook(q, r) == q.p = r.p /\ q.day = r.day /\ q.sent = r.sent /\ q.last = r.last /\ q.streak = r.streak

LEMMA FewerRationed ==
  ASSUME NEW r, NEW S, NEW q, NEW T, NEW h, NEW n, RecordOK(r, n), SpokenOK(S, n), Rationed(r, S, h),
         SameBook(q, r), Fewer(q, T, r, S, Own)
  PROVE  Rationed(q, T, h)
  <1>1. \A w \in Mine(q, T) : \E v \in Mine(r, S) :
           v.kind = w.kind /\ v.day = w.day /\ v.p = w.p /\ v.ts = w.ts
    BY DEF Mine, Fewer
  <1>2. \A d, t : /\ Count(q, T, Own, d, t) \in Nat /\ Count(r, S, Own, d, t) \in Nat
                  /\ Count(q, T, Own, d, t) <= Count(r, S, Own, d, t)
    BY DEF Fewer
  <1>3. /\ r.sent \in Int /\ r.streak \in Int /\ r.p \in Levels
        /\ \A p \in Levels : Cap(p) \in Nat
    BY CapType DEF RecordOK, Record
  <1>4. \A w \in Mine(q, T) : w.day <= q.day /\ (w.day = q.day => w.p = q.p /\ w.ts <= q.last)
    BY <1>1 DEF Rationed, SameBook
  <1>5. \A v, w \in Mine(q, T) : v.day = w.day /\ v.ts < w.ts => v.ts + Gap <= w.ts
    <2> SUFFICES ASSUME NEW v \in Mine(q, T), NEW w \in Mine(q, T), v.day = w.day, v.ts < w.ts
                 PROVE  v.ts + Gap <= w.ts
      OBVIOUS
    <2>1. PICK x \in Mine(r, S) : x.day = v.day /\ x.ts = v.ts
      BY <1>1
    <2>2. PICK y \in Mine(r, S) : y.day = w.day /\ y.ts = w.ts
      BY <1>1
    <2> QED
      BY <2>1, <2>2 DEF Rationed
  <1>6. /\ Count(q, T, Own, q.day, -1) <= q.sent /\ q.sent <= Cap(q.p)
        /\ Count(q, T, Own, q.day, h) <= q.streak
    BY <1>2, <1>3 DEF Rationed, SameBook
  <1>7. \A d \in Days : Count(q, T, Own, d, h) <= 2
    BY <1>2 DEF Rationed
  <1>8. \A w \in Mine(q, T) : Count(q, T, Own, w.day, -1) <= Cap(w.p)
    <2> SUFFICES ASSUME NEW w \in Mine(q, T) PROVE Count(q, T, Own, w.day, -1) <= Cap(w.p)
      OBVIOUS
    <2>1. PICK v \in Mine(r, S) : v.day = w.day /\ v.p = w.p
      BY <1>1
    <2>2. Count(r, S, Own, w.day, -1) <= Cap(w.p)
      BY <2>1 DEF Rationed
    <2>3. Cap(w.p) \in Int
      BY <1>3, <2>1 DEF Mine, RecordOK, Record, Word, SpokenOK
    <2> QED
      BY <1>2, <2>2, <2>3
  <1> QED
    BY <1>4, <1>5, <1>6, <1>7, <1>8 DEF Rationed

LEMMA FewerDreamed ==
  ASSUME NEW r, NEW S, NEW q, NEW T, Dreamed(r, S), q.day = r.day, q.dreamt = r.dreamt,
         Fewer(q, T, r, S, {"dream"})
  PROVE  Dreamed(q, T)
  <1>1. \A w \in T \cup q.queue : w.kind = "dream" => w.day <= q.day
    BY DEF Dreamed, Fewer
  <1>2. \A d, t : /\ Count(q, T, {"dream"}, d, t) \in Nat /\ Count(r, S, {"dream"}, d, t) \in Nat
                  /\ Count(q, T, {"dream"}, d, t) <= Count(r, S, {"dream"}, d, t)
    BY DEF Fewer
  <1>3. Count(q, T, {"dream"}, q.day, -1) <= IF q.dreamt THEN 1 ELSE 0
    BY <1>2 DEF Dreamed
  <1>4. \A d \in Days : Count(q, T, {"dream"}, d, -1) <= 1
    BY <1>2 DEF Dreamed
  <1> QED
    BY <1>1, <1>3, <1>4 DEF Dreamed

(* The same queue, or a part of it. *)
LEMMA SubqueueFewer ==
  ASSUME NEW r, NEW q, NEW S, NEW K, IsFiniteSet(S), IsFiniteSet(r.queue), q.queue \subseteq r.queue
  PROVE  Fewer(q, S, r, S, K)
  <1>1. IsFiniteSet(q.queue)
    BY FS_Subset
  <1>2. \A d, t : Cardinality(Sel(q.queue, K, d, t)) <= Cardinality(Sel(r.queue, K, d, t))
    BY SelSmaller
  <1>3. \A d, t : /\ Cardinality(Sel(q.queue, K, d, t)) \in Nat
                  /\ Cardinality(Sel(r.queue, K, d, t)) \in Nat
                  /\ Cardinality(Sel(S, K, d, t)) \in Nat
    BY <1>1, SelFinite
  <1> QED
    BY <1>2, <1>3 DEF Fewer, Count

(* A word of another kind does not count. *)
LEMMA OtherFewer ==
  ASSUME NEW r, NEW q, NEW x, NEW S, NEW K, IsFiniteSet(S), IsFiniteSet(r.queue),
         q.queue = r.queue \cup {x}, x.kind \notin K
  PROVE  Fewer(q, S, r, S, K)
  <1>1. \A d, t : Sel(q.queue, K, d, t) = Sel(r.queue, K, d, t)
    BY DEF Sel
  <1>2. \A d, t : Count(q, S, K, d, t) = Count(r, S, K, d, t) /\ Count(r, S, K, d, t) \in Nat
    BY <1>1, CountType DEF Count
  <1> QED
    BY <1>2 DEF Fewer

(* What is told leaves the queue. *)
LEMMA ToldFewer ==
  ASSUME NEW r, NEW q, NEW S, NEW Q, NEW K, IsFiniteSet(S), IsFiniteSet(r.queue), Q \subseteq r.queue,
         q.queue = {}
  PROVE  Fewer(q, S \cup {Told(w) : w \in Q}, r, S, K)
  <1> DEFINE T == S \cup {Told(w) : w \in Q}
  <1>1. IsFiniteSet(Q)
    BY FS_Subset
  <1>2. IsFiniteSet(T) /\ \A d, t : Cardinality(Sel(T, K, d, t))
                                     <= Cardinality(Sel(S, K, d, t)) + Cardinality(Sel(Q, K, d, t))
    BY <1>1, SelTold
  <1>3. \A w \in T \cup q.queue :
          w.kind \in K => \E v \in S \cup r.queue :
                            v.kind = w.kind /\ v.day = w.day /\ v.p = w.p /\ v.ts = w.ts
    BY DEF Told
  <1>4. \A d, t : /\ Cardinality(Sel(T, K, d, t)) \in Nat
                  /\ Cardinality(Sel(S, K, d, t)) \in Nat
                  /\ Cardinality(Sel(Q, K, d, t)) \in Nat
                  /\ Cardinality(Sel(r.queue, K, d, t)) \in Nat
                  /\ Cardinality(Sel(Q, K, d, t)) <= Cardinality(Sel(r.queue, K, d, t))
                  /\ Cardinality(Sel(q.queue, K, d, t)) = 0
    BY <1>1, <1>2, SelFinite, SelSmaller, SelNone
  <1> HIDE DEF T
  <1>5. \A d, t : /\ Count(q, T, K, d, t) \in Nat /\ Count(r, S, K, d, t) \in Nat
                  /\ Count(q, T, K, d, t) <= Count(r, S, K, d, t)
    BY <1>2, <1>4 DEF Count
  <1>6. Fewer(q, T, r, S, K)
    BY <1>3, <1>5 DEF Fewer
  <1> QED
    BY <1>6 DEF T

(* On a new day none of her words is of this day. *)
LEMMA RolledRationed ==
  ASSUME NEW r, NEW older \in BOOLEAN, NEW S, NEW h, StateInv, RecordOK(r, now), SpokenOK(S, now),
         Rationed(r, S, h)
  PROVE  Rationed(Rolled(r, older), S, h)
  <1> DEFINE q == Rolled(r, older)
  <1>1. RecordOK(q, now) /\ q.day = Day(now) /\ q.queue = r.queue
    BY RolledFacts
  <1> HIDE DEF q
  <1>2. CASE q = r
    BY <1>2 DEF q
  <1>3. CASE r.day < Day(now) /\ q.sent = 0 /\ q.streak = 0
    <2>1. r.day < Day(now) /\ q.sent = 0 /\ q.streak = 0
      BY <1>3
    <2>2. Mine(q, S) = Mine(r, S) /\ \A d, t : Count(q, S, Own, d, t) = Count(r, S, Own, d, t)
      BY <1>1 DEF Mine, Count
    <2>3. r.day \in Nat /\ Day(now) \in Nat
      BY DayFacts DEF StateInv, TypeOK, RecordOK, Record, Days
    <2>4. \A w \in Mine(r, S) : w.day \in Nat /\ w.day <= r.day
      BY DEF Rationed, Mine, RecordOK, Record, Word, SpokenOK, Days
    <2>5. \A w \in Mine(r, S) : w.day # Day(now) /\ w.day <= Day(now)
      BY <2>1, <2>3, <2>4
    <2>6. \A t : Count(q, S, Own, q.day, t) = 0
      <3> TAKE t
      <3>1. Cardinality(Sel(S, Own, q.day, t)) = 0
        BY <1>1, <2>5, SelNone DEF Mine
      <3>2. Cardinality(Sel(q.queue, Own, q.day, t)) = 0
        BY <1>1, <2>5, SelNone DEF Mine
      <3> QED
        BY <3>1, <3>2 DEF Count
    <2>7. q.sent <= Cap(q.p)
      BY <1>1, <2>1, CapType DEF RecordOK, Record
    <2>8. /\ \A w \in Mine(q, S) : w.day <= q.day /\ w.day # q.day
          /\ \A v, w \in Mine(q, S) : v.day = w.day /\ v.ts < w.ts => v.ts + Gap <= w.ts
          /\ \A w \in Mine(q, S) : Count(q, S, Own, w.day, -1) <= Cap(w.p)
          /\ \A d \in Days : Count(q, S, Own, d, h) <= 2
      BY <1>1, <2>2, <2>5 DEF Rationed
    <2>9. /\ Count(q, S, Own, q.day, -1) = 0 /\ Count(q, S, Own, q.day, h) = 0
      BY <2>6, Zenon
    <2>10. Rationed(q, S, h)
      BY <2>1, <2>7, <2>8, <2>9 DEF Rationed
    <2> QED
      BY <2>10 DEF q
  <1>4. q = r \/ (r.day < Day(now) /\ q.sent = 0 /\ q.streak = 0)
    BY RolledFacts DEF q
  <1> QED
    BY <1>2, <1>3, <1>4

(* The user's words answer everything she said. *)
LEMMA AnsweredRationed ==
  ASSUME NEW r, NEW q, NEW S, NEW h, StateInv, RecordOK(r, now), RecordOK(q, now), SpokenOK(S, now),
         Rationed(r, S, h),
         q.p = r.p, q.day = r.day, q.sent = r.sent, q.last = r.last, q.queue = r.queue
  PROVE  Rationed(q, S, now)
  <1>1. Mine(q, S) = Mine(r, S) /\ \A d, t : Count(q, S, Own, d, t) = Count(r, S, Own, d, t)
    BY DEF Mine, Count
  <1>2. \A d : Count(q, S, Own, d, now) = 0
    <2> TAKE d
    <2>1. now \in Nat /\ \A w \in S \cup q.queue : w.ts <= now /\ w.ts \in Nat
      BY BoundsAssumption DEF StateInv, TypeOK, RecordOK, Record, Word, SpokenOK
    <2>2. \A w \in S \cup q.queue : ~(w.ts > now)
      BY <2>1
    <2>3. Cardinality(Sel(S, Own, d, now)) = 0
      BY <2>2, SelNone
    <2>4. Cardinality(Sel(q.queue, Own, d, now)) = 0
      BY <2>2, SelNone
    <2> QED
      BY <2>3, <2>4 DEF Count
  <1>3. q.streak \in 0..2
    BY DEF RecordOK, Record
  <1> QED
    BY <1>1, <1>2, <1>3 DEF Rationed

(* The gates let a word through only where the record has room for it.       *)
LEMMA AddedRationed ==
  ASSUME NEW r, NEW S, NEW h, StateInv, RecordOK(r, now), SpokenOK(S, now), Rationed(r, S, h),
         GatesPass(r), beat.day = r.day, NEW kind \in Own,
         NEW expires \in Nat, expires <= MaxNow + 2 * DayLength + Horizon
  PROVE  Rationed(Added(r, kind, expires), S, h)
  <1> DEFINE q == Added(r, kind, expires)
             x == Make(kind, r, expires)
  <1>1. /\ RecordOK(q, now) /\ q.queue = r.queue \cup {x}
        /\ q.p = r.p /\ q.day = r.day /\ q.sent = r.sent + 1 /\ q.last = beat.ts
        /\ q.streak = r.streak + 1
    BY AddedFacts
  <1>2. x.kind \in Own /\ x.ts = beat.ts /\ x.day = r.day /\ x.p = r.p
    BY MakeFacts DEF Own
  <1>3. r.streak < 2 /\ r.sent < Cap(r.p) /\ beat.ts - r.last >= Gap
    BY DEF GatesPass
  <1> HIDE DEF q, x
  <1>4. /\ r.sent \in Nat /\ r.streak \in 0..2 /\ r.p \in Levels /\ Cap(r.p) \in Nat /\ r.day \in Days
        /\ beat.ts \in Nat /\ Gap \in Nat /\ r.last \in Int
    BY CapType, ClockAssumption DEF RecordOK, Record, StateInv, BeatOK, Never
  <1>5. \A d, t : /\ Count(r, S, Own, d, t) \in Nat /\ Count(q, S, Own, d, t) \in Nat
                  /\ Count(q, S, Own, d, t) <= Count(r, S, Own, d, t) + 1
                  /\ d # r.day => Count(q, S, Own, d, t) = Count(r, S, Own, d, t)
    <2> TAKE d, t
    <2>1. IsFiniteSet(S) /\ IsFiniteSet(r.queue) /\ IsFiniteSet(q.queue)
      BY <1>1 DEF RecordOK, SpokenOK
    <2>2. /\ Cardinality(Sel(q.queue, Own, d, t)) <= Cardinality(Sel(r.queue, Own, d, t)) + 1
          /\ d # r.day => Sel(q.queue, Own, d, t) = Sel(r.queue, Own, d, t)
      BY <1>1, <1>2, <2>1, SelMore
    <2>3. /\ Cardinality(Sel(q.queue, Own, d, t)) \in Nat /\ Cardinality(Sel(r.queue, Own, d, t)) \in Nat
          /\ Cardinality(Sel(S, Own, d, t)) \in Nat
      BY <2>1, SelFinite
    <2> QED
      BY <2>2, <2>3 DEF Count
  <1>6. Mine(q, S) = Mine(r, S) \cup {x}
    BY <1>1, <1>2 DEF Mine
  <1>7. \A w \in Mine(r, S) : /\ w.day <= r.day /\ (w.day = r.day => w.p = r.p /\ w.ts <= r.last)
                              /\ w.ts \in Nat /\ w.day \in Days /\ w.p \in Levels
    BY DEF Rationed, Mine, RecordOK, Record, Word, SpokenOK
  <1>8. \A w \in Mine(r, S) : w.day = r.day => w.ts + Gap <= beat.ts /\ w.ts <= beat.ts
    BY <1>3, <1>4, <1>7
  <1>9. \A w \in Mine(q, S) : w.day <= q.day /\ (w.day = q.day => w.p = q.p /\ w.ts <= q.last)
    <2>1. r.day <= r.day
      BY <1>4 DEF Days
    <2> QED
      BY <1>1, <1>2, <1>4, <1>6, <1>7, <1>8, <2>1
  <1>10. \A v, w \in Mine(q, S) : v.day = w.day /\ v.ts < w.ts => v.ts + Gap <= w.ts
    <2> SUFFICES ASSUME NEW v \in Mine(q, S), NEW w \in Mine(q, S), v.day = w.day, v.ts < w.ts
                 PROVE  v.ts + Gap <= w.ts
      OBVIOUS
    <2>1. CASE v \in Mine(r, S) /\ w \in Mine(r, S)
      BY <2>1 DEF Rationed
    <2>2. CASE w = x /\ v \in Mine(r, S)
      BY <1>2, <1>8, <2>2
    <2>3. CASE v = x /\ w \in Mine(r, S)
      BY <1>2, <1>4, <1>7, <1>8, <2>3
    <2>4. CASE v = x /\ w = x
      BY <1>2, <1>4, <2>4
    <2> QED
      BY <1>6, <2>1, <2>2, <2>3, <2>4
  <1>11. Count(r, S, Own, r.day, -1) <= r.sent /\ Count(r, S, Own, r.day, h) <= r.streak
    BY DEF Rationed
  <1>12. /\ Count(q, S, Own, q.day, -1) <= q.sent /\ q.sent <= Cap(q.p)
         /\ Count(q, S, Own, q.day, h) <= q.streak
    <2>1. /\ Count(r, S, Own, r.day, -1) \in Nat /\ Count(q, S, Own, r.day, -1) \in Nat
          /\ Count(q, S, Own, r.day, -1) <= Count(r, S, Own, r.day, -1) + 1
          /\ Count(r, S, Own, r.day, h) \in Nat /\ Count(q, S, Own, r.day, h) \in Nat
          /\ Count(q, S, Own, r.day, h) <= Count(r, S, Own, r.day, h) + 1
      BY <1>5, Zenon
    <2> QED
      BY <1>1, <1>3, <1>4, <1>11, <2>1
  <1>13. \A w \in Mine(q, S) : Count(q, S, Own, w.day, -1) <= Cap(w.p)
    <2> SUFFICES ASSUME NEW w \in Mine(q, S) PROVE Count(q, S, Own, w.day, -1) <= Cap(w.p)
      OBVIOUS
    <2>1. CASE w.day = r.day
      <3>1. w.p = r.p
        BY <1>2, <1>6, <1>7, <2>1
      <3>2. Count(q, S, Own, r.day, -1) \in Nat
        BY <1>5, Zenon
      <3>3. Count(q, S, Own, r.day, -1) <= Cap(r.p)
        BY <1>1, <1>4, <1>12, <3>2
      <3> QED
        BY <2>1, <3>1, <3>3
    <2>2. CASE w.day # r.day
      <3>1. w \in Mine(r, S)
        BY <1>2, <1>6, <2>2
      <3>2. Count(q, S, Own, w.day, -1) = Count(r, S, Own, w.day, -1)
        BY <1>5, <2>2, Zenon
      <3>3. Count(r, S, Own, w.day, -1) <= Cap(w.p)
        BY <3>1, Zenon DEF Rationed
      <3> QED
        BY <3>2, <3>3
    <2> QED
      BY <2>1, <2>2
  <1>14. \A d \in Days : Count(q, S, Own, d, h) <= 2
    <2> SUFFICES ASSUME NEW d \in Days PROVE Count(q, S, Own, d, h) <= 2
      OBVIOUS
    <2>1. Count(r, S, Own, d, h) <= 2
      BY Zenon DEF Rationed
    <2>2. Count(q, S, Own, d, h) \in Nat
      BY <1>5, Zenon
    <2>3. CASE d = r.day
      BY <1>1, <1>3, <1>4, <1>12, <2>2, <2>3
    <2>4. CASE d # r.day
      <3>1. Count(q, S, Own, d, h) = Count(r, S, Own, d, h)
        BY <1>5, <2>4, Zenon
      <3> QED
        BY <2>1, <3>1
    <2> QED
      BY <2>3, <2>4
  <1>15. Rationed(q, S, h)
    BY <1>9, <1>10, <1>12, <1>13, <1>14 DEF Rationed
  <1> QED
    BY <1>15 DEF q

------------------------------------------------------------------------------
(* A day has one dream. *)

LEMMA RolledDreamed ==
  ASSUME NEW r, NEW older \in BOOLEAN, NEW S, StateInv, RecordOK(r, now), SpokenOK(S, now),
         Dreamed(r, S)
  PROVE  Dreamed(Rolled(r, older), S)
  <1> DEFINE q == Rolled(r, older)
  <1>1. /\ q.day = Day(now) /\ q.queue = r.queue
        /\ q = r \/ (r.day < Day(now) /\ q.dreamt = FALSE)
    BY RolledFacts
  <1> HIDE DEF q
  <1>2. CASE q = r
    BY <1>2 DEF q
  <1>3. CASE r.day < Day(now) /\ q.dreamt = FALSE
    <2>1. r.day \in Nat /\ Day(now) \in Nat
      BY DayFacts, BoundsAssumption DEF StateInv, TypeOK, RecordOK, Record, Days
    <2>2. \A w \in S \cup r.queue : w.kind = "dream" => w.day <= r.day /\ w.day \in Nat
      BY DEF Dreamed, RecordOK, Record, Word, SpokenOK, Days
    <2>3. \A w \in S \cup r.queue : w.kind = "dream" => w.day <= q.day /\ w.day # q.day
      BY <1>1, <1>3, <2>1, <2>2
    <2>4. Cardinality(Sel(S, {"dream"}, q.day, -1)) = 0
      BY <2>3, SelNone
    <2>5. Cardinality(Sel(q.queue, {"dream"}, q.day, -1)) = 0
      BY <1>1, <2>3, SelNone
    <2>6. \A d \in Days : Count(q, S, {"dream"}, d, -1) <= 1
      BY <1>1 DEF Dreamed, Count
    <2>7. Dreamed(q, S)
      BY <1>1, <1>3, <2>3, <2>4, <2>5, <2>6 DEF Dreamed, Count
    <2> QED
      BY <2>7 DEF q
  <1> QED
    BY <1>1, <1>2, <1>3

LEMMA DreamtDreamed ==
  ASSUME NEW r, NEW S, StateInv, RecordOK(r, now), SpokenOK(S, now), Dreamed(r, S), beat.day = r.day
  PROVE  Dreamed(Dreamt(r), S)
  <1> DEFINE q == Dreamt(r)
             x == Make("dream", r, DayEnd)
             D == {"dream"}
  <1>1. x.kind = "dream" /\ x.day = r.day
    BY DayEndFacts, MakeFacts
  <1>2. /\ RecordOK(q, now)
        /\ q = r \/ (~r.dreamt /\ q.dreamt /\ q.queue = r.queue \cup {x} /\ q.day = r.day)
    BY DreamtFacts
  <1> HIDE DEF q, x
  <1>3. CASE q = r
    BY <1>3 DEF q
  <1>4. CASE ~r.dreamt /\ q.dreamt /\ q.queue = r.queue \cup {x} /\ q.day = r.day
    <2>1. IsFiniteSet(S) /\ IsFiniteSet(r.queue) /\ IsFiniteSet(q.queue) /\ r.day \in Days
      BY <1>2 DEF RecordOK, SpokenOK, Record
    <2>2. \A d, t : /\ Count(r, S, D, d, t) \in Nat /\ Count(q, S, D, d, t) \in Nat
                    /\ Count(q, S, D, d, t) <= Count(r, S, D, d, t) + 1
                    /\ d # r.day => Count(q, S, D, d, t) = Count(r, S, D, d, t)
      <3> TAKE d, t
      <3>1. /\ Cardinality(Sel(q.queue, D, d, t)) <= Cardinality(Sel(r.queue, D, d, t)) + 1
            /\ d # r.day => Sel(q.queue, D, d, t) = Sel(r.queue, D, d, t)
        BY <1>1, <1>4, <2>1, SelMore
      <3>2. /\ Cardinality(Sel(q.queue, D, d, t)) \in Nat /\ Cardinality(Sel(r.queue, D, d, t)) \in Nat
            /\ Cardinality(Sel(S, D, d, t)) \in Nat
        BY <2>1, SelFinite
      <3> QED
        BY <3>1, <3>2 DEF Count
    <2>3. Count(r, S, D, r.day, -1) <= 0
      BY <1>4 DEF Dreamed
    <2>4. Count(q, S, D, r.day, -1) <= 1
      BY <2>2, <2>3
    <2>5. \A d \in Days : Count(q, S, D, d, -1) <= 1
      BY <2>2, <2>4 DEF Dreamed
    <2>6. \A w \in S \cup q.queue : w.kind = "dream" => w.day <= q.day
      BY <1>1, <1>4, <2>1 DEF Dreamed, Days
    <2>7. Dreamed(q, S)
      BY <1>4, <2>4, <2>5, <2>6 DEF Dreamed
    <2> QED
      BY <2>7 DEF q
  <1> QED
    BY <1>2, <1>3, <1>4

------------------------------------------------------------------------------
(* All that is known of a record, when the words S were told, the user spoke *)
(* last at h, the beats o were above the threshold, and it is n.             *)
Good(r, S, h, o, n) ==
  RecordOK(r, n) /\ Rationed(r, S, h) /\ Dreamed(r, S) /\ r.count <= o[r.night]

Here(r) == Good(r, spoken, heard, over, now)

HInv == StateInv /\ Here(mem) /\ Here(disk)

LEMMA GoodSame ==
  ASSUME NEW r, NEW q, StateInv, Here(r), RecordOK(q, now), SameBook(q, r), q.queue \subseteq r.queue,
         q.dreamt = r.dreamt, q.night = r.night, q.count = r.count
  PROVE  Here(q)
  <1>1. \A K : Fewer(q, spoken, r, spoken, K)
    BY SubqueueFewer DEF Here, Good, StateInv, SpokenOK, RecordOK
  <1>2. Rationed(q, spoken, heard)
    BY <1>1, FewerRationed DEF Here, Good, StateInv
  <1>3. Dreamed(q, spoken)
    BY <1>1, FewerDreamed DEF Here, Good, SameBook
  <1> QED
    BY <1>2, <1>3 DEF Here, Good

LEMMA RolledGood ==
  ASSUME NEW r, NEW older \in BOOLEAN, StateInv, Here(r)
  PROVE  Here(Rolled(r, older))
  <1> DEFINE q == Rolled(r, older)
  <1>1. RecordOK(q, now) /\ q.night = r.night /\ q.count = r.count
    BY RolledFacts DEF Here, Good
  <1>2. Rationed(q, spoken, heard)
    BY RolledRationed DEF Here, Good, StateInv
  <1>3. Dreamed(q, spoken)
    BY RolledDreamed DEF Here, Good, StateInv
  <1> HIDE DEF q
  <1>4. Here(q)
    BY <1>1, <1>2, <1>3 DEF Here, Good
  <1> QED
    BY <1>4 DEF q

LEMMA AddedGood ==
  ASSUME NEW r, StateInv, Here(r), GatesPass(r), beat.day = r.day, NEW kind \in Own,
         NEW expires \in Nat, expires <= MaxNow + 2 * DayLength + Horizon
  PROVE  Here(Added(r, kind, expires)) /\ Added(r, kind, expires).day = r.day
         /\ Added(r, kind, expires).p = r.p
  <1> DEFINE q == Added(r, kind, expires)
             x == Make(kind, r, expires)
  <1>1. /\ RecordOK(q, now) /\ q.queue = r.queue \cup {x} /\ q.day = r.day /\ q.p = r.p
        /\ q.night = r.night /\ q.count = r.count /\ q.dreamt = r.dreamt
    BY AddedFacts DEF Here, Good
  <1>2. x.kind \notin {"dream"}
    BY MakeFacts DEF Own, Here, Good
  <1>3. Rationed(q, spoken, heard)
    BY AddedRationed DEF Here, Good, StateInv
  <1> HIDE DEF q, x
  <1>4. Fewer(q, spoken, r, spoken, {"dream"})
    BY <1>1, <1>2, OtherFewer DEF Here, Good, RecordOK, StateInv, SpokenOK
  <1>5. Dreamed(q, spoken)
    BY <1>1, <1>4, FewerDreamed DEF Here, Good
  <1>6. Here(q)
    BY <1>1, <1>3, <1>5 DEF Here, Good
  <1> QED
    BY <1>1, <1>6 DEF q

(* Time goes on, and beats of the night are added. *)
LEMMA GoodLater ==
  ASSUME NEW r, NEW S, NEW h, NEW o, NEW n, NEW o2, NEW n2 \in 0..MaxNow, Good(r, S, h, o, n),
         n \in 0..MaxNow, n <= n2, o \in [{NoDay} \cup Days -> 0..2], o2 \in [{NoDay} \cup Days -> 0..2],
         \A x \in {NoDay} \cup Days : o[x] <= o2[x]
  PROVE  Good(r, S, h, o2, n2)
  <1>1. r \in Record /\ r.night \in {NoDay} \cup Days /\ r.count \in 0..2 /\ r.day \in Nat
    BY DEF Good, RecordOK, Record, Days, NoDay
  <1>2. r.count <= o2[r.night]
    BY <1>1 DEF Good
  <1>3. Day(n) <= Day(n2) /\ Day(n) \in Nat /\ Day(n2) \in Nat
    BY DayMonotone
  <1>4. \A w \in r.queue : w.ts \in Nat
    BY BoundsAssumption DEF Good, RecordOK, Record, Word
  <1>5. RecordOK(r, n2)
    BY <1>1, <1>3, <1>4 DEF Good, RecordOK
  <1> QED
    BY <1>2, <1>5 DEF Good

------------------------------------------------------------------------------
(* The steps. *)

(* What a step has to show of the variables besides the two records. *)
Stepped ==
  /\ now' \in 0..MaxNow /\ SpokenOK(spoken', now') /\ BeatOK'
  /\ over' \in [{NoDay} \cup Days -> 0..2]
  /\ disk'.day <= mem'.day /\ mem'.p <= disk'.p
  /\ reach' \in {NoDay} \cup Days
  /\ pc' \in {"idle", "submit", "tick", "shadow"}
  /\ heard' \in {Never} \cup 0..now'
  /\ crashes' \in 0..MaxCrashes

LEMMA HAssembled ==
  ASSUME Stepped, Good(mem', spoken', heard', over', now'), Good(disk', spoken', heard', over', now')
  PROVE  HInv'
  <1>1. RecordOK(mem', now') /\ RecordOK(disk', now')
    BY DEF Good
  <1>2. ASSUME NEW r, RecordOK(r, now')
        PROVE  /\ r.p \in Levels /\ r.day \in Days
               /\ r.sent \in 0..CapBase /\ r.streak \in 0..2 /\ r.count \in 0..2
               /\ r.last \in {Never} \cup 0..now'
               /\ r.until \in 0..MaxNow
               /\ \A w \in r.queue : w \in Word /\ w.ts <= now'
               /\ r.day <= Day(now')
    BY <1>2, SettingsAssumption DEF RecordOK, Record
  <1>3. \A r \in {mem', disk'} :
               /\ r.p \in Levels /\ r.day \in Days
               /\ r.sent \in 0..CapBase /\ r.streak \in 0..2 /\ r.count \in 0..2
               /\ r.last \in {Never} \cup 0..now'
               /\ r.until \in 0..MaxNow
               /\ \A w \in r.queue : w \in Word /\ w.ts <= now'
    BY <1>1, <1>2
  <1>4. mem'.day <= Day(now')
    BY <1>1, <1>2
  <1>5. TypeOK'
    BY <1>3, <1>4 DEF TypeOK, Stepped, Day
  <1>6. StateInv'
    BY <1>1, <1>5 DEF StateInv, Stepped
  <1> QED
    BY <1>6 DEF HInv, Here

(* What HInv says of the variables, for the steps that leave them alone. *)
LEMMA Standing ==
  ASSUME HInv
  PROVE  /\ StateInv /\ Here(mem) /\ Here(disk) /\ RecordOK(mem, now) /\ RecordOK(disk, now)
         /\ now \in 0..MaxNow /\ now \in Nat /\ SpokenOK(spoken, now) /\ BeatOK
         /\ Day(now) \in Days /\ Day(now) \in Nat
         /\ over \in [{NoDay} \cup Days -> 0..2]
         /\ disk.day <= mem.day /\ mem.p <= disk.p /\ mem.day <= Day(now)
         /\ mem.p \in Levels /\ disk.p \in Levels /\ mem.day \in Days /\ disk.day \in Days
         /\ reach \in {NoDay} \cup Days
         /\ pc \in {"idle", "submit", "tick", "shadow"}
         /\ heard \in {Never} \cup 0..now
         /\ crashes \in 0..MaxCrashes
         /\ beat.ts \in 0..now /\ beat.day \in 0..Day(now) /\ beat.day \in Days
         /\ beat.quiet \in BOOLEAN /\ beat.window \in BOOLEAN
  <1>1. StateInv /\ Here(mem) /\ Here(disk) /\ TypeOK
    BY DEF HInv, StateInv
  <1>2. /\ now \in 0..MaxNow /\ now \in Nat /\ Day(now) \in Days /\ Day(now) \in Nat
        /\ Day(MaxNow) \in Nat
    BY <1>1, DaysType, BoundsAssumption DEF TypeOK, Days
  <1>3. /\ RecordOK(mem, now) /\ RecordOK(disk, now) /\ SpokenOK(spoken, now) /\ BeatOK
        /\ over \in [{NoDay} \cup Days -> 0..2]
    BY <1>1 DEF StateInv
  <1>4. /\ disk.day <= mem.day /\ mem.p <= disk.p /\ mem.day <= Day(now)
        /\ mem.p \in Levels /\ disk.p \in Levels /\ mem.day \in Days /\ disk.day \in Days
        /\ reach \in {NoDay} \cup Days
        /\ pc \in {"idle", "submit", "tick", "shadow"}
        /\ heard \in {Never} \cup 0..now
        /\ crashes \in 0..MaxCrashes
    BY <1>1 DEF TypeOK
  <1>5. /\ beat.ts \in 0..now /\ beat.day \in 0..Day(now)
        /\ beat.quiet \in BOOLEAN /\ beat.window \in BOOLEAN
    BY <1>3 DEF BeatOK
  <1>6. beat.day \in Days
    BY <1>2, <1>5 DEF Days
  <1> QED
    BY <1>1, <1>2, <1>3, <1>4, <1>5, <1>6

(* Between two handlers no beat is in progress. *)
LEMMA BeatEnds ==
  ASSUME beat' = NoBeat, pc' = "idle", now' \in Nat
  PROVE  BeatOK'
  <1>1. /\ beat' \in [ts : Nat, day : Nat, quiet : BOOLEAN, window : BOOLEAN]
        /\ beat'.ts = 0 /\ beat'.day = 0
        /\ beat'.quiet \in BOOLEAN /\ beat'.window \in BOOLEAN
    BY DEF NoBeat
  <1>2. Day(now') \in Nat
    BY DayMonotone
  <1>3. beat'.ts \in 0..now' /\ beat'.day \in 0..Day(now')
    BY <1>1, <1>2
  <1> QED
    BY <1>1, <1>3, Zenon DEF BeatOK, Day

(* A save of a good record. *)
LEMMA PersistKeeps ==
  ASSUME HInv, NEW q, Here(q), Persist(q), UNCHANGED <<spoken, heard, over, now, crashes>>,
         BeatOK', reach' \in {NoDay} \cup Days, pc' \in {"idle", "submit", "tick", "shadow"}
  PROVE  HInv'
  <1>1. mem' = q /\ disk' = q
    BY DEF Persist
  <1>2. q.day \in Int /\ q.p \in Int
    BY DEF Here, Good, RecordOK, Record, Days, Levels
  <1>3. /\ now' \in 0..MaxNow /\ SpokenOK(spoken', now') /\ over' \in [{NoDay} \cup Days -> 0..2]
        /\ heard' \in {Never} \cup 0..now' /\ crashes' \in 0..MaxCrashes
    BY Standing
  <1>4. Stepped
    BY <1>1, <1>2, <1>3 DEF Stepped
  <1>5. Good(mem', spoken', heard', over', now') /\ Good(disk', spoken', heard', over', now')
    BY <1>1 DEF Here
  <1> QED
    BY <1>4, <1>5, HAssembled

LEMMA AnsweredGood ==
  ASSUME NEW r, NEW q, StateInv, Here(r), RecordOK(q, now),
         q.p = r.p, q.day = r.day, q.sent = r.sent, q.last = r.last, q.queue = r.queue,
         q.dreamt = r.dreamt, q.night = r.night, q.count = r.count
  PROVE  Good(q, spoken, now, over, now)
  <1>1. RecordOK(r, now) /\ SpokenOK(spoken, now) /\ Rationed(r, spoken, heard)
    BY DEF Here, Good, StateInv
  <1>2. Rationed(q, spoken, now)
    BY <1>1, AnsweredRationed
  <1>3. Fewer(q, spoken, r, spoken, {"dream"})
    BY <1>1, SubqueueFewer DEF SpokenOK, RecordOK
  <1>4. Dreamed(q, spoken)
    BY <1>3, FewerDreamed DEF Here, Good
  <1> QED
    BY <1>2, <1>4 DEF Here, Good

LEMMA SubmitStartKeeps ==
  ASSUME HInv, NEW older \in BOOLEAN, SubmitStart(older)
  PROVE  HInv'
  <1> DEFINE r == Rolled(mem, older)
             q == [r EXCEPT !.streak = 0]
  <1>1. StateInv /\ Here(mem) /\ Here(disk) /\ RecordOK(mem, now) /\ RecordOK(disk, now)
    BY Standing
  <1>2. Here(r) /\ RecordOK(r, now) /\ r.day = Day(now) /\ r.p <= mem.p /\ r.p \in Levels
    BY <1>1, RolledFacts, RolledGood DEF RecordOK, Record
  <1>3. mem' = q /\ disk' = disk /\ heard' = now /\ UNCHANGED <<reach, spoken, over, now, crashes>>
        /\ pc' = "submit" /\ beat' = [NoBeat EXCEPT !.day = Day(now)]
    BY DEF SubmitStart
  <1> HIDE DEF r
  <1>4. /\ q.p = r.p /\ q.day = r.day /\ q.sent = r.sent /\ q.last = r.last /\ q.queue = r.queue
        /\ q.dreamt = r.dreamt /\ q.night = r.night /\ q.count = r.count /\ RecordOK(q, now)
    <2>1. r \in Record /\ 0 \in 0..2
      BY <1>2 DEF RecordOK
    <2>2. /\ q.p = r.p /\ q.day = r.day /\ q.sent = r.sent /\ q.last = r.last /\ q.queue = r.queue
          /\ q.dreamt = r.dreamt /\ q.night = r.night /\ q.count = r.count /\ q \in Record
      BY <2>1 DEF Record
    <2> QED
      BY <1>2, <2>2 DEF RecordOK
  <1> HIDE DEF q
  <1>5. Good(q, spoken, now, over, now)
    BY <1>1, <1>2, <1>4, AnsweredGood
  <1>6. Good(disk, spoken, now, over, now)
    BY <1>1, AnsweredGood
  <1>7. BeatOK'
    <2>1. beat'.ts = 0 /\ beat'.day = Day(now) /\ beat'.quiet = FALSE /\ beat'.window = FALSE
      BY <1>3 DEF NoBeat
    <2>2. now \in Nat /\ Day(now) \in Nat /\ Day(now') = Day(now)
      BY <1>3, Standing
    <2>3. beat'.ts \in 0..now' /\ beat'.day \in 0..Day(now')
      BY <1>3, <2>1, <2>2
    <2>4. pc' \notin {"tick", "shadow"}
      BY <1>3
    <2>5. beat' \in [ts : Nat, day : Nat, quiet : BOOLEAN, window : BOOLEAN]
      BY <1>3, <2>2 DEF NoBeat
    <2> QED
      BY <2>1, <2>3, <2>4, <2>5, Zenon DEF BeatOK, Day
  <1>8. Stepped
    <2>1. /\ now' \in 0..MaxNow /\ SpokenOK(spoken', now') /\ over' \in [{NoDay} \cup Days -> 0..2]
          /\ heard' \in {Never} \cup 0..now' /\ crashes' \in 0..MaxCrashes
          /\ reach' \in {NoDay} \cup Days /\ pc' \in {"idle", "submit", "tick", "shadow"}
      BY <1>3, Standing
    <2>2. disk'.day <= mem'.day /\ mem'.p <= disk'.p
      <3>1. /\ disk.day <= mem.day /\ mem.p <= disk.p /\ mem.day <= Day(now) /\ Day(now) \in Int
            /\ mem.p \in Int /\ disk.p \in Int /\ mem.day \in Int /\ disk.day \in Int /\ r.p \in Int
        BY <1>2, Standing DEF Levels, Days
      <3> QED
        BY <1>2, <1>3, <1>4, <3>1
    <2> QED
      BY <1>7, <2>1, <2>2 DEF Stepped
  <1> QED
    BY <1>3, <1>5, <1>6, <1>8, HAssembled

LEMMA SubmitDoneKeeps ==
  ASSUME HInv, NEW reachOut \in BOOLEAN, SubmitDone(reachOut)
  PROVE  HInv'
  <1>1. /\ Persist(mem) /\ UNCHANGED <<spoken, heard, over, now, crashes>>
        /\ pc' = "idle" /\ beat' = NoBeat
        /\ reach' = beat.day \/ reach' = reach
    BY DEF SubmitDone
  <1>2. Here(mem) /\ reach' \in {NoDay} \cup Days /\ now' \in Nat
    BY <1>1, Standing
  <1>3. BeatOK'
    BY <1>1, <1>2, BeatEnds
  <1> QED
    BY <1>1, <1>2, <1>3, PersistKeeps

(* A change of the freeze or of the pause. *)
LEMMA SwitchedGood ==
  ASSUME NEW r, NEW q, StateInv, Here(r), q \in Record,
         SameBook(q, r), q.queue = r.queue, q.dreamt = r.dreamt, q.night = r.night, q.count = r.count
  PROVE  Here(q)
  <1>1. RecordOK(q, now)
    BY DEF Here, Good, RecordOK, SameBook
  <1> QED
    BY <1>1, GoodSame

LEMMA ArbitrateKeeps ==
  ASSUME HInv, NEW action \in {"guard", "reach_out", "other"}, NEW older \in BOOLEAN,
         Arbitrate(action, older)
  PROVE  HInv'
  <1> DEFINE r == Rolled(mem, older)
             f == r.frozen \/ action = "guard"
             q == [r EXCEPT !.frozen = f]
  <1>1. StateInv /\ Here(r)
    BY Standing, RolledGood
  <1>2. r \in Record /\ f \in BOOLEAN
    BY <1>1 DEF Here, Good, RecordOK
  <1>3. Persist(q) /\ UNCHANGED <<pc, beat, spoken, heard, over, now, crashes>>
        /\ pc = "idle" /\ (reach' = Day(now) \/ reach' = reach)
    BY <1>2 DEF Arbitrate, Record
  <1> HIDE DEF r, f
  <1>4. /\ SameBook(q, r) /\ q.queue = r.queue /\ q.dreamt = r.dreamt
        /\ q.night = r.night /\ q.count = r.count /\ q \in Record
    BY <1>2 DEF Record, SameBook
  <1> HIDE DEF q
  <1>5. Here(q)
    BY <1>1, <1>4, SwitchedGood
  <1>6. reach' \in {NoDay} \cup Days /\ pc' \in {"idle", "submit", "tick", "shadow"}
    BY <1>3, Standing
  <1>7. BeatOK'
    BY <1>3, Standing DEF BeatOK, Day
  <1> QED
    BY <1>3, <1>5, <1>6, <1>7, PersistKeeps

LEMMA SilenceKeeps ==
  ASSUME HInv, NEW until \in {0} \cup Pauses, Silence(until)
  PROVE  HInv'
  <1> DEFINE q == [mem EXCEPT !.until = until]
  <1>1. StateInv /\ Here(mem) /\ mem \in Record
    BY Standing DEF RecordOK
  <1>2. Persist(q) /\ UNCHANGED <<reach, pc, beat, spoken, heard, over, now, crashes>> /\ pc = "idle"
    BY DEF Silence
  <1>3. /\ SameBook(q, mem) /\ q.queue = mem.queue /\ q.dreamt = mem.dreamt
        /\ q.night = mem.night /\ q.count = mem.count /\ q \in Record
    <2>1. until \in 0..MaxNow
      BY BoundsAssumption
    <2> QED
      BY <1>1, <2>1 DEF Record, SameBook
  <1> HIDE DEF q
  <1>4. Here(q)
    BY <1>1, <1>3, SwitchedGood
  <1>5. reach' \in {NoDay} \cup Days /\ pc' \in {"idle", "submit", "tick", "shadow"}
    BY <1>2, Standing
  <1>6. BeatOK'
    BY <1>2, Standing DEF BeatOK, Day
  <1> QED
    BY <1>2, <1>4, <1>5, <1>6, PersistKeeps

LEMMA BeatStartKeeps ==
  ASSUME HInv, NEW older \in BOOLEAN, BeatStart(older)
  PROVE  HInv'
  <1> DEFINE q == Rolled(mem, older)
  <1>1. StateInv /\ Here(mem) /\ Here(disk) /\ RecordOK(mem, now)
    BY Standing
  <1>2. Here(q) /\ q.day = Day(now) /\ q.p <= mem.p /\ RecordOK(q, now)
    BY <1>1, RolledFacts, RolledGood
  <1>3. mem' = q /\ beat' = [NoBeat EXCEPT !.ts = now, !.day = Day(now)] /\ pc' = "tick"
        /\ UNCHANGED <<disk, reach, spoken, heard, over, now, crashes>>
    BY DEF BeatStart
  <1> HIDE DEF q
  <1>4. BeatOK'
    <2>1. /\ beat'.ts = now /\ beat'.day = Day(now) /\ beat'.quiet = FALSE
          /\ beat'.window = FALSE
      BY <1>3 DEF NoBeat
    <2>2. now \in Nat /\ Day(now) \in Nat /\ Day(now') = Day(now) /\ Day(beat'.ts) = Day(now)
      BY <1>3, <2>1, Standing
    <2>3. beat'.ts \in 0..now' /\ beat'.day \in 0..Day(now')
      BY <1>3, <2>1, <2>2
    <2>4. beat'.day = Day(beat'.ts) /\ mem'.day = beat'.day
      BY <1>2, <1>3, <2>1, <2>2
    <2>5. beat' \in [ts : Nat, day : Nat, quiet : BOOLEAN, window : BOOLEAN]
      BY <1>3, <2>2 DEF NoBeat
    <2> QED
      BY <2>1, <2>3, <2>4, <2>5, Zenon DEF BeatOK, Day
  <1>5. disk'.day <= mem'.day /\ mem'.p <= disk'.p
    <2>1. /\ disk.day <= mem.day /\ mem.p <= disk.p /\ mem.day <= Day(now) /\ Day(now) \in Int
          /\ mem.p \in Int /\ disk.p \in Int /\ mem.day \in Int /\ disk.day \in Int /\ q.p \in Int
      BY <1>2, Standing DEF Levels, Days, RecordOK, Record
    <2> QED
      BY <1>2, <1>3, <2>1
  <1>6. Stepped
    BY <1>3, <1>4, <1>5, Standing DEF Stepped
  <1> QED
    BY <1>1, <1>2, <1>3, <1>6, HAssembled DEF Here

(* The history of the night goes with the count of the record. *)
OverAfter(above) ==
  IF above /\ Quiet(now) /\ over[ThisNight] < 2
  THEN [over EXCEPT ![ThisNight] = @ + 1] ELSE over

LEMMA OverFacts ==
  ASSUME HInv, NEW above \in BOOLEAN
  PROVE  /\ OverAfter(above) \in [{NoDay} \cup Days -> 0..2]
         /\ \A x \in {NoDay} \cup Days : over[x] <= OverAfter(above)[x]
         /\ above /\ Quiet(now) => \/ OverAfter(above)[ThisNight] = 2
                                   \/ OverAfter(above)[ThisNight] = over[ThisNight] + 1
  <1>1. over \in [{NoDay} \cup Days -> 0..2] /\ ThisNight \in {NoDay} \cup Days
    BY Standing, NightType
  <1>2. over[ThisNight] \in 0..2
    BY <1>1
  <1> QED
    BY <1>1, <1>2 DEF OverAfter

LEMMA DreamingGood ==
  ASSUME HInv, NEW r, Here(r), NEW above \in BOOLEAN
  PROVE  Good(Dreaming(r, above), spoken, heard, OverAfter(above), now)
  <1> DEFINE q == Dreaming(r, above)
             o == OverAfter(above)
  <1>1. StateInv /\ RecordOK(r, now) /\ SpokenOK(spoken, now)
    BY Standing DEF Here, Good
  <1>2. /\ RecordOK(q, now) /\ SameWords(q, r)
        /\ \/ q.night = r.night /\ q.count <= r.count
           \/ /\ above /\ Quiet(now) /\ q.night = ThisNight /\ q.count <= 2
              /\ q.count <= (IF r.night = ThisNight THEN r.count ELSE 0) + 1
    BY <1>1, DreamingFacts
  <1>3. /\ o \in [{NoDay} \cup Days -> 0..2]
        /\ \A x \in {NoDay} \cup Days : over[x] <= o[x]
        /\ above /\ Quiet(now) => o[ThisNight] = 2 \/ o[ThisNight] = over[ThisNight] + 1
        /\ over \in [{NoDay} \cup Days -> 0..2]
    BY OverFacts, Standing
  <1> HIDE DEF q, o
  <1>4. \A K : Fewer(q, spoken, r, spoken, K)
    BY <1>1, <1>2, SubqueueFewer DEF SpokenOK, RecordOK, SameWords
  <1>5. Rationed(q, spoken, heard)
    BY <1>1, <1>2, <1>4, FewerRationed DEF Here, Good, SameBook, SameWords
  <1>6. Dreamed(q, spoken)
    BY <1>2, <1>4, FewerDreamed DEF Here, Good, SameWords
  <1>7. q.count <= o[q.night]
    <2>1. /\ r.count <= over[r.night] /\ r.night \in {NoDay} \cup Days /\ r.count \in 0..2
          /\ q.count \in 0..2 /\ over[r.night] \in 0..2 /\ o[r.night] \in 0..2
      BY <1>1, <1>2, <1>3 DEF Here, Good, RecordOK, Record, Days, NoDay
    <2>2. over[ThisNight] \in 0..2 /\ o[ThisNight] \in 0..2
      BY <1>1, <1>3, NightType
    <2>3. CASE q.night = r.night /\ q.count <= r.count
      <3>1. over[r.night] <= o[r.night]
        BY <1>3, <2>1
      <3> QED
        BY <2>1, <2>3, <3>1
    <2>4. CASE /\ above /\ Quiet(now) /\ q.night = ThisNight /\ q.count <= 2
               /\ q.count <= (IF r.night = ThisNight THEN r.count ELSE 0) + 1
      <3>1. CASE o[ThisNight] = 2
        BY <2>4, <3>1
      <3>2. CASE o[ThisNight] = over[ThisNight] + 1
        <4>1. CASE r.night = ThisNight
          BY <2>1, <2>2, <2>4, <3>2, <4>1
        <4>2. CASE r.night # ThisNight
          BY <2>1, <2>2, <2>4, <3>2, <4>2
        <4> QED
          BY <4>1, <4>2
      <3> QED
        BY <1>3, <2>4, <3>1, <3>2
    <2> QED
      BY <1>2, <2>3, <2>4
  <1>8. Good(q, spoken, heard, o, now)
    BY <1>2, <1>5, <1>6, <1>7 DEF Good
  <1> QED
    BY <1>8 DEF q, o

LEMMA DreamtGood ==
  ASSUME HInv, NEW r, NEW o, Good(r, spoken, heard, o, now), beat.day = r.day
  PROVE  Good(Dreamt(r), spoken, heard, o, now)
  <1> DEFINE q == Dreamt(r)
             x == Make("dream", r, DayEnd)
  <1>1. StateInv /\ RecordOK(r, now) /\ SpokenOK(spoken, now)
    BY Standing DEF Good
  <1>2. x.kind \notin Own
    BY <1>1, DayEndFacts, MakeFacts DEF Own
  <1>3. /\ RecordOK(q, now) /\ q.night = r.night /\ q.count = r.count
        /\ q = r \/ (q.queue = r.queue \cup {x} /\ SameBook(q, r))
    BY <1>1, DreamtFacts DEF SameBook
  <1>4. Dreamed(q, spoken)
    BY <1>1, DreamtDreamed DEF Good
  <1> HIDE DEF q, x
  <1>5. Rationed(q, spoken, heard)
    <2>1. CASE q = r
      BY <2>1 DEF Good
    <2>2. CASE q.queue = r.queue \cup {x} /\ SameBook(q, r)
      <3>1. Fewer(q, spoken, r, spoken, Own)
        BY <1>1, <1>2, <2>2, OtherFewer DEF SpokenOK, RecordOK
      <3> QED
        BY <1>1, <2>2, <3>1, FewerRationed DEF Good
    <2> QED
      BY <1>3, <2>1, <2>2
  <1>6. Good(q, spoken, heard, o, now)
    BY <1>3, <1>4, <1>5 DEF Good
  <1> QED
    BY <1>6 DEF q

(* What the minute after the tick makes of the record. *)
AfterTick(above) == IF Dreams THEN Dreamt(Dreaming(mem, above)) ELSE mem

LEMMA AfterTickFacts ==
  ASSUME HInv, NEW above \in BOOLEAN, pc = "tick", above => Dreams
  PROVE  /\ Good(AfterTick(above), spoken, heard, OverAfter(above), now)
         /\ AfterTick(above).day = mem.day /\ AfterTick(above).p = mem.p
         /\ ~mem.pending /\ (AfterTick(above).pending \/ (~mem.dreamt /\ AfterTick(above).dreamt))
              => mem.count >= 2
  <1>1. StateInv /\ Here(mem) /\ RecordOK(mem, now) /\ beat.day = mem.day
    BY Standing DEF BeatOK
  <1>2. CASE Dreams
    <2> DEFINE q == Dreaming(mem, above)
               x == Dreamt(q)
    <2>1. /\ RecordOK(q, now) /\ SameWords(q, mem)
          /\ q.pending /\ ~mem.pending => mem.count >= 2
      BY <1>1, DreamingFacts
    <2>2. Good(q, spoken, heard, OverAfter(above), now)
      BY <1>1, DreamingGood
    <2> HIDE DEF q
    <2>3. Good(x, spoken, heard, OverAfter(above), now)
      BY <1>1, <2>1, <2>2, DreamtGood DEF SameWords
    <2>4. \/ x = q
          \/ q.pending /\ ~q.dreamt /\ ~x.pending /\ x.p = q.p /\ x.day = q.day
      BY <1>1, <2>1, DreamtFacts
    <2>5. AfterTick(above) = x
      BY <1>2 DEF AfterTick, q
    <2> HIDE DEF x
    <2>6. x.day = mem.day /\ x.p = mem.p
      BY <2>1, <2>4 DEF SameWords
    <2>7. q.dreamt = mem.dreamt
      BY <2>1 DEF SameWords
    <2>8. ~mem.pending /\ (x.pending \/ (~mem.dreamt /\ x.dreamt)) => mem.count >= 2
      <3>1. CASE x = q
        BY <2>1, <2>7, <3>1, Zenon
      <3>2. CASE q.pending
        BY <2>1, <3>2, Zenon
      <3> QED
        BY <2>4, <3>1, <3>2
    <2> QED
      BY <2>3, <2>5, <2>6, <2>8
  <1>3. CASE ~Dreams
    <2>1. AfterTick(above) = mem /\ OverAfter(above) = over
      BY <1>3 DEF AfterTick, OverAfter
    <2> QED
      BY <1>1, <2>1 DEF Here
  <1> QED
    BY <1>2, <1>3

LEMMA BeatTickedKeeps ==
  ASSUME HInv, NEW above \in BOOLEAN, BeatTicked(above)
  PROVE  HInv'
  <1> DEFINE q == AfterTick(above)
             o == OverAfter(above)
  <1>1. /\ pc = "tick" /\ (above => Dreams)
        /\ over' = o
        /\ mem' = q
        /\ \/ disk' = q /\ pc' = "idle" /\ beat' = NoBeat
           \/ /\ disk' = disk /\ pc' = "shadow"
              /\ beat' = [beat EXCEPT !.quiet = Quiet(now), !.window = NightWindow(now)]
        /\ UNCHANGED <<reach, spoken, heard, now, crashes>>
    BY DEF BeatTicked, AfterTick, OverAfter, ThisNight, Persist
  <1>2. Good(q, spoken, heard, o, now) /\ q.day = mem.day /\ q.p = mem.p
    BY <1>1, AfterTickFacts
  <1>3. /\ o \in [{NoDay} \cup Days -> 0..2] /\ over \in [{NoDay} \cup Days -> 0..2]
        /\ \A x \in {NoDay} \cup Days : over[x] <= o[x]
    BY OverFacts, Standing
  <1> HIDE DEF q, o
  <1>4. Good(disk, spoken, heard, o, now)
    <2>1. now \in 0..MaxNow /\ now <= now /\ Good(disk, spoken, heard, over, now)
      BY Standing DEF Here
    <2> QED
      BY <1>3, <2>1, GoodLater
  <1>5. Good(mem', spoken', heard', over', now') /\ Good(disk', spoken', heard', over', now')
    BY <1>1, <1>2, <1>4
  <1>6. disk'.day <= mem'.day /\ mem'.p <= disk'.p
    <2>1. /\ disk.day <= mem.day /\ mem.p <= disk.p /\ q.day \in Int /\ q.p \in Int
      BY <1>2, Standing DEF Days, Levels
    <2> QED
      BY <1>1, <1>2, <2>1
  <1>7. BeatOK'
    <2>1. CASE pc' = "idle"
      BY <1>1, <2>1, Standing, BeatEnds
    <2>2. CASE pc' = "shadow"
      <3> DEFINE seen == Quiet(now)
                 near == NightWindow(now)
      <3>1. beat' = [beat EXCEPT !.quiet = seen, !.window = near]
        BY <1>1, <2>2
      <3>2. /\ beat.ts \in 0..now /\ beat.day \in 0..Day(now) /\ beat.day = Day(beat.ts)
            /\ mem.day = beat.day
            /\ beat \in [ts : Nat, day : Nat, quiet : BOOLEAN, window : BOOLEAN]
        BY <1>1, Standing DEF BeatOK
      <3>3. seen \in BOOLEAN /\ near \in BOOLEAN
        BY DEF Quiet, NightWindow, Within
      <3> HIDE DEF seen, near
      <3>4. /\ beat' \in [ts : Nat, day : Nat, quiet : BOOLEAN, window : BOOLEAN]
            /\ beat'.ts = beat.ts /\ beat'.day = beat.day
            /\ beat'.quiet \in BOOLEAN /\ beat'.window \in BOOLEAN
        BY <3>1, <3>2, <3>3
      <3>5. now' = now /\ Day(now') = Day(now) /\ mem'.day = mem.day
        BY <1>1, <1>2
      <3>6. /\ beat'.ts \in 0..now' /\ beat'.day \in 0..Day(now')
            /\ beat'.day = Day(beat'.ts) /\ mem'.day = beat'.day
        BY <3>2, <3>4, <3>5
      <3> QED
        BY <3>4, <3>6, Zenon DEF BeatOK, Day
    <2> QED
      BY <1>1, <2>1, <2>2
  <1>8. Stepped
    <2>1. /\ now' \in 0..MaxNow /\ SpokenOK(spoken', now') /\ over' \in [{NoDay} \cup Days -> 0..2]
          /\ heard' \in {Never} \cup 0..now' /\ crashes' \in 0..MaxCrashes
          /\ reach' \in {NoDay} \cup Days /\ pc' \in {"idle", "submit", "tick", "shadow"}
      BY <1>1, <1>3, Standing
    <2> QED
      BY <1>6, <1>7, <2>1 DEF Stepped
  <1> QED
    BY <1>5, <1>8, HAssembled

(* Act III leaves the record as it is, or adds a word to it. *)
LEMMA ContactedGood ==
  ASSUME HInv, pc = "shadow", NEW trigger \in BOOLEAN, NEW open \in BOOLEAN
  PROVE  LET q == Contacted(mem, trigger, open)
         IN Here(q) /\ q.day = mem.day /\ q.p = mem.p
            /\ q.pending = mem.pending /\ q.dreamt = mem.dreamt
  <1> DEFINE q    == Contacted(mem, trigger, open)
             kind == IF beat.window THEN "night" ELSE "contact"
  <1>1. StateInv /\ Here(mem) /\ RecordOK(mem, now) /\ beat.day = mem.day
    BY Standing DEF BeatOK
  <1>2. kind \in Own /\ ContactExpiry \in Nat /\ ContactExpiry <= MaxNow + 2 * DayLength + Horizon
    BY <1>1, DayEndFacts DEF Own
  <1>3. CASE ~(trigger /\ open /\ GatesPass(mem))
    <2>1. q = mem
      BY <1>3 DEF Contacted
    <2> QED
      BY <1>1, <2>1
  <1>4. CASE trigger /\ open /\ GatesPass(mem)
    <2>1. q = Added(mem, kind, ContactExpiry)
      BY <1>4 DEF Contacted, Added
    <2> HIDE DEF q, kind
    <2>2. Here(q) /\ q.day = mem.day /\ q.p = mem.p
      BY <1>1, <1>2, <1>4, <2>1, AddedGood
    <2>3. q.pending = mem.pending /\ q.dreamt = mem.dreamt
      BY <1>1, <1>2, <1>4, <2>1, AddedFacts
    <2> QED
      BY <2>2, <2>3 DEF q
  <1> QED
    BY <1>3, <1>4

LEMMA ConcernedGood ==
  ASSUME HInv, pc = "shadow", NEW r, Here(r), r.day = mem.day, r.p = mem.p,
         NEW concern \in BOOLEAN, NEW open \in BOOLEAN
  PROVE  LET q == Concerned(r, concern, open)
         IN Here(q) /\ q.day = mem.day /\ q.p = mem.p
            /\ q.pending = r.pending /\ q.dreamt = r.dreamt
  <1> DEFINE q == Concerned(r, concern, open)
  <1>1. StateInv /\ RecordOK(r, now) /\ beat.day = r.day
    BY Standing DEF BeatOK, Here, Good
  <1>2. "concern" \in Own /\ DayEnd \in Nat /\ DayEnd <= MaxNow + 2 * DayLength + Horizon
    BY <1>1, DayEndFacts DEF Own
  <1>3. CASE ~(concern /\ open /\ GatesPass(r))
    <2>1. q = r
      BY <1>3 DEF Concerned
    <2> QED
      BY <2>1
  <1>4. CASE concern /\ open /\ GatesPass(r)
    <2>1. q = Added(r, "concern", DayEnd)
      BY <1>4 DEF Concerned, Added
    <2> HIDE DEF q
    <2>2. Here(q) /\ q.day = r.day /\ q.p = r.p
      BY <1>1, <1>2, <1>4, <2>1, AddedGood
    <2>3. q.pending = r.pending /\ q.dreamt = r.dreamt
      BY <1>1, <1>2, <1>4, <2>1, AddedFacts
    <2> QED
      BY <2>2, <2>3 DEF q
  <1> QED
    BY <1>3, <1>4

LEMMA BeatDoneFacts ==
  ASSUME HInv, NEW need \in BOOLEAN, NEW concern \in BOOLEAN, NEW open \in BOOLEAN,
         BeatDone(need, concern, open)
  PROVE  /\ Here(mem') /\ Persist(mem') /\ mem'.pending = mem.pending /\ mem'.dreamt = mem.dreamt
         /\ UNCHANGED <<spoken, heard, over, now, crashes>> /\ pc' = "idle" /\ beat' = NoBeat
         /\ reach' \in {NoDay} \cup Days
  <1> DEFINE c == Contacted(mem, need \/ reach = beat.day, open)
             q == Concerned(c, concern, open)
  <1>1. /\ pc = "shadow" /\ mem' = q /\ disk' = q /\ pc' = "idle" /\ beat' = NoBeat
        /\ UNCHANGED <<spoken, heard, over, now, crashes>>
        /\ reach' = NoDay \/ reach' = reach
    BY DEF BeatDone, Persist
  <1>2. Here(c) /\ c.day = mem.day /\ c.p = mem.p /\ c.pending = mem.pending /\ c.dreamt = mem.dreamt
    BY <1>1, ContactedGood
  <1> HIDE DEF c
  <1>3. Here(q) /\ q.pending = c.pending /\ q.dreamt = c.dreamt
    BY <1>1, <1>2, ConcernedGood
  <1> HIDE DEF q
  <1>4. reach' \in {NoDay} \cup Days
    BY <1>1, Standing
  <1> QED
    BY <1>1, <1>2, <1>3, <1>4 DEF Persist

LEMMA BeatDoneKeeps ==
  ASSUME HInv, NEW need \in BOOLEAN, NEW concern \in BOOLEAN, NEW open \in BOOLEAN,
         BeatDone(need, concern, open)
  PROVE  HInv'
  <1>1. /\ Here(mem') /\ Persist(mem')
        /\ UNCHANGED <<spoken, heard, over, now, crashes>> /\ pc' = "idle" /\ beat' = NoBeat
        /\ reach' \in {NoDay} \cup Days
    BY BeatDoneFacts
  <1>2. BeatOK'
    BY <1>1, Standing, BeatEnds
  <1> QED
    BY <1>1, <1>2, PersistKeeps

LEMMA ImpulseKeeps ==
  ASSUME HInv, Impulse
  PROVE  HInv'
  <1> DEFINE silent == Silenced(mem, now)
             Q      == mem.queue \ Gone
             U      == IF silent THEN Q ELSE {}
             q      == [mem EXCEPT !.queue = U]
             T      == spoken \cup (IF silent THEN {} ELSE {Told(w) : w \in Q})
  <1>1. /\ pc = "idle" /\ mem' = q /\ disk' = q /\ spoken' = T
        /\ UNCHANGED <<reach, pc, beat, heard, over, now, crashes>>
    BY DEF Impulse, Persist
  <1>2. /\ StateInv /\ Here(mem) /\ RecordOK(mem, now) /\ SpokenOK(spoken, now) /\ now \in 0..MaxNow
        /\ mem \in Record /\ IsFiniteSet(spoken) /\ IsFiniteSet(mem.queue)
    BY Standing DEF RecordOK, SpokenOK
  <1>3. Q \subseteq mem.queue /\ U \subseteq mem.queue
    OBVIOUS
  <1> HIDE DEF silent, U, Q
  <1>4. /\ q \in Record /\ q.queue = U /\ SameBook(q, mem) /\ q.dreamt = mem.dreamt
        /\ q.night = mem.night /\ q.count = mem.count
    BY <1>2, <1>3 DEF Record, SameBook
  <1> HIDE DEF q
  <1>5. IsFiniteSet(U)
    BY <1>2, <1>3, FS_Subset
  <1>6. RecordOK(q, now)
    BY <1>2, <1>3, <1>4, <1>5 DEF RecordOK, SameBook
  <1>7. \A K : Fewer(q, T, mem, spoken, K)
    <2> TAKE K
    <2>1. CASE silent
      <3>1. T = spoken
        BY <2>1
      <3> QED
        BY <1>2, <1>3, <1>4, <3>1, SubqueueFewer
    <2>2. CASE ~silent
      <3>1. q.queue = {} /\ T = spoken \cup {Told(w) : w \in Q}
        BY <1>4, <2>2 DEF U
      <3> QED
        BY <1>2, <1>3, <3>1, ToldFewer
    <2> QED
      BY <2>1, <2>2
  <1>8. Rationed(q, T, heard)
    BY <1>2, <1>4, <1>7, FewerRationed DEF Here, Good
  <1>9. Dreamed(q, T)
    BY <1>2, <1>4, <1>7, FewerDreamed DEF Here, Good, SameBook
  <1>10. Good(q, T, heard, over, now)
    BY <1>2, <1>4, <1>6, <1>8, <1>9 DEF Good, Here
  <1>11. SpokenOK(T, now)
    <2>1. IsFiniteSet(T)
      <3>1. IsFiniteSet(Q)
        BY <1>2, <1>3, FS_Subset
      <3>2. IsFiniteSet(spoken \cup {Told(w) : w \in Q})
        BY <1>2, <3>1, SelTold
      <3> QED
        BY <1>2, <3>2
    <2>2. ASSUME NEW w \in T
          PROVE  w.ts \in 0..now /\ w.at \in w.ts..now /\ w.day \in Days /\ w.p \in Levels
      <3>1. CASE w \in spoken
        BY <1>2, <3>1 DEF SpokenOK
      <3>2. CASE w \notin spoken
        <4>1. PICK v \in mem.queue : w = Told(v)
          BY <1>3, <2>2, <3>2
        <4>2. v.ts \in 0..MaxNow /\ v.day \in Days /\ v.p \in Levels /\ v.ts <= now
          BY <1>2 DEF RecordOK, Record, Word
        <4>3. w.ts = v.ts /\ w.at = now /\ w.day = v.day /\ w.p = v.p
          BY <4>1 DEF Told
        <4> QED
          BY <1>2, <4>2, <4>3, BoundsAssumption
      <3> QED
        BY <3>1, <3>2
    <2> QED
      BY <2>1, <2>2 DEF SpokenOK
  <1> HIDE DEF T
  <1>12. BeatOK'
    BY <1>1, Standing DEF BeatOK, Day
  <1>13. Stepped
    <2>1. q.day \in Int /\ q.p \in Int
      BY <1>4 DEF Record, Days, Levels
    <2>2. /\ now' \in 0..MaxNow /\ over' \in [{NoDay} \cup Days -> 0..2]
          /\ heard' \in {Never} \cup 0..now' /\ crashes' \in 0..MaxCrashes
          /\ reach' \in {NoDay} \cup Days /\ pc' \in {"idle", "submit", "tick", "shadow"}
      BY <1>1, Standing
    <2> QED
      BY <1>1, <1>11, <1>12, <2>1, <2>2 DEF Stepped
  <1> QED
    BY <1>1, <1>10, <1>13, HAssembled

LEMMA AbortKeeps ==
  ASSUME HInv, Abort
  PROVE  HInv'
  <1>1. /\ pc' = "idle" /\ beat' = NoBeat
        /\ UNCHANGED <<mem, disk, reach, spoken, heard, over, now, crashes>>
    BY DEF Abort
  <1>2. BeatOK'
    BY <1>1, Standing, BeatEnds
  <1>3. Stepped
    BY <1>1, <1>2, Standing DEF Stepped
  <1> QED
    BY <1>1, <1>3, Standing, HAssembled DEF Here

LEMMA CrashKeeps ==
  ASSUME HInv, Crash
  PROVE  HInv'
  <1>1. /\ crashes < MaxCrashes /\ crashes' = crashes + 1 /\ mem' = disk /\ reach' = NoDay
        /\ pc' = "idle" /\ beat' = NoBeat /\ UNCHANGED <<disk, spoken, heard, over, now>>
    BY DEF Crash
  <1>2. BeatOK'
    BY <1>1, Standing, BeatEnds
  <1>3. crashes' \in 0..MaxCrashes
    BY <1>1, Standing, BoundsAssumption
  <1>4. disk'.day <= mem'.day /\ mem'.p <= disk'.p
    BY <1>1, Standing DEF Days, Levels
  <1>5. Stepped
    BY <1>1, <1>2, <1>3, <1>4, Standing DEF Stepped
  <1> QED
    BY <1>1, <1>5, Standing, HAssembled DEF Here

LEMMA TickKeeps ==
  ASSUME HInv, Tick
  PROVE  HInv'
  <1>1. /\ now < MaxNow /\ now' = now + 1
        /\ UNCHANGED <<mem, disk, reach, pc, beat, spoken, heard, over, crashes>>
    BY DEF Tick
  <1>2. now \in Nat /\ now' \in 0..MaxNow /\ now <= now' /\ now \in 0..MaxNow
    BY <1>1, Standing, BoundsAssumption
  <1>3. Day(now) \in Nat /\ Day(now') \in Nat /\ Day(now) <= Day(now')
    BY <1>2, DayMonotone
  <1>4. over \in [{NoDay} \cup Days -> 0..2] /\ \A x \in {NoDay} \cup Days : over[x] <= over[x]
    <2>1. over \in [{NoDay} \cup Days -> 0..2]
      BY Standing
    <2> QED
      BY <2>1
  <1>5. Good(mem, spoken, heard, over, now') /\ Good(disk, spoken, heard, over, now')
    BY <1>2, <1>4, Standing, GoodLater DEF Here
  <1>6. SpokenOK(spoken, now')
    <2>1. SpokenOK(spoken, now)
      BY Standing
    <2> QED
      BY <1>2, <2>1 DEF SpokenOK
  <1>7. BeatOK'
    <2>1. /\ beat.ts \in 0..now' /\ beat.day \in 0..Day(now')
      BY <1>2, <1>3, Standing
    <2>2. BeatOK
      BY Standing
    <2> QED
      BY <1>1, <2>1, <2>2, Zenon DEF BeatOK, Day
  <1>8. heard' \in {Never} \cup 0..now'
    BY <1>1, <1>2, Standing
  <1>9. Stepped
    BY <1>1, <1>2, <1>4, <1>6, <1>7, <1>8, Standing DEF Stepped
  <1> QED
    BY <1>1, <1>5, <1>9, HAssembled

LEMMA HInit ==
  ASSUME Init
  PROVE  HInv
  <1>1. PICK level \in StartLevels : mem = Bound(level)
    BY DEF Init
  <1>2. /\ disk = mem /\ reach = NoDay /\ pc = "idle" /\ beat = NoBeat /\ spoken = {} /\ heard = Never
        /\ over = [n \in {NoDay} \cup Days |-> 0] /\ now = 0 /\ crashes = 0
    BY DEF Init
  <1>3. level \in Levels /\ 0 \in 0..MaxNow /\ 0 \in Nat /\ 0 \in 0..MaxCrashes
    BY BoundsAssumption DEF Levels
  <1>4. Day(0) = 0 /\ 0 \in Days
    <2>1. 0 \div DayLength = 0
      BY ClockAssumption, SMT
    <2>2. Day(0) = 0
      BY <2>1 DEF Day
    <2>3. Day(0) \in Days
      BY <1>3, DaysType
    <2> QED
      BY <2>2, <2>3
  <1>5. /\ mem.p = level /\ mem.day = 0 /\ mem.sent = 0 /\ mem.last = Never /\ mem.streak = 0
        /\ mem.dreamt = FALSE /\ mem.night = NoDay /\ mem.count = 0 /\ mem.queue = {}
    BY <1>1 DEF Bound
  <1>6. mem \in Record
    <2>1. /\ 0 \in 0..(CapBase + 1) /\ 0 \in 0..2 /\ FALSE \in BOOLEAN /\ {} \in SUBSET Word
      BY SettingsAssumption
    <2> QED
      BY <1>1, <1>3, <1>4, <2>1 DEF Bound, Record
  <1>7. RecordOK(mem, now)
    BY <1>2, <1>4, <1>5, <1>6, FS_EmptySet, SettingsAssumption DEF RecordOK
  <1>8. \A K, d, t : Count(mem, spoken, K, d, t) = 0
    <2> TAKE K, d, t
    <2>1. Cardinality(Sel(spoken, K, d, t)) = 0 /\ Cardinality(Sel(mem.queue, K, d, t)) = 0
      BY <1>2, <1>5, SelNone
    <2> QED
      BY <2>1 DEF Count
  <1>9. Rationed(mem, spoken, heard)
    <2>1. Mine(mem, spoken) = {}
      BY <1>2, <1>5 DEF Mine
    <2>2. Cap(mem.p) \in Nat
      BY <1>3, <1>5, CapType
    <2>3. /\ Count(mem, spoken, Own, mem.day, -1) = 0 /\ Count(mem, spoken, Own, mem.day, heard) = 0
          /\ \A d \in Days : Count(mem, spoken, Own, d, heard) <= 2
      BY <1>8
    <2> QED
      BY <1>5, <2>1, <2>2, <2>3 DEF Rationed
  <1>10. Dreamed(mem, spoken)
    <2>1. /\ Count(mem, spoken, {"dream"}, mem.day, -1) = 0
          /\ \A d \in Days : Count(mem, spoken, {"dream"}, d, -1) <= 1
      BY <1>8
    <2> QED
      BY <1>2, <1>5, <2>1 DEF Dreamed
  <1>11. over \in [{NoDay} \cup Days -> 0..2] /\ over[NoDay] = 0
    BY <1>2
  <1>12. Good(mem, spoken, heard, over, now)
    BY <1>5, <1>7, <1>9, <1>10, <1>11 DEF Good
  <1>13. SpokenOK(spoken, now)
    BY <1>2, FS_EmptySet DEF SpokenOK
  <1>14. BeatOK
    BY <1>2, <1>4 DEF BeatOK, NoBeat
  <1>15. TypeOK
    <2>1. /\ mem.sent \in 0..CapBase /\ mem.streak \in 0..2 /\ mem.count \in 0..2
          /\ mem.last \in {Never} \cup 0..now /\ mem.until \in 0..MaxNow
          /\ mem.p \in Levels /\ mem.day \in Days
          /\ \A w \in mem.queue : w \in Word /\ w.ts <= now
      BY <1>1, <1>3, <1>4, <1>5, SettingsAssumption DEF Bound
    <2>2. mem.day <= mem.day /\ mem.p <= mem.p /\ mem.day <= Day(now)
      BY <1>2, <1>3, <1>4, <1>5 DEF Levels
    <2> QED
      BY <1>2, <1>3, <2>1, <2>2 DEF TypeOK
  <1> QED
    BY <1>2, <1>7, <1>11, <1>12, <1>13, <1>14, <1>15 DEF HInv, StateInv, Here

LEMMA HNext ==
  ASSUME HInv, [Next]_vars
  PROVE  HInv'
  <1>1. CASE \E older \in BOOLEAN : SubmitStart(older) \/ BeatStart(older)
    BY <1>1, SubmitStartKeeps, BeatStartKeeps
  <1>2. CASE \E reachOut \in BOOLEAN : SubmitDone(reachOut)
    BY <1>2, SubmitDoneKeeps
  <1>3. CASE \E action \in {"guard", "reach_out", "other"}, older \in BOOLEAN : Arbitrate(action, older)
    BY <1>3, ArbitrateKeeps
  <1>4. CASE \E until \in {0} \cup Pauses : Silence(until)
    BY <1>4, SilenceKeeps
  <1>5. CASE \E above \in BOOLEAN : BeatTicked(above)
    BY <1>5, BeatTickedKeeps
  <1>6. CASE \E need, concern, open \in BOOLEAN : BeatDone(need, concern, open)
    BY <1>6, BeatDoneKeeps
  <1>7. CASE Impulse \/ Abort \/ Crash \/ Tick
    BY <1>7, ImpulseKeeps, AbortKeeps, CrashKeeps, TickKeeps
  <1>8. CASE UNCHANGED vars
    <2>1. /\ UNCHANGED <<mem, disk, reach, pc, beat, spoken, heard, over, now, crashes>>
      BY <1>8 DEF vars
    <2>2. BeatOK'
      BY <2>1, Standing DEF BeatOK, Day
    <2>3. Stepped
      BY <2>1, <2>2, Standing DEF Stepped
    <2> QED
      BY <2>1, <2>3, Standing, HAssembled DEF Here
  <1> QED
    BY <1>1, <1>2, <1>3, <1>4, <1>5, <1>6, <1>7, <1>8 DEF Next

(* The records account for everything she said of her own accord and for    *)
(* every dream, whatever is aborted, killed or slow.                         *)
THEOREM HeartbeatInvariant == Spec => []HInv
  BY HInit, HNext, PTL DEF Spec

(* The variables keep their types: no record gets ahead of its day, and no   *)
(* save ahead of the memory (session.py, the book of the binding).           *)
THEOREM HeartbeatTypeCorrect == Spec => []TypeOK
  <1>1. HInv => TypeOK
    BY DEF HInv, StateInv
  <1> QED
    BY <1>1, HeartbeatInvariant, PTL

(* The cap of the day, the gap of two hours and the silence after two words  *)
(* nobody answered hold for what the agent was handed, under every fault     *)
(* (_reserve_proactive books the slot when the word is queued).              *)
THEOREM HerWordsAreRationed == Spec => []Restrained
  <1>1. HInv => Restrained
    <2> SUFFICES ASSUME HInv PROVE Restrained
      OBVIOUS
    <2>1. /\ Rationed(mem, spoken, heard) /\ IsFiniteSet(spoken) /\ IsFiniteSet(mem.queue)
          /\ \A w \in spoken : w.ts \in Nat /\ w.day \in Days /\ w.p \in Levels
      BY Standing DEF Here, Good, SpokenOK, RecordOK
    <2>2. \A d, t : /\ Cardinality(Sel(spoken, Own, d, t)) \in Nat
                    /\ Cardinality(Sel(mem.queue, Own, d, t)) \in Nat
      BY <2>1, SelFinite
    <2>3. \A w \in spoken : w.kind \in Own => w \in Mine(mem, spoken)
      BY DEF Mine
    <2>4. DailyCap
      <3> SUFFICES ASSUME NEW w \in spoken, w.kind \in Own
                   PROVE  Cardinality(Slots(w.day)) <= Cap(w.p)
        BY DEF DailyCap
      <3>1. Slots(w.day) = Sel(spoken, Own, w.day, -1)
        BY <2>1 DEF Slots, Sel
      <3>2. Count(mem, spoken, Own, w.day, -1) <= Cap(w.p)
        BY <2>1, <2>3 DEF Rationed
      <3>3. /\ Cardinality(Sel(spoken, Own, w.day, -1)) \in Nat
            /\ Cardinality(Sel(mem.queue, Own, w.day, -1)) \in Nat
        BY <2>2
      <3>4. Cap(w.p) \in Nat
        BY <2>1, CapType
      <3> QED
        BY <3>1, <3>2, <3>3, <3>4 DEF Count
    <2>5. GapWithinDay
      BY <2>1, <2>3 DEF GapWithinDay, Rationed
    <2>6. TwoUnanswered
      <3> SUFFICES ASSUME NEW d \in Days
                   PROVE  Cardinality({w \in Slots(d) : w.ts > heard}) <= 2
        BY DEF TwoUnanswered
      <3>1. {w \in Slots(d) : w.ts > heard} = Sel(spoken, Own, d, heard)
        BY DEF Slots, Sel
      <3>2. Count(mem, spoken, Own, d, heard) <= 2
        BY <2>1 DEF Rationed
      <3>3. /\ Cardinality(Sel(spoken, Own, d, heard)) \in Nat
            /\ Cardinality(Sel(mem.queue, Own, d, heard)) \in Nat
        BY <2>2
      <3>4. Cardinality(Sel(spoken, Own, d, heard)) <= 2
        BY <3>2, <3>3 DEF Count
      <3> QED
        BY <3>1, <3>4, Zenon
    <2> QED
      BY <2>4, <2>5, <2>6 DEF Restrained
  <1> QED
    BY <1>1, HeartbeatInvariant, PTL

------------------------------------------------------------------------------
(* Dreams are armed by the beats of one night. *)

(* A step that neither arms a dream nor queues one. *)
Calm == mem'.pending = mem.pending /\ (mem'.dreamt => mem.dreamt)

LEMMA RolledCalm ==
  ASSUME HInv, NEW older \in BOOLEAN
  PROVE  /\ Rolled(mem, older).pending = mem.pending
         /\ Rolled(mem, older).dreamt => mem.dreamt
         /\ Rolled(mem, older) \in Record /\ mem \in Record
  <1>1. StateInv /\ RecordOK(mem, now)
    BY Standing
  <1> QED
    BY <1>1, RolledFacts DEF RecordOK

LEMMA DreamStep ==
  ASSUME HInv, Next, crashes' = crashes, ~mem.pending,
         mem'.pending \/ (~mem.dreamt /\ mem'.dreamt)
  PROVE  over[mem.night] >= 2
  <1>1. ASSUME Calm PROVE FALSE
    BY <1>1 DEF Calm
  <1>2. CASE \E older \in BOOLEAN : SubmitStart(older) \/ BeatStart(older)
    <2> SUFFICES ASSUME NEW older \in BOOLEAN, SubmitStart(older) \/ BeatStart(older)
                 PROVE  Calm
      BY <1>1, <1>2
    <2> DEFINE r == Rolled(mem, older)
    <2>1. r.pending = mem.pending /\ (r.dreamt => mem.dreamt) /\ r \in Record
      BY RolledCalm
    <2>2. mem' = r \/ mem' = [r EXCEPT !.streak = 0]
      BY DEF SubmitStart, BeatStart
    <2> HIDE DEF r
    <2>3. mem'.pending = r.pending /\ mem'.dreamt = r.dreamt
      BY <2>1, <2>2 DEF Record
    <2> QED
      BY <2>1, <2>3 DEF Calm
  <1>3. CASE \E reachOut \in BOOLEAN : SubmitDone(reachOut)
    <2>1. mem' = mem
      BY <1>3 DEF SubmitDone, Persist
    <2> QED
      BY <1>1, <2>1 DEF Calm
  <1>4. CASE \E action \in {"guard", "reach_out", "other"}, older \in BOOLEAN : Arbitrate(action, older)
    <2> SUFFICES ASSUME NEW action \in {"guard", "reach_out", "other"}, NEW older \in BOOLEAN,
                        Arbitrate(action, older)
                 PROVE  Calm
      BY <1>1, <1>4
    <2> DEFINE r == Rolled(mem, older)
    <2>1. r.pending = mem.pending /\ (r.dreamt => mem.dreamt) /\ r \in Record
      BY RolledCalm
    <2>2. mem' = [r EXCEPT !.frozen = @ \/ action = "guard"]
      BY DEF Arbitrate, Persist
    <2> HIDE DEF r
    <2>3. mem'.pending = r.pending /\ mem'.dreamt = r.dreamt
      BY <2>1, <2>2 DEF Record
    <2> QED
      BY <2>1, <2>3 DEF Calm
  <1>5. CASE \E until \in {0} \cup Pauses : Silence(until)
    <2>1. mem \in Record
      BY RolledCalm
    <2>2. mem'.pending = mem.pending /\ mem'.dreamt = mem.dreamt
      BY <1>5, <2>1 DEF Silence, Persist, Record
    <2> QED
      BY <1>1, <2>2 DEF Calm
  <1>6. CASE \E above \in BOOLEAN : BeatTicked(above)
    <2> PICK above \in BOOLEAN : BeatTicked(above)
      BY <1>6
    <2>1. pc = "tick" /\ (above => Dreams) /\ mem' = AfterTick(above)
      BY DEF BeatTicked, AfterTick, Persist
    <2>2. mem.count >= 2
      BY <2>1, AfterTickFacts
    <2>3. /\ mem.count <= over[mem.night] /\ mem.night \in {NoDay} \cup Days /\ mem.count \in 0..2
          /\ over \in [{NoDay} \cup Days -> 0..2]
      BY Standing DEF Here, Good, RecordOK, Record, Days, NoDay
    <2>4. over[mem.night] \in 0..2
      BY <2>3
    <2> QED
      BY <2>2, <2>3, <2>4
  <1>7. CASE \E need, concern, open \in BOOLEAN : BeatDone(need, concern, open)
    <2>1. mem'.pending = mem.pending /\ mem'.dreamt = mem.dreamt
      BY <1>7, BeatDoneFacts
    <2> QED
      BY <1>1, <2>1 DEF Calm
  <1>8. CASE Impulse
    <2>1. mem \in Record
      BY RolledCalm
    <2>2. mem'.pending = mem.pending /\ mem'.dreamt = mem.dreamt
      BY <1>8, <2>1 DEF Impulse, Persist, Record
    <2> QED
      BY <1>1, <2>2 DEF Calm
  <1>9. CASE Abort \/ Tick
    BY <1>1, <1>9 DEF Abort, Tick, Calm
  <1>10. CASE Crash
    BY <1>10, Standing DEF Crash
  <1> QED
    BY <1>2, <1>3, <1>4, <1>5, <1>6, <1>7, <1>8, <1>9, <1>10 DEF Next

(* Two beats of one night, and not of two nights, arm a dream (_dream_step), *)
(* when beats are aborted and when the night ends under a beat as well.      *)
THEOREM DreamsAreOfOneNight == Spec => DreamOfOneNight
  <1>1. HInv /\ [Next]_vars
          => [(/\ crashes' = crashes
               /\ ~mem.pending
               /\ mem'.pending \/ (~mem.dreamt /\ mem'.dreamt))
              => over[mem.night] >= 2]_vars
    BY DreamStep
  <1> QED
    BY <1>1, HeartbeatInvariant, PTL DEF Spec, DreamOfOneNight

------------------------------------------------------------------------------
(* Words keep their time: until when they wait is reckoned when they are     *)
(* made, whatever the beat read before.                                      *)

LEMMA DayEndTimely ==
  ASSUME HInv, NEW r, RecordOK(r, now), NEW kind \in {"dream", "concern"}
  PROVE  Timely(Make(kind, r, DayEnd)) /\ Make(kind, r, DayEnd).made = now
  <1> DEFINE w == Make(kind, r, DayEnd)
  <1>1. StateInv /\ now \in Nat
    BY Standing
  <1>2. w.kind = kind /\ w.made = now /\ w.expires = DayEnd /\ DayEnd \in Nat
    BY <1>1, DayEndFacts, MakeFacts
  <1> HIDE DEF w
  <1>3. ASSUME NEW t \in now..(DayEnd - 1)
        PROVE  Day(t) = Day(now)
    <2>1. /\ Day(now) \in Nat /\ Day(now) * DayLength <= now /\ Day(now) * DayLength \in Nat
          /\ DayEnd = (Day(now) + 1) * DayLength
      BY <1>1, DayFacts DEF DayEnd
    <2>2. /\ t \in Nat /\ now <= t /\ t < DayEnd
      BY <1>1, <1>2
    <2>3. Day(now) * DayLength <= t
      BY <1>1, <2>1, <2>2
    <2> QED
      BY <2>1, <2>2, <2>3, DayUnique
  <1>4. Timely(w)
    BY <1>2, <1>3 DEF Timely
  <1> QED
    BY <1>2, <1>4 DEF w

(* From now to the next quiet hours it is not quiet, if it is not now. *)
LEMMA NotQuietBefore ==
  ASSUME HInv, ~Quiet(now), NEW t \in now..(NextQuiet - 1)
  PROVE  ~Quiet(t)
  <1> DEFINE d == Day(now) * DayLength
             m == Minute(now)
  <1>1. /\ now \in Nat /\ DayLength \in Nat \ {0} /\ QuietStart \in 0..(DayLength - 1)
        /\ QuietEnd \in 0..(DayLength - 1) /\ Day(now) \in Nat
    BY Standing, ClockAssumption
  <1>2. /\ d \in Nat /\ m = now - d /\ m \in 0..(DayLength - 1) /\ d <= now
        /\ (Day(now) + 1) * DayLength = d + DayLength
    BY <1>1, DayFacts
  <1>3. NextQuiet = d + QuietStart + (IF m >= QuietStart THEN DayLength ELSE 0)
    BY DEF NextQuiet
  <1> HIDE DEF d, m
  <1>4. t \in Nat /\ now <= t /\ t < NextQuiet
    BY <1>1, <1>2, <1>3
  <1>5. ~Within(m, QuietStart, QuietEnd)
    BY DEF Quiet, m
  <1>6. ASSUME t < d + DayLength
        PROVE  Minute(t) = t - d
    <2>1. Day(t) = Day(now)
      BY <1>1, <1>2, <1>4, <1>6, DayUnique DEF d
    <2> QED
      BY <1>4, <2>1, DayFacts DEF d
  <1>7. ASSUME t >= d + DayLength, t < d + DayLength + DayLength
        PROVE  Minute(t) = t - (d + DayLength)
    <2>1. (Day(now) + 1 + 1) * DayLength = d + DayLength + DayLength /\ Day(now) + 1 \in Nat
      BY <1>1, <1>2
    <2>2. Day(t) = Day(now) + 1
      BY <1>2, <1>4, <1>7, <2>1, DayUnique
    <2> QED
      BY <1>2, <1>4, <2>2, DayFacts
  <1>8. ~Within(Minute(t), QuietStart, QuietEnd)
    <2>1. CASE m < QuietStart
      <3>1. Minute(t) = t - d /\ t - d >= m /\ t - d < QuietStart
        BY <1>1, <1>2, <1>3, <1>4, <1>6, <2>1
      <3> QED
        BY <1>1, <1>2, <1>4, <1>5, <2>1, <3>1 DEF Within
    <2>2. CASE ~(m < QuietStart)
      <3>1. QuietStart <= QuietEnd /\ m >= QuietEnd
        BY <1>1, <1>2, <1>5, <2>2 DEF Within
      <3>2. CASE t < d + DayLength
        BY <1>1, <1>2, <1>4, <1>6, <3>1, <3>2 DEF Within
      <3>3. CASE t >= d + DayLength
        <4>1. t < d + DayLength + DayLength /\ t - (d + DayLength) < QuietStart
          BY <1>1, <1>2, <1>3, <1>4, <2>2, <3>3
        <4> QED
          BY <1>1, <1>2, <1>4, <1>7, <3>1, <3>3, <4>1 DEF Within
      <3> QED
        BY <1>1, <1>2, <1>4, <3>2, <3>3
    <2> QED
      BY <2>1, <2>2
  <1> QED
    BY <1>8 DEF Quiet

LEMMA ContactTimely ==
  ASSUME HInv, Quiet(now) => beat.ts < now, NEW r, RecordOK(r, now),
         NEW kind \in {"contact", "night"}
  PROVE  Timely(Make(kind, r, ContactExpiry)) /\ Make(kind, r, ContactExpiry).made = now
  <1> DEFINE w == Make(kind, r, ContactExpiry)
  <1>1. StateInv /\ now \in Nat /\ Horizon \in Nat /\ beat.ts \in 0..now
    BY Standing, ClockAssumption DEF BeatOK
  <1>2. /\ w.kind = kind /\ w.ts = beat.ts /\ w.made = now /\ w.expires = ContactExpiry
        /\ ContactExpiry \in Nat
    BY <1>1, DayEndFacts, MakeFacts
  <1> HIDE DEF w
  <1>3. NextQuiet \in Nat /\ now < NextQuiet
    <2>1. /\ Day(now) * DayLength \in Nat /\ Minute(now) = now - Day(now) * DayLength
          /\ Minute(now) \in 0..(DayLength - 1)
          /\ DayLength \in Nat \ {0} /\ QuietStart \in 0..(DayLength - 1)
      BY <1>1, DayFacts, ClockAssumption
    <2> QED
      BY <1>1, <2>1 DEF NextQuiet
  <1>4. ContactExpiry <= NextQuiet
    BY <1>1, <1>3 DEF ContactExpiry
  <1>5. ASSUME NEW t \in now..(ContactExpiry - 1), ~Quiet(now)
        PROVE  ~Quiet(t)
    <2>1. t \in now..(NextQuiet - 1)
      BY <1>1, <1>2, <1>3, <1>4
    <2> QED
      BY <1>5, <2>1, NotQuietBefore
  <1>6. Timely(w)
    BY <1>2, <1>5 DEF Timely
  <1> QED
    BY <1>2, <1>6 DEF w

(* The words that wait are timely, and stay so when none but timely ones are *)
(* added.                                                                    *)
LEMMA TimeKept ==
  ASSUME TimeInv, InTheirTime, UNCHANGED <<spoken, now>>,
         \A w \in mem'.queue \cup disk'.queue :
           w \in mem.queue \cup disk.queue \/ (Timely(w) /\ w.made = now),
         pc' = "shadow" /\ beat'.ts = now => beat'.quiet = Quiet(now), now \in Nat
  PROVE  TimeInv' /\ InTheirTime'
  <1>1. \A w \in mem'.queue \cup disk'.queue : Timely(w) /\ w.made <= now
    BY DEF TimeInv
  <1>2. TimeInv'
    BY <1>1 DEF TimeInv, Aware, Timely, Quiet, Minute, Day
  <1>3. InTheirTime'
    BY DEF InTheirTime, QuietKept, DayBound, Quiet, Minute, Day
  <1> QED
    BY <1>2, <1>3

LEMMA AfterTickTimely ==
  ASSUME HInv, TimeInv, NEW above \in BOOLEAN, pc = "tick",
         NEW w \in AfterTick(above).queue
  PROVE  w \in mem.queue \/ (Timely(w) /\ w.made = now)
  <1>1. StateInv /\ RecordOK(mem, now)
    BY Standing
  <1>2. CASE Dreams
    <2> DEFINE q == Dreaming(mem, above)
    <2>1. RecordOK(q, now) /\ q.queue = mem.queue
      BY <1>1, DreamingFacts DEF SameWords
    <2> HIDE DEF q
    <2>2. Dreamt(q) = q \/ Dreamt(q).queue = q.queue \cup {Make("dream", q, DayEnd)}
      BY <1>1, <2>1, DreamtFacts
    <2>3. Timely(Make("dream", q, DayEnd)) /\ Make("dream", q, DayEnd).made = now
      BY <1>1, <2>1, DayEndTimely
    <2>4. AfterTick(above) = Dreamt(q)
      BY <1>2 DEF AfterTick, q
    <2>5. w \in mem.queue \/ w = Make("dream", q, DayEnd)
      BY <2>1, <2>2, <2>4
    <2> QED
      BY <2>3, <2>5
  <1>3. CASE ~Dreams
    BY <1>3 DEF AfterTick
  <1> QED
    BY <1>2, <1>3

LEMMA BeatDoneTimely ==
  ASSUME HInv, TimeInv, pc = "shadow", NEW trigger \in BOOLEAN, NEW concern \in BOOLEAN,
         NEW open \in BOOLEAN, NEW w \in Concerned(Contacted(mem, trigger, open), concern, open).queue
  PROVE  w \in mem.queue \/ (Timely(w) /\ w.made = now)
  <1> DEFINE c    == Contacted(mem, trigger, open)
             q    == Concerned(c, concern, open)
             kind == IF beat.window THEN "night" ELSE "contact"
  <1>1. /\ StateInv /\ RecordOK(mem, now) /\ beat.ts \in 0..now /\ now \in Nat
        /\ beat.ts = now => beat.quiet = Quiet(now)
    BY Standing DEF BeatOK, TimeInv, Aware
  <1>2. /\ ContactExpiry \in Nat /\ ContactExpiry <= MaxNow + 2 * DayLength + Horizon
        /\ DayEnd \in Nat /\ DayEnd <= MaxNow + 2 * DayLength + Horizon
        /\ kind \in Own /\ kind \in {"contact", "night"} /\ "concern" \in Own
    BY <1>1, DayEndFacts DEF Own
  <1>3. \A v \in c.queue : v \in mem.queue \/ (Timely(v) /\ v.made = now)
    <2>1. CASE ~(trigger /\ open /\ GatesPass(mem))
      BY <2>1 DEF Contacted
    <2>2. CASE trigger /\ open /\ GatesPass(mem)
      <3>1. c = Added(mem, kind, ContactExpiry)
        BY <2>2 DEF Contacted, Added
      <3> HIDE DEF kind, c
      <3>2. c.queue = mem.queue \cup {Make(kind, mem, ContactExpiry)}
        BY <1>1, <1>2, <2>2, <3>1, AddedFacts
      <3>3. Quiet(now) => beat.ts < now
        <4>1. ~beat.quiet
          BY <2>2, Zenon DEF GatesPass
        <4>2. Quiet(now) => beat.ts # now
          BY <1>1, <4>1, Zenon
        <4> QED
          BY <1>1, <4>2
      <3>4. Timely(Make(kind, mem, ContactExpiry)) /\ Make(kind, mem, ContactExpiry).made = now
        BY <1>1, <1>2, <3>3, ContactTimely
      <3> QED
        BY <3>2, <3>4
    <2> QED
      BY <2>1, <2>2
  <1>4. RecordOK(c, now)
    BY Standing, ContactedGood DEF Here, Good
  <1> HIDE DEF c, kind
  <1>5. \A v \in q.queue : v \in c.queue \/ (Timely(v) /\ v.made = now)
    <2>1. CASE ~(concern /\ open /\ GatesPass(c))
      BY <2>1 DEF Concerned
    <2>2. CASE concern /\ open /\ GatesPass(c)
      <3>1. q = Added(c, "concern", DayEnd)
        BY <2>2 DEF Concerned, Added
      <3> HIDE DEF q
      <3>2. q.queue = c.queue \cup {Make("concern", c, DayEnd)}
        BY <1>1, <1>2, <1>4, <2>2, <3>1, AddedFacts
      <3>3. Timely(Make("concern", c, DayEnd)) /\ Make("concern", c, DayEnd).made = now
        BY <1>1, <1>4, DayEndTimely
      <3> QED
        BY <3>2, <3>3
    <2> QED
      BY <2>1, <2>2
  <1> QED
    BY <1>3, <1>5 DEF c

(* What is told is told in its time. *)
LEMMA ImpulseTimely ==
  ASSUME HInv, TimeInv, InTheirTime, Impulse
  PROVE  TimeInv' /\ InTheirTime'
  <1> DEFINE Q == mem.queue \ Gone
  <1>1. /\ pc' = "idle" /\ mem'.queue \subseteq mem.queue /\ disk'.queue \subseteq mem.queue
        /\ spoken' \subseteq spoken \cup {Told(w) : w \in Q} /\ now' = now
    <2>1. mem \in Record
      BY RolledCalm
    <2>2. /\ mem'.queue = (IF Silenced(mem, now) THEN Q ELSE {}) /\ disk' = mem'
      BY <2>1 DEF Impulse, Persist, Record
    <2>3. pc' = "idle" /\ spoken' \subseteq spoken \cup {Told(w) : w \in Q} /\ now' = now
      BY DEF Impulse
    <2> QED
      BY <2>2, <2>3
  <1> HIDE DEF Q
  <1>2. TimeInv'
    <2>1. \A w \in mem'.queue \cup disk'.queue : Timely(w) /\ w.made <= now
      BY <1>1 DEF TimeInv
    <2> QED
      BY <1>1, <2>1 DEF TimeInv, Aware, Timely, Quiet, Minute, Day
  <1>3. ASSUME NEW w \in spoken'
        PROVE  /\ w.kind \in {"contact", "night"} /\ Quiet(w.at) => Quiet(w.made) /\ w.ts < w.made
               /\ w.kind \in {"dream", "concern"} => Day(w.at) = Day(w.made)
    <2>1. CASE w \in spoken
      BY <2>1 DEF InTheirTime, QuietKept, DayBound
    <2>2. CASE w \notin spoken
      <3>1. PICK v \in Q : w = Told(v)
        BY <1>1, <1>3, <2>2
      <3>2. v \in mem.queue /\ ~(now >= v.expires)
        BY DEF Q, Gone
      <3>3. v.made \in Nat /\ v.expires \in Nat /\ v.made <= now /\ now \in Nat
        BY <3>2, Standing, ClockAssumption, BoundsAssumption DEF RecordOK, Record, Word, TimeInv
      <3>4. now \in v.made..(v.expires - 1)
        BY <3>2, <3>3
      <3>5. Timely(v)
        BY <3>2 DEF TimeInv
      <3>6. /\ v.kind \in {"contact", "night"} /\ Quiet(now) => Quiet(v.made) /\ v.ts < v.made
            /\ v.kind \in {"dream", "concern"} => Day(now) = Day(v.made)
        BY <3>4, <3>5, Zenon DEF Timely
      <3>7. w.kind = v.kind /\ w.ts = v.ts /\ w.made = v.made /\ w.at = now
        BY <3>1 DEF Told
      <3> QED
        BY <3>6, <3>7
    <2> QED
      BY <2>1, <2>2
  <1>4. InTheirTime'
    BY <1>3 DEF InTheirTime, QuietKept, DayBound, Quiet, Minute, Day
  <1> QED
    BY <1>2, <1>4

LEMMA TimeStep ==
  ASSUME HInv, TimeInv, InTheirTime, [Next]_vars
  PROVE  TimeInv' /\ InTheirTime'
  <1> now \in Nat
    BY Standing
  <1>1. ASSUME NEW older \in BOOLEAN, SubmitStart(older) \/ BeatStart(older)
        PROVE  TimeInv' /\ InTheirTime'
    <2> DEFINE r == Rolled(mem, older)
    <2>1. r.queue = mem.queue /\ r \in Record
      BY Standing, RolledFacts DEF RecordOK
    <2>2. /\ mem' = r \/ mem' = [r EXCEPT !.streak = 0]
          /\ disk' = disk /\ UNCHANGED <<spoken, now>>
          /\ pc' = "submit" \/ (pc' = "tick" /\ beat' = [NoBeat EXCEPT !.ts = now, !.day = Day(now)])
      BY <1>1 DEF SubmitStart, BeatStart
    <2> HIDE DEF r
    <2>3. mem'.queue = mem.queue
      BY <2>1, <2>2 DEF Record
    <2>4. pc' # "shadow"
      BY <2>2
    <2> QED
      BY <2>2, <2>3, <2>4, TimeKept
  <1>2. ASSUME NEW reachOut \in BOOLEAN, SubmitDone(reachOut)
        PROVE  TimeInv' /\ InTheirTime'
    <2>1. mem' = mem /\ disk' = mem /\ pc' = "idle" /\ UNCHANGED <<spoken, now>>
      BY <1>2 DEF SubmitDone, Persist
    <2> QED
      BY <2>1, TimeKept
  <1>3. ASSUME NEW action \in {"guard", "reach_out", "other"}, NEW older \in BOOLEAN,
               Arbitrate(action, older)
        PROVE  TimeInv' /\ InTheirTime'
    <2> DEFINE r == Rolled(mem, older)
    <2>1. r.queue = mem.queue /\ r \in Record
      BY Standing, RolledFacts DEF RecordOK
    <2>2. /\ mem' = [r EXCEPT !.frozen = @ \/ action = "guard"] /\ disk' = mem'
          /\ pc = "idle" /\ UNCHANGED <<pc, spoken, now>>
      BY <1>3 DEF Arbitrate, Persist
    <2> HIDE DEF r
    <2>3. mem'.queue = mem.queue
      BY <2>1, <2>2 DEF Record
    <2> QED
      BY <2>2, <2>3, TimeKept
  <1>4. ASSUME NEW until \in {0} \cup Pauses, Silence(until)
        PROVE  TimeInv' /\ InTheirTime'
    <2>1. mem \in Record
      BY RolledCalm
    <2>2. mem'.queue = mem.queue /\ disk' = mem' /\ pc = "idle" /\ UNCHANGED <<pc, spoken, now>>
      BY <1>4, <2>1 DEF Silence, Persist, Record
    <2> QED
      BY <2>2, TimeKept
  <1>5. ASSUME NEW above \in BOOLEAN, BeatTicked(above)
        PROVE  TimeInv' /\ InTheirTime'
    <2>1. /\ pc = "tick" /\ mem' = AfterTick(above) /\ (disk' = disk \/ disk' = mem')
          /\ pc' = "shadow" => beat' = [beat EXCEPT !.quiet = Quiet(now), !.window = NightWindow(now)]
          /\ UNCHANGED <<spoken, now>>
      BY <1>5 DEF BeatTicked, AfterTick, Persist
    <2>2. beat \in [ts : Nat, day : Nat, quiet : BOOLEAN, window : BOOLEAN]
      BY <2>1, Standing DEF BeatOK
    <2>3. pc' = "shadow" => beat'.quiet = Quiet(now)
      BY <2>1, <2>2
    <2>4. \A w \in mem'.queue \cup disk'.queue :
            w \in mem.queue \cup disk.queue \/ (Timely(w) /\ w.made = now)
      BY <2>1, AfterTickTimely
    <2> QED
      BY <2>1, <2>3, <2>4, TimeKept
  <1>6. ASSUME NEW need \in BOOLEAN, NEW concern \in BOOLEAN, NEW open \in BOOLEAN,
               BeatDone(need, concern, open)
        PROVE  TimeInv' /\ InTheirTime'
    <2> DEFINE trigger == need \/ reach = beat.day
    <2>1. /\ pc = "shadow" /\ mem' = Concerned(Contacted(mem, trigger, open), concern, open)
          /\ disk' = mem' /\ pc' = "idle" /\ UNCHANGED <<spoken, now>>
      BY <1>6 DEF BeatDone, Persist
    <2>2. trigger \in BOOLEAN
      OBVIOUS
    <2> HIDE DEF trigger
    <2>3. \A w \in mem'.queue \cup disk'.queue :
            w \in mem.queue \cup disk.queue \/ (Timely(w) /\ w.made = now)
      BY <2>1, <2>2, BeatDoneTimely
    <2> QED
      BY <2>1, <2>3, TimeKept
  <1>7. ASSUME Abort \/ Crash
        PROVE  TimeInv' /\ InTheirTime'
    <2>1. /\ pc' = "idle" /\ disk' = disk /\ (mem' = mem \/ mem' = disk) /\ UNCHANGED <<spoken, now>>
      BY <1>7 DEF Abort, Crash
    <2> QED
      BY <2>1, TimeKept
  <1>8. ASSUME Tick
        PROVE  TimeInv' /\ InTheirTime'
    <2>1. now' = now + 1 /\ UNCHANGED <<mem, disk, pc, beat, spoken>>
      BY <1>8 DEF Tick
    <2>2. TimeInv'
      <3>1. beat'.ts # now'
        BY <2>1, Standing DEF BeatOK
      <3>2. ASSUME NEW w \in mem'.queue \cup disk'.queue
            PROVE  Timely(w) /\ w.made <= now'
        <4>1. w \in mem.queue \cup disk.queue /\ Timely(w) /\ w.made <= now
          BY <2>1 DEF TimeInv
        <4>2. w.made \in Nat
          BY <4>1, Standing, ClockAssumption, BoundsAssumption DEF RecordOK, Record, Word
        <4> QED
          BY <2>1, <4>1, <4>2
      <3> QED
        BY <3>1, <3>2 DEF TimeInv, Aware, Timely, Quiet, Minute, Day
    <2>3. InTheirTime'
      BY <2>1 DEF InTheirTime, QuietKept, DayBound, Quiet, Minute, Day
    <2> QED
      BY <2>2, <2>3
  <1>9. ASSUME UNCHANGED vars
        PROVE  TimeInv' /\ InTheirTime'
    <2>1. UNCHANGED <<mem, disk, pc, beat, spoken, now>>
      BY <1>9 DEF vars
    <2> QED
      BY <2>1, TimeKept DEF TimeInv, Aware
  <1> QED
    BY <1>1, <1>2, <1>3, <1>4, <1>5, <1>6, <1>7, <1>8, <1>9, ImpulseTimely DEF Next

LEMMA TimeInit ==
  ASSUME Init
  PROVE  TimeInv /\ InTheirTime
  <1>1. PICK level \in StartLevels : mem = Bound(level)
    BY DEF Init
  <1>2. mem.queue = {} /\ disk.queue = {} /\ spoken = {} /\ pc = "idle"
    BY <1>1 DEF Init, Bound
  <1> QED
    BY <1>2 DEF TimeInv, Aware, InTheirTime, QuietKept, DayBound

(* However slow the engine, whatever beats abort and however often she is    *)
(* killed: no contact word is handed over in the quiet hours that was not    *)
(* carried into them by its beat, and no dream or concern on another day     *)
(* than the one it was made on (make_proactive's expiry, day_end_ts).        *)
THEOREM WordsKeepTheirTime == Spec => []InTheirTime
  <1>1. HInv /\ TimeInv /\ InTheirTime /\ [Next]_vars => (TimeInv /\ InTheirTime)'
    BY TimeStep
  <1> QED
    BY <1>1, TimeInit, HeartbeatInvariant, PTL DEF Spec

(* A record's day has at most one dream that is told, however slow the       *)
(* engine (dream_done_today).                                                *)
THEOREM OneDreamADay == Spec => []OneOfADay
  <1>1. HInv => OneOfADay
    <2> SUFFICES ASSUME HInv, NEW v \in spoken, NEW w \in spoken,
                        v.kind = "dream", w.kind = "dream", v.day = w.day
                 PROVE  v = w
      BY DEF OneOfADay
    <2> DEFINE S == Sel(spoken, {"dream"}, v.day, -1)
    <2>1. /\ Dreamed(mem, spoken) /\ IsFiniteSet(spoken) /\ IsFiniteSet(mem.queue)
          /\ v.ts \in Nat /\ w.ts \in Nat /\ v.day \in Days
      BY Standing DEF Here, Good, SpokenOK, RecordOK
    <2>2. v \in S /\ w \in S
      BY <2>1 DEF Sel
    <2>3. IsFiniteSet(S) /\ Cardinality(S) \in Nat
          /\ Cardinality(Sel(mem.queue, {"dream"}, v.day, -1)) \in Nat
      BY <2>1, SelFinite
    <2>4. Cardinality(S) <= 1
      BY <2>1, <2>3 DEF Dreamed, Count
    <2> HIDE DEF S
    <2>5. S # {} /\ (Cardinality(S) = 0 => S = {})
      BY <2>2, <2>3, FS_EmptySet
    <2>6. Cardinality(S) = 1
      BY <2>3, <2>4, <2>5
    <2>7. PICK x : S = {x}
      BY <2>3, <2>6, FS_Singleton
    <2> QED
      BY <2>2, <2>7
  <1> QED
    BY <1>1, HeartbeatInvariant, PTL
==============================================================================
