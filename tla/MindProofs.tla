------------------------------ MODULE MindProofs -------------------------------
(* Proofs about the tools that configure, replay and evolve her, and what   *)
(* holds of all that goes on beside the sessions.                           *)
EXTENDS Mind, GrownProofs

(* Each step is of one part; the others stand still.                         *)
LEMMA PartSteps ==
  ASSUME [Next]_vars
  PROVE  /\ [Field!Next]_fvars /\ [Wants!Next]_mvars /\ [Age!Next]_avars /\ [Printed!Next]_bvars
         /\ [Night!Next]_nvars /\ [Grouped!Next]_tvars /\ [Again!Next]_rvars
         /\ [Evolved!Next]_evars /\ [Replay!Next]_xvars /\ [Set!Next]_svars
         /\ part' = part
  <1>1. CASE UNCHANGED vars
    BY <1>1 DEF vars
  <1>2. CASE Next
    BY <1>2 DEF Next, Others
  <1> QED
    BY <1>1, <1>2

------------------------------------------------------------------------------

(* A configuration is what load made of what stood there, and nothing is    *)
(* edited while it is in use.                                               *)
SetInv ==
  /\ Set!TypeOK
  /\ \/ config = Set!Down
     \/ config = Set!Raised /\ (Set!Overflows(Set!Configured) \/ Set!Poisoned(Set!Configured))
     \/ config = [status |-> "up", of |-> Set!Configured]

LEMMA SetConstants ==
  /\ Hours \subseteq 0..23 /\ Hours # {} /\ MaxEdits \in Nat
  BY Constants DEF Set!SettingsAssumption, Set!DayHours

LEMMA SetBegins == Set!Init => SetInv
  <1> SUFFICES ASSUME Set!Init PROVE SetInv
    OBVIOUS
  <1>1. hours \in [start : Hours, end : Hours]
    <2>1. PICK h \in Hours : TRUE
      BY SetConstants
    <2>2. [start |-> h, end |-> h] \in [start : Hours, end : Hours]
      OBVIOUS
    <2>3. \E r \in [start : Hours, end : Hours] : r.start = r.end
      BY <2>2
    <2> QED
      BY <2>3 DEF Set!Init
  <1>2. \A S : Set!None(S) \in [S -> {"absent"}]
    BY DEF Set!None
  <1>3. file \in [Set!Keys -> Set!Values] /\ older \in [Set!Keys -> Set!Values]
    BY <1>2 DEF Set!Init, Set!Values
  <1>4. env \in [Set!EnvKeys -> Set!Values \ {"null"}]
    BY <1>2 DEF Set!Init, Set!Values
  <1>5. config = Set!Down /\ config.status = "down" /\ evolved \in BOOLEAN
    BY DEF Set!Init, Set!Down
  <1>6. edits \in 0..MaxEdits
    BY SetConstants DEF Set!Init
  <1> QED
    BY <1>1, <1>3, <1>4, <1>5, <1>6 DEF SetInv, Set!TypeOK

LEMMA SetStep == SetInv /\ [Set!Next]_svars => SetInv'
  <1> SUFFICES ASSUME SetInv, [Set!Next]_svars PROVE SetInv'
    OBVIOUS
  <1>1. CASE UNCHANGED svars
    <2>1. Set!Configured' = Set!Configured
      BY <1>1 DEF svars, Set!Configured, Set!Picked, Set!PickStr, Set!PickInt, Set!PickPort, Set!PickFloat,
                  Set!PickBool, Set!Env, Set!Merged
    <2> HIDE DEF Set!Configured
    <2> QED
      BY <1>1, <2>1 DEF svars, SetInv, Set!TypeOK, Set!Overflows, Set!Poisoned
  <1>2. CASE Set!Load
    <2>1. file' = file /\ older' = older /\ env' = env /\ evolved' = evolved /\ hours' = hours /\ edits' = edits
      BY <1>2 DEF Set!Load
    <2>2. Set!Configured' = Set!Configured
      BY <2>1 DEF Set!Configured, Set!Picked, Set!PickStr, Set!PickInt, Set!PickPort, Set!PickFloat,
                  Set!PickBool, Set!Env, Set!Merged
    <2>3. DOMAIN Set!Configured = Set!Keys
      BY DEF Set!Configured
    <2>4. (Set!Overflows(Set!Configured) <=> Set!Overflows(Set!Configured)')
          /\ (Set!Poisoned(Set!Configured) <=> Set!Poisoned(Set!Configured)')
      <3> HIDE DEF Set!Configured
      <3> QED
        BY <2>1, <2>2 DEF Set!Overflows, Set!Poisoned
    <2>5. config' = IF Set!Overflows(Set!Configured) \/ Set!Poisoned(Set!Configured) THEN Set!Raised
                    ELSE [status |-> "up", of |-> Set!Configured]
      BY <1>2 DEF Set!Load
    <2>6. \/ config' = Set!Raised /\ (Set!Overflows(Set!Configured)' \/ Set!Poisoned(Set!Configured)')
          \/ config' = [status |-> "up", of |-> Set!Configured']
      BY <2>2, <2>4, <2>5
    <2>7. Set!TypeOK'
      BY <2>1, <2>3, <2>5 DEF SetInv, Set!TypeOK, Set!Raised
    <2> QED
      BY <2>6, <2>7 DEF SetInv
  <1>3. CASE Set!Stop
    BY <1>3 DEF Set!Stop, SetInv, Set!TypeOK, Set!Down
  <1>4. ASSUME Set!Edits, hours' \in [start : Hours, end : Hours], evolved' \in BOOLEAN,
               file' \in [Set!Keys -> Set!Values], older' \in [Set!Keys -> Set!Values],
               env' \in [Set!EnvKeys -> Set!Values \ {"null"}]
        PROVE  SetInv'
    BY <1>4, SetConstants DEF Set!Edits, SetInv, Set!TypeOK, Set!Down
  <1>5. Set!TypeOK
    BY DEF SetInv
  <1>6. CASE Set!Evolve
    BY <1>4, <1>5, <1>6 DEF Set!Evolve, Set!TypeOK
  <1>7. CASE \E k \in Set!Keys, v \in Set!Values : Set!WriteFile(k, v) \/ Set!WriteOlder(k, v)
    BY <1>4, <1>5, <1>7 DEF Set!WriteFile, Set!WriteOlder, Set!TypeOK
  <1>8. CASE \E k \in Set!EnvKeys, v \in Set!Values \ {"null"} : Set!Export(k, v)
    BY <1>4, <1>5, <1>8 DEF Set!Export, Set!TypeOK
  <1>9. CASE \E s, e \in Hours : Set!Rest(s, e)
    <2>1. PICK s \in Hours, e \in Hours : Set!Rest(s, e)
      BY <1>9
    <2>2. file' \in [Set!Keys -> Set!Values]
      BY <1>5, <2>1 DEF Set!Rest, Set!TypeOK, Set!Values, Set!Keys
    <2>3. hours' \in [start : Hours, end : Hours]
      BY <2>1 DEF Set!Rest
    <2> QED
      BY <1>4, <1>5, <2>1, <2>2, <2>3 DEF Set!Rest, Set!TypeOK
  <1> QED
    BY <1>1, <1>2, <1>3, <1>6, <1>7, <1>8, <1>9 DEF Set!Next

------------------------------------------------------------------------------
LEMMA FileBefore == SetInv => Set!FileBeforeEnv
  <1> SUFFICES ASSUME SetInv, Set!Up, NEW k \in Set!EnvKeys \ {"http_port"}
               PROVE  /\ Set!Merged[k] = "own" => config.of[k] = "own"
                      /\ Set!Merged[k] = "absent" /\ env[k] = "own" => config.of[k] = "own"
    BY DEF Set!FileBeforeEnv
  <1>1. config.of = Set!Configured
    BY DEF SetInv, Set!Up, Set!Down, Set!Raised
  <1>2. k \in Set!Keys /\ k \in {"data_dir", "quiet_hours", "ui_enabled", "transport"} /\ Set!Env(k) = env[k]
    BY DEF Set!EnvKeys, Set!Keys, Set!Env
  <1>3. config.of[k] = Set!Picked(k)
    BY <1>1, <1>2 DEF Set!Configured
  <1>4. /\ Set!Merged[k] = "own" => Set!PickStr(k) = "own" /\ Set!PickBool(k) = "own"
        /\ Set!Merged[k] = "absent" /\ env[k] = "own" => Set!PickStr(k) = "own" /\ Set!PickBool(k) = "own"
    BY <1>2 DEF Set!PickStr, Set!PickBool, Set!Missing
  <1>5. Set!Picked(k) = Set!PickStr(k) \/ Set!Picked(k) = Set!PickBool(k)
        \/ Set!Picked(k) = (IF Set!PickStr(k) = "own" THEN "own" ELSE Set!Default)
    BY <1>2 DEF Set!Picked, Set!Bools
  <1> QED
    BY <1>3, <1>4, <1>5

LEMMA Refused == SetInv => Set!RefusedForCause
  <1> SUFFICES ASSUME SetInv, config = Set!Raised
               PROVE  \/ evolved /\ Set!Merged["evolution_enabled"] \in {"own", "infinite"}
                      \/ \E k \in Set!Ints : Set!Merged[k] = "infinite"
    BY DEF Set!RefusedForCause
  <1>1. CASE Set!Overflows(Set!Configured)
    <2>1. PICK k \in Set!Ints : Set!Configured[k] = "overflow"
      BY <1>1 DEF Set!Overflows
    <2>2. Set!Picked(k) = "overflow"
      BY <2>1 DEF Set!Configured, Set!Ints, Set!Keys
    <2>3. Set!AsInt(Set!Merged[k]) = "overflow"
      BY <2>2 DEF Set!Picked, Set!Ints, Set!Bools, Set!PickPort, Set!PickInt, Set!Default
    <2>4. Set!Merged[k] = "infinite"
      BY <2>3 DEF Set!AsInt, Set!Default
    <2> QED
      BY <2>4
  <1>2. CASE Set!Poisoned(Set!Configured)
    <2>1. Set!Picked("evolution_enabled") = "own" /\ evolved
      BY <1>2 DEF Set!Poisoned, Set!Configured, Set!Keys
    <2>2. Set!PickBool("evolution_enabled") = "own"
      BY <2>1 DEF Set!Picked, Set!Bools
    <2>3. Set!Env("evolution_enabled") = "absent"
      BY DEF Set!Env, Set!EnvKeys
    <2> QED
      BY <2>1, <2>2, <2>3 DEF Set!PickBool, Set!Default
  <1> QED
    BY <1>1, <1>2 DEF SetInv, Set!Raised, Set!Down

LEMMA Around ==
  ASSUME NEW s \in Int, NEW e \in Int, 0 <= s, s <= 23, 0 <= e, e <= 23,
         NEW S, S = {h \in 0..23 : \/ (s < e /\ s <= h /\ h < e)
                                   \/ (s > e /\ (h >= s \/ h < e))}
  PROVE  Set!Cardinality(S) = (e - s) % 24
  <1>0. Set!Cardinality(S) = Cardinality(S)
    BY DEF Set!Cardinality, Cardinality
  <1>1. CASE s = e
    <2>1. S = {}
      BY <1>1
    <2>2. (e - s) % 24 = 0
      BY <1>1
    <2> QED
      BY <1>0, <2>1, <2>2, FS_EmptySet
  <1>2. CASE s < e
    <2>1. S = s..(e - 1)
      BY <1>2
    <2>2. ~(s > e - 1) /\ e - 1 \in Int /\ (e - 1) - s + 1 = e - s
      BY <1>2
    <2>3. Cardinality(s..(e - 1)) = e - s
      BY <2>2, FS_Interval
    <2>4. (e - s) % 24 = e - s
      BY <1>2
    <2> QED
      BY <1>0, <2>1, <2>3, <2>4
  <1>3. CASE s > e
    <2>1. S = (s..23) \cup (0..(e - 1))
      BY <1>3
    <2>2. IsFiniteSet(s..23) /\ Cardinality(s..23) = 24 - s
      <3>1. ~(s > 23) /\ 23 - s + 1 = 24 - s
        OBVIOUS
      <3> QED
        BY <3>1, FS_Interval
    <2>3. IsFiniteSet(0..(e - 1)) /\ Cardinality(0..(e - 1)) = e
      <3>1. (IF 0 > e - 1 THEN 0 ELSE (e - 1) - 0 + 1) = e /\ e - 1 \in Int
        OBVIOUS
      <3> QED
        BY <3>1, FS_Interval
    <2>4. (s..23) \cap (0..(e - 1)) = {}
      BY <1>3
    <2>5. Cardinality({}) = 0
      BY FS_EmptySet
    <2>6. Cardinality(S) = (24 - s) + e - 0
      <3> DEFINE A == s..23
                 B == 0..(e - 1)
      <3> HIDE DEF A, B
      <3>1. Cardinality(A \cup B) = Cardinality(A) + Cardinality(B) - Cardinality(A \cap B)
        BY <2>2, <2>3, FS_Union DEF A, B
      <3>2. S = A \cup B /\ Cardinality(A) = 24 - s /\ Cardinality(B) = e /\ Cardinality(A \cap B) = 0
        BY <2>1, <2>2, <2>3, <2>4, <2>5, Zenon DEF A, B
      <3> QED
        BY <3>1, <3>2
    <2>7. (e - s) % 24 = (24 - s) + e - 0
      BY <1>3
    <2> QED
      BY <1>0, <2>6, <2>7
  <1> QED
    BY <1>1, <1>2, <1>3

LEMMA QuietHolds == SetInv => Set!QuietAround
  <1> SUFFICES ASSUME SetInv, Set!Up
               PROVE  Set!Cardinality({h \in 0..(Set!DayHours - 1) : Set!InQuietHours(h)})
                        = (Set!Quiet.end - Set!Quiet.start) % Set!DayHours
    BY DEF Set!QuietAround
  <1>1. /\ Set!Quiet.start \in Int /\ 0 <= Set!Quiet.start /\ Set!Quiet.start <= 23
        /\ Set!Quiet.end \in Int /\ 0 <= Set!Quiet.end /\ Set!Quiet.end <= 23
    <2>1. hours.start \in 0..23 /\ hours.end \in 0..23
      BY SetConstants DEF SetInv, Set!TypeOK
    <2> QED
      BY <2>1 DEF Set!Quiet
  <1> DEFINE s == Set!Quiet.start
             e == Set!Quiet.end
             S == {h \in 0..(Set!DayHours - 1) : Set!InQuietHours(h)}
  <1>2. S = {h \in 0..23 : \/ (s < e /\ s <= h /\ h < e)
                            \/ (s > e /\ (h >= s \/ h < e))}
    BY DEF Set!InQuietHours, Set!DayHours
  <1> HIDE DEF s, e, S
  <1>3. Set!Cardinality(S) = (e - s) % 24
    BY <1>1, <1>2, Around DEF s, e
  <1> QED
    BY <1>3 DEF S, s, e, Set!DayHours

------------------------------------------------------------------------------
BenchRecords == [kind : Replay!EventKinds, verdict : Replay!Verdicts, action : Replay!Actions,
                 at : Nat, p : 0..100, swallowed : Nat]
Milli   == 0..1000
Fakes   == [pressure : Milli, fatigue : Milli, paused : BOOLEAN, sealed : BOOLEAN]
Proxies == [p : 0..100, swallowed : Nat, outbox : Nat]
Slots   == [due : {"none", "event", "failed"}, day : 0..LastIndex, at : 0..(DayLength - 1)]

BenchTypes ==
  /\ time \in Nat /\ time <= (LastIndex + 1) * DayLength
  /\ fake \in Fakes /\ proxy \in Proxies /\ slot \in Slots
  /\ begun \in BOOLEAN /\ trace \in Seq(BenchRecords)

(* The last record of some kinds before the n-th, and how many words were   *)
(* swallowed up to the n-th.                                                *)
Latest(tr, K, n) == Replay!Max({0} \cup {i \in 1..(n - 1) : tr[i].kind \in K})
Gone(tr, n) == Cardinality({j \in 1..n : tr[j].action = "SWALLOW"})
Left(n) == IF n > 100 THEN 0 ELSE 100 - n

GapsKept ==
  /\ Replay!BeatsFillTheGaps
  /\ trace # <<>> => trace[Len(trace)].at = time

AddsUp ==
  /\ \A i \in 1..Len(trace) : trace[i].swallowed = Gone(trace, i) /\ trace[i].p = Left(Gone(trace, i))
  /\ proxy.swallowed = Gone(trace, Len(trace)) /\ proxy.p = Left(Gone(trace, Len(trace)))

Begin == {"farewell_begin"}
Ends  == {"reset", "farewell_confirm"}

Hushed(tr, i) ==
  \E j \in (Latest(tr, {"reset"}, i) + 1)..(i - 1) : tr[j].kind = "pause" \/ tr[j].verdict = "SEALED"

ToldSealed ==
  /\ \A i \in 1..Len(trace) :
       /\ trace[i].verdict = "SEALED" => Latest(trace, Begin, i) > Latest(trace, Ends, i)
       /\ Hushed(trace, i) => trace[i].action = "hold"
  /\ begun => Latest(trace, Begin, Len(trace) + 1) > Latest(trace, Ends, Len(trace) + 1)
  /\ Hushed(trace, Len(trace) + 1) => fake.sealed \/ fake.paused
BenchInv == BenchTypes /\ GapsKept /\ AddsUp /\ ToldSealed

LEMMA BenchConstants ==
  /\ Beat \in Nat \ {0} /\ DayLength \in Nat \ {0} /\ LastIndex \in Nat
  /\ \A t \in Tiers : t.pressure \in Int /\ t.fatigue \in Int
  BY Constants DEF Replay!BenchAssumption

------------------------------------------------------------------------------
LEMMA LatestIs ==
  ASSUME NEW tr, NEW K, NEW n \in Nat \ {0}
  PROVE  /\ Latest(tr, K, n) \in 0..(n - 1)
         /\ Latest(tr, K, n) # 0 => tr[Latest(tr, K, n)].kind \in K
         /\ \A i \in 1..(n - 1) : tr[i].kind \in K => i <= Latest(tr, K, n)
  <1> DEFINE T == {0} \cup {i \in 1..(n - 1) : tr[i].kind \in K}
  <1>1. n - 1 \in Nat /\ T \in SUBSET (0..(n - 1)) /\ T # {}
    OBVIOUS
  <1>2. Latest(tr, K, n) \in T /\ (\A k \in T : k <= Latest(tr, K, n))
    <2> HIDE DEF T
    <2>1. LET m == CHOOSE x \in T : \A y \in T : x >= y
          IN m \in T /\ (\A k \in T : k <= m)
      BY <1>1, Greatest
    <2>2. Latest(tr, K, n) = CHOOSE x \in T : \A y \in T : x >= y
      BY DEF Latest, Replay!Max, T
    <2> QED
      BY <2>1, <2>2
  <1> QED
    BY <1>1, <1>2

LEMMA LatestUnique ==
  ASSUME NEW tr, NEW K, NEW n \in Nat \ {0}, NEW m \in 0..(n - 1),
         m # 0 => tr[m].kind \in K,
         \A i \in 1..(n - 1) : tr[i].kind \in K => i <= m
  PROVE  Latest(tr, K, n) = m
  <1> DEFINE l == Latest(tr, K, n)
  <1>1. /\ l \in 0..(n - 1) /\ (l # 0 => tr[l].kind \in K)
        /\ \A i \in 1..(n - 1) : tr[i].kind \in K => i <= l
    BY LatestIs
  <1> HIDE DEF l
  <1>2. m <= l
    BY <1>1
  <1>3. l <= m
    BY <1>1
  <1> QED
    BY <1>1, <1>2, <1>3 DEF l

LEMMA LatestSame ==
  ASSUME NEW tr, NEW ur, NEW K, NEW n \in Nat \ {0}, \A i \in 1..(n - 1) : ur[i] = tr[i]
  PROVE  Latest(ur, K, n) = Latest(tr, K, n)
  <1> PICK m \in 0..(n - 1) : m = Latest(tr, K, n)
    BY LatestIs
  <1>1. (m # 0 => tr[m].kind \in K) /\ (\A i \in 1..(n - 1) : tr[i].kind \in K => i <= m)
    BY LatestIs
  <1>2. (m # 0 => ur[m].kind \in K) /\ (\A i \in 1..(n - 1) : ur[i].kind \in K => i <= m)
    BY <1>1
  <1> QED
    BY <1>2, LatestUnique

LEMMA LatestNext ==
  ASSUME NEW tr, NEW ur, NEW K, NEW n \in Nat \ {0}, \A i \in 1..(n - 1) : ur[i] = tr[i]
  PROVE  /\ ur[n].kind \in K => Latest(ur, K, n + 1) = n
         /\ ur[n].kind \notin K => Latest(ur, K, n + 1) = Latest(tr, K, n)
  <1> PICK m \in 0..(n - 1) : m = Latest(tr, K, n)
    BY LatestIs
  <1>1. (m # 0 => tr[m].kind \in K) /\ (\A i \in 1..(n - 1) : tr[i].kind \in K => i <= m)
    BY LatestIs
  <1>2. CASE ur[n].kind \in K
    <2>1. \A i \in 1..((n + 1) - 1) : ur[i].kind \in K => i <= n
      OBVIOUS
    <2> QED
      BY <1>2, <2>1, LatestUnique, n \in 0..((n + 1) - 1), n + 1 \in Nat \ {0}
  <1>3. CASE ur[n].kind \notin K
    <2>1. (m # 0 => ur[m].kind \in K) /\ (\A i \in 1..((n + 1) - 1) : ur[i].kind \in K => i <= m)
      BY <1>1, <1>3
    <2> QED
      BY <1>3, <2>1, LatestUnique, m \in 0..((n + 1) - 1), n + 1 \in Nat \ {0}
  <1> QED
    BY <1>2, <1>3

LEMMA GoneSame ==
  ASSUME NEW tr, NEW ur, NEW n \in Nat, \A i \in 1..n : ur[i] = tr[i]
  PROVE  Gone(ur, n) = Gone(tr, n) /\ Gone(tr, n) \in Nat
  <1>1. {j \in 1..n : ur[j].action = "SWALLOW"} = {j \in 1..n : tr[j].action = "SWALLOW"}
    OBVIOUS
  <1>2. IsFiniteSet({j \in 1..n : tr[j].action = "SWALLOW"})
    BY FS_Interval, FS_Subset, 1 \in Int, n \in Int
  <1> QED
    BY <1>1, <1>2, FS_CardinalityType DEF Gone

LEMMA GoneNext ==
  ASSUME NEW tr, NEW ur, NEW n \in Nat, \A i \in 1..n : ur[i] = tr[i]
  PROVE  /\ ur[n + 1].action = "SWALLOW" => Gone(ur, n + 1) = Gone(tr, n) + 1
         /\ ur[n + 1].action # "SWALLOW" => Gone(ur, n + 1) = Gone(tr, n)
  <1> DEFINE S == {j \in 1..n : tr[j].action = "SWALLOW"}
             T == {j \in 1..(n + 1) : ur[j].action = "SWALLOW"}
  <1>1. IsFiniteSet(S) /\ n + 1 \notin S
    BY FS_Interval, FS_Subset, 1 \in Int, n \in Int
  <1>2. CASE ur[n + 1].action = "SWALLOW"
    <2>1. T = S \cup {n + 1}
      BY <1>2
    <2> HIDE DEF S, T
    <2> QED
      BY <1>1, <1>2, <2>1, FS_AddElement DEF Gone, S, T
  <1>3. CASE ur[n + 1].action # "SWALLOW"
    <2>1. T = S
      BY <1>3
    <2> QED
      BY <1>3, <2>1 DEF Gone
  <1> QED
    BY <1>2, <1>3

LEMMA HushedSame ==
  ASSUME NEW tr, NEW ur, NEW n \in Nat \ {0}, \A i \in 1..(n - 1) : ur[i] = tr[i]
  PROVE  Hushed(ur, n) <=> Hushed(tr, n)
  <1>1. Latest(ur, {"reset"}, n) = Latest(tr, {"reset"}, n) /\ Latest(tr, {"reset"}, n) \in 0..(n - 1)
    BY LatestSame, LatestIs
  <1> QED
    BY <1>1 DEF Hushed

LEMMA HushedNext ==
  ASSUME NEW tr, NEW ur, NEW n \in Nat \ {0}, \A i \in 1..(n - 1) : ur[i] = tr[i]
  PROVE  Hushed(ur, n + 1) <=> /\ ur[n].kind # "reset"
                               /\ Hushed(tr, n) \/ ur[n].kind = "pause" \/ ur[n].verdict = "SEALED"
  <1> PICK m \in 0..(n - 1) : m = Latest(tr, {"reset"}, n)
    BY LatestIs
  <1>1. /\ ur[n].kind \in {"reset"} => Latest(ur, {"reset"}, n + 1) = n
        /\ ur[n].kind \notin {"reset"} => Latest(ur, {"reset"}, n + 1) = m
    <2> DEFINE K == {"reset"}
    <2> HIDE DEF K
    <2>1. /\ ur[n].kind \in K => Latest(ur, K, n + 1) = n
          /\ ur[n].kind \notin K => Latest(ur, K, n + 1) = Latest(tr, K, n)
      BY LatestNext
    <2> QED
      BY <2>1 DEF K
  <1>2. Hushed(tr, n) <=> \E j \in (m + 1)..(n - 1) : tr[j].kind = "pause" \/ tr[j].verdict = "SEALED"
    BY DEF Hushed
  <1>3. CASE ur[n].kind = "reset"
    <2>1. (n + 1)..((n + 1) - 1) = {}
      OBVIOUS
    <2> QED
      BY <1>1, <1>3, <2>1 DEF Hushed
  <1>4. CASE ur[n].kind # "reset"
    <2>1. Hushed(ur, n + 1) <=> \E j \in (m + 1)..n : ur[j].kind = "pause" \/ ur[j].verdict = "SEALED"
      BY <1>1, <1>4, (n + 1) - 1 = n DEF Hushed
    <2>2. (m + 1)..n = ((m + 1)..(n - 1)) \cup {n}
      OBVIOUS
    <2>3. \A j \in (m + 1)..(n - 1) : ur[j] = tr[j]
      OBVIOUS
    <2> QED
      BY <1>2, <1>4, <2>1, <2>2, <2>3
  <1> QED
    BY <1>3, <1>4
LEMMA BegunNext ==
  ASSUME NEW tr, NEW ur, NEW n \in Nat, \A i \in 1..n : ur[i] = tr[i], NEW kind, ur[n + 1].kind = kind
  PROVE  /\ kind = "farewell_begin" => Latest(ur, Begin, (n + 1) + 1) > Latest(ur, Ends, (n + 1) + 1)
         /\ \/ kind \in {"reset", "farewell_begin", "farewell_confirm"}
            \/ Latest(tr, Begin, n + 1) > Latest(tr, Ends, n + 1)
                 => Latest(ur, Begin, (n + 1) + 1) > Latest(ur, Ends, (n + 1) + 1)
  <1>1. n + 1 \in Nat \ {0} /\ (\A i \in 1..((n + 1) - 1) : ur[i] = tr[i])
    OBVIOUS
  <1>2. \A K : /\ kind \in K => Latest(ur, K, (n + 1) + 1) = n + 1
               /\ kind \notin K => Latest(ur, K, (n + 1) + 1) = Latest(tr, K, n + 1)
    <2> SUFFICES ASSUME NEW K
                 PROVE  /\ ur[n + 1].kind \in K => Latest(ur, K, (n + 1) + 1) = n + 1
                        /\ ur[n + 1].kind \notin K => Latest(ur, K, (n + 1) + 1) = Latest(tr, K, n + 1)
      OBVIOUS
    <2> QED
      BY <1>1, LatestNext
  <1>3. Latest(tr, Ends, n + 1) \in 0..n
    BY <1>1, LatestIs
  <1>4. kind = "farewell_begin" => kind \in Begin /\ kind \notin Ends
    BY DEF Begin, Ends
  <1>5. kind \notin {"reset", "farewell_begin", "farewell_confirm"} => kind \notin Begin /\ kind \notin Ends
    BY DEF Begin, Ends
  <1>6. kind = "farewell_begin" => Latest(ur, Begin, (n + 1) + 1) = n + 1
                                   /\ Latest(ur, Ends, (n + 1) + 1) = Latest(tr, Ends, n + 1)
    BY <1>2, <1>4
  <1>7. kind \notin {"reset", "farewell_begin", "farewell_confirm"}
          => Latest(ur, Begin, (n + 1) + 1) = Latest(tr, Begin, n + 1)
             /\ Latest(ur, Ends, (n + 1) + 1) = Latest(tr, Ends, n + 1)
    BY <1>2, <1>5
  <1> QED
    BY <1>3, <1>6, <1>7

------------------------------------------------------------------------------
LEMMA SameKept ==
  /\ \A kinds, n : Replay!LastOf(kinds, n) = Latest(trace, kinds, n)
  /\ \A i : Replay!Cardinality({j \in 1..i : trace[j].action = "SWALLOW"}) = Gone(trace, i)
  <1>1. \A S : Replay!Cardinality(S) = Cardinality(S)
    BY DEF Replay!Cardinality, Cardinality
  <1> QED
    BY <1>1 DEF Replay!LastOf, Latest, Gone

LEMMA BenchFollows ==
  ASSUME BenchInv
  PROVE  Replay!BeatsFillTheGaps /\ Replay!SealedAsTold /\ Replay!TraceAddsUp
  <1>1. DOMAIN trace = 1..Len(trace)
    BY DEF BenchInv, BenchTypes
  <1>2. Replay!TraceAddsUp
    BY <1>1, SameKept DEF BenchInv, AddsUp, Replay!TraceAddsUp, Left
  <1>3. Replay!SealedAsTold
    BY <1>1, SameKept DEF BenchInv, ToldSealed, Hushed, Begin, Ends, Replay!SealedAsTold
  <1> QED
    BY <1>2, <1>3 DEF BenchInv, GapsKept

LEMMA BenchBegins == Replay!Init => BenchInv
  <1> SUFFICES ASSUME Replay!Init PROVE BenchInv
    OBVIOUS
  <1>1. trace = <<>> /\ Len(trace) = 0 /\ time = 0 /\ begun = FALSE
    BY DEF Replay!Init
  <1>2. BenchTypes
    <2>1. 0 <= (LastIndex + 1) * DayLength
      BY BenchConstants
    <2>2. fake \in Fakes /\ proxy \in Proxies /\ fake.sealed = FALSE /\ fake.paused = FALSE
      BY DEF Replay!Init, Replay!Fresh, Fakes, Milli, Proxies
    <2>3. slot \in Slots
      BY BenchConstants DEF Replay!Init, Replay!NoSlot, Slots
    <2>4. trace \in Seq(BenchRecords)
      BY <1>1
    <2> QED
      BY <1>1, <2>1, <2>2, <2>3, <2>4 DEF BenchTypes
  <1>3. GapsKept
    BY <1>1 DEF GapsKept, Replay!BeatsFillTheGaps
  <1>4. Gone(trace, 0) = 0
    <2>1. {j \in 1..0 : trace[j].action = "SWALLOW"} = {}
      OBVIOUS
    <2> QED
      BY <2>1, FS_EmptySet DEF Gone
  <1>5. AddsUp
    BY <1>1, <1>4 DEF AddsUp, Replay!Init, Left
  <1>6. ~Hushed(trace, 1)
    <2>1. Latest(trace, {"reset"}, 1) = 0
      BY LatestIs, 1 \in Nat \ {0}
    <2> QED
      BY <2>1 DEF Hushed
  <1>7. ToldSealed
    BY <1>1, <1>6 DEF ToldSealed
  <1> QED
    BY <1>2, <1>3, <1>5, <1>7 DEF BenchInv

(* What a record must agree with.                                            *)
LEMMA Recorded ==
  ASSUME BenchInv,
         NEW kind \in Replay!EventKinds, NEW verdict \in Replay!Verdicts, NEW action \in Replay!Actions,
         trace' = Replay!Record(kind, verdict, action, time', proxy'),
         proxy' = Replay!Persisted(action),
         time' \in Nat, time' - time \in 0..Beat, time' <= (LastIndex + 1) * DayLength,
         fake' \in Fakes, slot' \in Slots, begun' \in BOOLEAN,
         verdict = "SEALED" => begun,
         begun' => \/ kind = "farewell_begin"
                   \/ begun /\ kind \notin {"reset", "farewell_confirm"},
         action # "hold" => ~fake.sealed /\ ~fake.paused,
         kind # "reset" /\ (fake.sealed \/ fake.paused \/ kind = "pause" \/ verdict = "SEALED")
           => fake'.sealed \/ fake'.paused
  PROVE  BenchInv'
  <1> PICK n \in Nat : n = Len(trace) /\ DOMAIN trace = 1..n
    BY DEF BenchInv, BenchTypes
  <1> DEFINE rec == [kind |-> kind, verdict |-> verdict, action |-> action, at |-> time',
                     p |-> proxy'.p, swallowed |-> proxy'.swallowed]
             ur == Append(trace, rec)
  <1>1. BenchTypes /\ GapsKept /\ AddsUp /\ ToldSealed
    BY DEF BenchInv
  <1>2. proxy' \in Proxies
    BY <1>1 DEF BenchTypes, Proxies, Replay!Persisted
  <1>3. rec \in BenchRecords
    BY <1>2 DEF BenchRecords, Proxies
  <1>4. trace' = ur
    BY DEF Replay!Record
  <1>5. trace \in Seq(BenchRecords)
    BY <1>1 DEF BenchTypes
  <1> HIDE DEF rec
  <1>6. /\ ur \in Seq(BenchRecords) /\ Len(ur) = n + 1 /\ ur[n + 1] = rec
        /\ \A i \in 1..n : ur[i] = trace[i]
    BY <1>3, <1>5
  <1> HIDE DEF ur
  <1>7. /\ rec.kind = kind /\ rec.verdict = verdict /\ rec.action = action /\ rec.at = time'
        /\ rec.p = proxy'.p /\ rec.swallowed = proxy'.swallowed
    BY DEF rec
  <1>8. BenchTypes'
    BY <1>2, <1>4, <1>6 DEF BenchTypes
  <1>9. GapsKept'
    <2>1. ASSUME NEW i \in 1..n PROVE ur[i + 1].at - ur[i].at \in 0..Beat
      <3>1. CASE i = n
        <4>1. ur[i + 1].at = time' /\ ur[i].at = time
          BY <1>1, <1>6, <1>7, <3>1 DEF GapsKept
        <4> QED
          BY <4>1
      <3>2. CASE i # n
        <4>1. i \in 1..(n - 1) /\ i + 1 \in 1..n
          BY <3>2
        <4>2. ur[i + 1] = trace[i + 1] /\ ur[i] = trace[i]
          BY <4>1, <1>6
        <4> QED
          BY <4>1, <4>2, <1>1 DEF GapsKept, Replay!BeatsFillTheGaps
      <3> QED
        BY <3>1, <3>2
    <2>2. \A i \in 1..((n + 1) - 1) : ur[i + 1].at - ur[i].at \in 0..Beat
      BY <2>1
    <2>3. Replay!BeatsFillTheGaps'
      BY <1>4, <1>6, <2>2 DEF Replay!BeatsFillTheGaps
    <2> QED
      BY <1>4, <1>6, <1>7, <2>3 DEF GapsKept
  <1>10. AddsUp'
    <2>1. \A i \in 1..n : Gone(ur, i) = Gone(trace, i)
      BY <1>6, GoneSame
    <2>2. /\ action = "SWALLOW" => Gone(ur, n + 1) = Gone(trace, n) + 1
          /\ action # "SWALLOW" => Gone(ur, n + 1) = Gone(trace, n)
          /\ Gone(trace, n) \in Nat
      <3>1. ur[n + 1].action = action
        BY <1>6, <1>7
      <3>2. /\ ur[n + 1].action = "SWALLOW" => Gone(ur, n + 1) = Gone(trace, n) + 1
            /\ ur[n + 1].action # "SWALLOW" => Gone(ur, n + 1) = Gone(trace, n)
        BY <1>6, GoneNext
      <3>3. Gone(trace, n) \in Nat
        BY <1>6, GoneSame
      <3> QED
        BY <3>1, <3>2, <3>3
    <2>3. proxy.swallowed = Gone(trace, n) /\ proxy.p = Left(Gone(trace, n))
      BY <1>1 DEF AddsUp
    <2>4. proxy'.swallowed = Gone(ur, n + 1) /\ proxy'.p = Left(Gone(ur, n + 1))
      BY <2>2, <2>3 DEF Replay!Persisted, Left
    <2>5. \A i \in 1..n : ur[i].swallowed = Gone(ur, i) /\ ur[i].p = Left(Gone(ur, i))
      BY <1>1, <1>6, <2>1 DEF AddsUp
    <2>6. \A i \in 1..(n + 1) : ur[i].swallowed = Gone(ur, i) /\ ur[i].p = Left(Gone(ur, i))
      BY <1>6, <1>7, <2>4, <2>5
    <2> QED
      BY <1>4, <1>6, <2>4, <2>6 DEF AddsUp
  <1>11. ToldSealed'
    <2>1. ASSUME NEW i \in 1..n
          PROVE  /\ ur[i].verdict = "SEALED" => Latest(ur, Begin, i) > Latest(ur, Ends, i)
                 /\ Hushed(ur, i) => ur[i].action = "hold"
      <3>1. \A j \in 1..(i - 1) : ur[j] = trace[j]
        BY <1>6
      <3>2. Latest(ur, Begin, i) = Latest(trace, Begin, i) /\ Latest(ur, Ends, i) = Latest(trace, Ends, i)
        BY <3>1, LatestSame, i \in Nat \ {0}
      <3>3. Hushed(ur, i) <=> Hushed(trace, i)
        BY <3>1, HushedSame, i \in Nat \ {0}
      <3> QED
        BY <1>1, <1>6, <3>2, <3>3 DEF ToldSealed
    <2>2. \A j \in 1..((n + 1) - 1) : ur[j] = trace[j]
      BY <1>6
    <2>3. n + 1 \in Nat \ {0}
      OBVIOUS
    <2>4. /\ Latest(ur, Begin, n + 1) = Latest(trace, Begin, n + 1)
          /\ Latest(ur, Ends, n + 1) = Latest(trace, Ends, n + 1)
          /\ Hushed(ur, n + 1) <=> Hushed(trace, n + 1)
      BY <2>2, <2>3, LatestSame, HushedSame
    <2>5. /\ verdict = "SEALED" => Latest(ur, Begin, n + 1) > Latest(ur, Ends, n + 1)
          /\ Hushed(ur, n + 1) => action = "hold"
      BY <1>1, <2>4 DEF ToldSealed
    <2>6. \A i \in 1..(n + 1) :
            /\ ur[i].verdict = "SEALED" => Latest(ur, Begin, i) > Latest(ur, Ends, i)
            /\ Hushed(ur, i) => ur[i].action = "hold"
      BY <1>6, <1>7, <2>1, <2>5
    <2>9. begun' => Latest(ur, Begin, (n + 1) + 1) > Latest(ur, Ends, (n + 1) + 1)
      <3>1. ur[n + 1].kind = kind
        BY <1>6, <1>7
      <3>2. begun => Latest(trace, Begin, n + 1) > Latest(trace, Ends, n + 1)
        BY <1>1 DEF ToldSealed
      <3>3. /\ kind = "farewell_begin" => Latest(ur, Begin, (n + 1) + 1) > Latest(ur, Ends, (n + 1) + 1)
            /\ \/ kind \in {"reset", "farewell_begin", "farewell_confirm"}
               \/ Latest(trace, Begin, n + 1) > Latest(trace, Ends, n + 1)
                    => Latest(ur, Begin, (n + 1) + 1) > Latest(ur, Ends, (n + 1) + 1)
        BY <1>6, <3>1, BegunNext, Zenon
      <3> QED
        BY <3>2, <3>3, Zenon
    <2>10. Hushed(ur, (n + 1) + 1) => fake'.sealed \/ fake'.paused
      <3>1. Hushed(ur, (n + 1) + 1) => kind # "reset" /\ (Hushed(trace, n + 1) \/ kind = "pause" \/ verdict = "SEALED")
        BY <1>6, <1>7, <2>2, <2>3, HushedNext
      <3> QED
        BY <1>1, <3>1 DEF ToldSealed
    <2> QED
      BY <1>4, <1>6, <2>6, <2>9, <2>10 DEF ToldSealed
  <1> QED
    BY <1>8, <1>9, <1>10, <1>11 DEF BenchInv
LEMMA ClampRange == \A x \in Int : Replay!Clamp(x) \in Milli
  BY DEF Replay!Clamp, Milli

LEMMA DecayedFake ==
  ASSUME NEW st \in Fakes
  PROVE  /\ Replay!Decayed(st) \in Fakes
         /\ Replay!Decayed(st).sealed = st.sealed /\ Replay!Decayed(st).paused = st.paused
  <1> DEFINE a == Replay!Clamp(st.pressure + ((200 - st.pressure) * 5) \div 100)
             b == Replay!Clamp(st.fatigue + ((100 - st.fatigue) * 2) \div 100)
  <1>1. st.pressure \in Int /\ st.fatigue \in Int
    BY DEF Fakes, Milli
  <1>2. a \in Milli /\ b \in Milli
    <2>1. st.pressure + ((200 - st.pressure) * 5) \div 100 \in Int /\ st.fatigue + ((100 - st.fatigue) * 2) \div 100 \in Int
      BY <1>1
    <2> QED
      BY <2>1, ClampRange, Zenon
  <1>3. Replay!Decayed(st) = [st EXCEPT !.pressure = a, !.fatigue = b]
    BY DEF Replay!Decayed
  <1> HIDE DEF a, b
  <1> QED
    BY <1>2, <1>3 DEF Fakes

LEMMA MovedFake ==
  ASSUME NEW st \in Fakes, NEW t \in Tiers
  PROVE  /\ Replay!Moved(st, t) \in Fakes
         /\ Replay!Moved(st, t).sealed = st.sealed /\ Replay!Moved(st, t).paused = st.paused
  <1> DEFINE a == Replay!Clamp(st.pressure + t.pressure)
             b == Replay!Clamp(st.fatigue + t.fatigue)
  <1>1. st.pressure \in Int /\ st.fatigue \in Int /\ t.pressure \in Int /\ t.fatigue \in Int
    BY BenchConstants DEF Fakes, Milli
  <1>2. a \in Milli /\ b \in Milli
    <2>1. st.pressure + t.pressure \in Int /\ st.fatigue + t.fatigue \in Int
      BY <1>1
    <2> QED
      BY <2>1, ClampRange, Zenon
  <1>3. Replay!Moved(st, t) = [st EXCEPT !.pressure = a, !.fatigue = b]
    BY DEF Replay!Moved
  <1> HIDE DEF a, b
  <1> QED
    BY <1>2, <1>3 DEF Fakes

LEMMA DecisionIs ==
  ASSUME NEW st
  PROVE  /\ Replay!Decision(st) \in Replay!Actions
         /\ st.sealed \/ st.paused => Replay!Decision(st) = "hold"
  <1>1. CASE st.sealed \/ st.paused
    BY <1>1 DEF Replay!Decision, Replay!Actions
  <1>2. CASE ~(st.sealed \/ st.paused)
    BY <1>2 DEF Replay!Decision, Replay!Actions
  <1> QED
    BY <1>1, <1>2

LEMMA TargetIs ==
  ASSUME BenchTypes
  PROVE  Replay!Target \in Nat /\ Replay!Target <= (LastIndex + 1) * DayLength
  <1> PICK d \in Nat : d = slot.day /\ d <= LastIndex
    BY BenchConstants DEF BenchTypes, Slots
  <1> PICK a \in Nat : a = slot.at /\ a < DayLength
    BY BenchConstants DEF BenchTypes, Slots
  <1> PICK g \in Nat : g = DayLength
    BY BenchConstants
  <1> PICK l \in Nat : l = LastIndex
    BY BenchConstants
  <1>1. d * g \in Nat /\ d * g <= l * g
    OBVIOUS
  <1>2. (l + 1) * g = l * g + g /\ l * g \in Nat
    OBVIOUS
  <1> QED
    BY <1>1, <1>2 DEF Replay!Target

(* What Reached does to the clock and the slot.                              *)
LEMMA ReachedIs ==
  ASSUME BenchInv, Replay!Reached
  PROVE  /\ time' = Replay!Target /\ time' \in Nat /\ time' - time \in 0..Beat
         /\ time' <= (LastIndex + 1) * DayLength /\ slot' \in Slots
  <1>1. BenchTypes
    BY DEF BenchInv
  <1>2. Replay!Target \in Nat /\ Replay!Target <= (LastIndex + 1) * DayLength
    BY <1>1, TargetIs
  <1>3. time' = Replay!Target /\ time <= Replay!Target /\ ~(time + Beat <= Replay!Target)
    BY DEF Replay!Reached, Replay!Due
  <1>4. time' - time \in 0..Beat
    <2> PICK g \in Nat : g = Replay!Target
      BY <1>2
    <2>1. time \in Nat /\ Beat \in Nat
      BY <1>1, BenchConstants DEF BenchTypes
    <2>2. g - time \in 0..Beat
      BY <2>1, <1>3
    <2> QED
      BY <2>2, <1>3
  <1>5. slot' \in Slots
    BY <1>1 DEF Replay!Reached, BenchTypes, Slots
  <1> QED
    BY <1>2, <1>3, <1>4, <1>5

LEMMA BenchStep == BenchInv /\ [Replay!Next]_xvars => BenchInv'
  <1> SUFFICES ASSUME BenchInv, [Replay!Next]_xvars PROVE BenchInv'
    OBVIOUS
  <1>0. BenchTypes /\ fake \in Fakes /\ begun \in BOOLEAN /\ fake.sealed \in BOOLEAN /\ fake.paused \in BOOLEAN
    BY DEF BenchInv, BenchTypes, Fakes
  <1>1. CASE UNCHANGED xvars
    BY <1>1 DEF xvars, BenchInv, BenchTypes, GapsKept, Replay!BeatsFillTheGaps, AddsUp, ToldSealed
  <1>2. CASE \E d \in 0..LastIndex, a \in 0..(DayLength - 1) : Replay!Take(d, a)
    <2>1. slot' \in Slots
      BY <1>2 DEF Replay!Take, Slots
    <2> QED
      BY <1>2, <2>1 DEF Replay!Take, BenchInv, BenchTypes, GapsKept, Replay!BeatsFillTheGaps, AddsUp, ToldSealed
  <1>3. CASE Replay!HeartBeats
    <2>1. /\ time' = time + Beat /\ fake' = Replay!Ticked(fake)
          /\ trace' = Replay!Record("tick", Replay!TickVerdict, "hold", time', proxy')
          /\ proxy' = Replay!Persisted("hold") /\ begun' = begun /\ slot' = slot
      BY <1>3 DEF Replay!HeartBeats, Replay!Persisted, Replay!Record
    <2>2. time' \in Nat /\ time' - time \in 0..Beat /\ time' <= (LastIndex + 1) * DayLength
      <3> PICK g \in Nat : g = Replay!Target /\ g <= (LastIndex + 1) * DayLength
        BY <1>0, TargetIs
      <3> PICK k \in Nat : k = (LastIndex + 1) * DayLength
        BY BenchConstants
      <3>1. time + Beat <= g
        BY <1>3 DEF Replay!HeartBeats, Replay!Due
      <3>2. time \in Nat /\ Beat \in Nat
        BY <1>0, BenchConstants DEF BenchTypes
      <3>3. time + Beat \in Nat /\ (time + Beat) - time \in 0..Beat /\ time + Beat <= k
        BY <3>1, <3>2
      <3> QED
        BY <2>1, <3>3
    <2>3. fake' \in Fakes /\ fake'.sealed = fake.sealed /\ fake'.paused = fake.paused
      BY <1>0, <2>1, DecayedFake DEF Replay!Ticked
    <2>4. Replay!TickVerdict \in Replay!Verdicts /\ Replay!TickVerdict # "SEALED"
      BY DEF Replay!TickVerdict, Replay!Verdicts
    <2>5. "tick" \in Replay!EventKinds /\ "hold" \in Replay!Actions /\ slot' \in Slots
      BY <1>0, <2>1 DEF Replay!EventKinds, Replay!Actions, BenchTypes
    <2> QED
      BY <1>0, <2>1, <2>2, <2>3, <2>4, <2>5, Recorded
  <1>4. CASE Replay!Backwards
    <2>1. slot' \in Slots
      BY <1>0, <1>4 DEF Replay!Backwards, Slots, BenchTypes
    <2> QED
      BY <1>4, <2>1 DEF Replay!Backwards, BenchInv, BenchTypes, GapsKept, Replay!BeatsFillTheGaps, AddsUp, ToldSealed
  <1>5. ASSUME Replay!Reached, NEW kind \in Replay!EventKinds, NEW verdict \in Replay!Verdicts,
               NEW action \in Replay!Actions, Replay!Answers(kind, verdict, action),
               fake' \in Fakes, begun' \in BOOLEAN,
               verdict = "SEALED" => begun,
               begun' => \/ kind = "farewell_begin"
                         \/ begun /\ kind \notin {"reset", "farewell_confirm"},
               action # "hold" => ~fake.sealed /\ ~fake.paused,
               kind # "reset" /\ (fake.sealed \/ fake.paused \/ kind = "pause" \/ verdict = "SEALED")
                 => fake'.sealed \/ fake'.paused
        PROVE  BenchInv'
    <2>1. trace' = Replay!Record(kind, verdict, action, time', proxy') /\ proxy' = Replay!Persisted(action)
      BY <1>5, ReachedIs DEF Replay!Answers, Replay!Record
    <2> QED
      BY <1>5, <2>1, ReachedIs, Recorded
  <1>6. /\ {"user_msg", "tick", "pause", "reset", "farewell_begin", "farewell_confirm", "state", "agent_draft"}
             \subseteq Replay!EventKinds
        /\ {"OK", "SEALED", "SEALED_NOOP", "REJECTED_NOT_BEGUN", "UNKNOWN_KIND"} \subseteq Replay!Verdicts
        /\ "hold" \in Replay!Actions
    BY DEF Replay!EventKinds, Replay!Verdicts, Replay!Actions
  <1>7. ASSUME NEW t \in Tiers, Replay!UserMsg(t) PROVE BenchInv'
    <2> DEFINE st == Replay!Moved(Replay!Decayed(fake), t)
    <2>1. st \in Fakes /\ st.sealed = fake.sealed /\ st.paused = fake.paused
      BY <1>0, DecayedFake, MovedFake
    <2>2. Replay!Reached /\ begun' = begun
      BY <1>7 DEF Replay!UserMsg
    <2>3. CASE fake.sealed
      <3>1. fake' = fake /\ Replay!Answers("user_msg", "SEALED_NOOP", "hold")
        BY <1>7, <2>3 DEF Replay!UserMsg
      <3> QED
        BY <1>0, <1>5, <1>6, <2>2, <3>1
    <2>4. CASE ~fake.sealed
      <3>1. fake' = st /\ Replay!Answers("user_msg", "OK", Replay!Decision(st))
        BY <1>7, <2>4 DEF Replay!UserMsg
      <3> HIDE DEF st
      <3>2. Replay!Decision(st) \in Replay!Actions /\ (st.sealed \/ st.paused => Replay!Decision(st) = "hold")
        BY DecisionIs
      <3> QED
        BY <1>0, <1>5, <1>6, <2>1, <2>2, <3>1, <3>2
    <2> QED
      BY <2>3, <2>4
  <1>8. CASE Replay!Polled
    <2>1. fake' \in Fakes /\ fake'.sealed = fake.sealed /\ fake'.paused = fake.paused
      BY <1>0, <1>8, DecayedFake DEF Replay!Polled, Replay!Ticked
    <2>2. Replay!TickVerdict \in Replay!Verdicts /\ Replay!TickVerdict # "SEALED"
      BY DEF Replay!TickVerdict, Replay!Verdicts
    <2>3. Replay!Reached /\ Replay!Answers("tick", Replay!TickVerdict, "hold") /\ begun' = begun
      BY <1>8 DEF Replay!Polled
    <2> QED
      BY <1>0, <1>5, <1>6, <2>1, <2>2, <2>3
  <1>9. CASE Replay!Pause
    <2>1. fake' \in Fakes /\ fake'.paused = TRUE
      BY <1>0, <1>9 DEF Replay!Pause, Fakes
    <2>2. Replay!Reached /\ Replay!Answers("pause", "OK", "hold") /\ begun' = begun
      BY <1>9 DEF Replay!Pause
    <2> QED
      BY <1>0, <1>5, <1>6, <2>1, <2>2
  <1>10. CASE Replay!Reset
    <2>1. fake' \in Fakes
      BY <1>10 DEF Replay!Reset, Replay!Fresh, Fakes, Milli
    <2>2. Replay!Reached /\ Replay!Answers("reset", "OK", "hold") /\ begun' = FALSE
      BY <1>10 DEF Replay!Reset
    <2> QED
      BY <1>0, <1>5, <1>6, <2>1, <2>2
  <1>11. CASE Replay!FarewellBegin
    <2>1. Replay!Reached /\ Replay!Answers("farewell_begin", "OK", "hold") /\ begun' = TRUE /\ fake' = fake
      BY <1>11 DEF Replay!FarewellBegin
    <2> QED
      BY <1>0, <1>5, <1>6, <2>1
  <1>12. CASE Replay!FarewellConfirm
    <2>1. Replay!Reached /\ begun' = FALSE
      BY <1>12 DEF Replay!FarewellConfirm
    <2>2. CASE begun
      <3>1. fake' = [fake EXCEPT !.sealed = TRUE] /\ Replay!Answers("farewell_confirm", "SEALED", "hold")
        BY <1>12, <2>2 DEF Replay!FarewellConfirm
      <3>2. fake' \in Fakes /\ fake'.sealed = TRUE
        BY <1>0, <3>1 DEF Fakes
      <3> QED
        BY <1>0, <1>5, <1>6, <2>1, <2>2, <3>1, <3>2
    <2>3. CASE ~begun
      <3>1. fake' = fake /\ Replay!Answers("farewell_confirm", "REJECTED_NOT_BEGUN", "hold")
        BY <1>12, <2>3 DEF Replay!FarewellConfirm
      <3> QED
        BY <1>0, <1>5, <1>6, <2>1, <3>1
    <2> QED
      BY <2>2, <2>3
  <1>13. CASE Replay!Looks
    <2>1. Replay!Reached /\ Replay!Answers("state", "OK", "hold") /\ begun' = begun /\ fake' = fake
      BY <1>13 DEF Replay!Looks
    <2> QED
      BY <1>0, <1>5, <1>6, <2>1
  <1>14. CASE Replay!Unknown
    <2>1. Replay!Reached /\ Replay!Answers("agent_draft", "UNKNOWN_KIND", "hold") /\ begun' = begun /\ fake' = fake
      BY <1>14 DEF Replay!Unknown
    <2> QED
      BY <1>0, <1>5, <1>6, <2>1
  <1> QED
    BY <1>1, <1>2, <1>3, <1>4, <1>7, <1>8, <1>9, <1>10, <1>11, <1>12, <1>13, <1>14 DEF Replay!Next

LEMMA BenchTyped == BenchInv => Replay!TypeOK
  <1> SUFFICES ASSUME BenchInv PROVE Replay!TypeOK
    OBVIOUS
  <1>1. BenchTypes
    BY DEF BenchInv
  <1>2. time \in 0..((LastIndex + 1) * DayLength)
    <2> PICK n \in Nat : n = (LastIndex + 1) * DayLength
      BY BenchConstants
    <2> QED
      BY <1>1 DEF BenchTypes
  <1>3. \A i \in DOMAIN trace : trace[i] \in BenchRecords
    BY <1>1 DEF BenchTypes
  <1> QED
    BY <1>1, <1>2, <1>3 DEF BenchTypes, BenchRecords, Fakes, Proxies, Slots, Milli, Replay!TypeOK

------------------------------------------------------------------------------
Caps  == 1..6
Lines == [gen : Nat \ {0}, verdict : Evolved!Verdicts, parent : Nat, after : Caps, to : Nat]
Bad   == Evolved!BadLine
Kept  == {"accepted", "rollback"}

Effective(lin) == {i \in DOMAIN lin : lin[i].verdict \in Kept}
LastCap(lin) ==
  IF Effective(lin) = {} THEN Evolved!Hatch ELSE lin[Evolved!Max(Effective(lin))].after

(* The generations of what can be read grow, and are no more than the lines. *)
Ordered(lin) ==
  /\ \A i, j \in DOMAIN lin : i < j /\ lin[i] # Bad /\ lin[j] # Bad => lin[i].gen < lin[j].gen
  /\ \A i \in DOMAIN lin : lin[i] # Bad => lin[i].gen <= i

LineTypes ==
  /\ lineage \in Seq(Lines \cup {Bad})
  /\ cutOff \in BOOLEAN
  /\ cutOff => Len(lineage) > 0 /\ lineage[Len(lineage)] = Bad
  /\ overlay.cap \in Caps /\ overlay.gen \in Nat
  /\ known \in [prior : Caps, told : BOOLEAN, kept : SUBSET (Nat \X Caps), broke : 0..MaxBreaks]
  /\ evolving # Evolved!NoLine =>
       /\ evolving \in Lines /\ evolving.verdict \in Kept
       /\ evolving.gen = Evolved!NextSeq /\ evolving.after = overlay.cap

KeptStay == \A k \in known.kept : \E r \in Evolved!Accepted : r.gen = k[1] /\ r.after = k[2]

LineInv ==
  /\ LineTypes /\ Ordered(lineage)
  /\ known.told /\ evolving = Evolved!NoLine => overlay.cap = LastCap(lineage)
  /\ KeptStay
  /\ Evolved!SlowDrift

LEMMA LineConstants ==
  /\ \A r \in Runs : r.velocity \in 0..100
  /\ \A r \in Runs : r.strategy \in {"pattern_search", "grid_descent", "nelder_mead"}
  /\ MaxLines \in Nat /\ MaxBreaks \in Nat
  BY Constants DEF Evolved!LineageAssumption

------------------------------------------------------------------------------
LEMMA MaxOfTwo ==
  ASSUME NEW a \in Int, NEW b \in Int
  PROVE  /\ Evolved!Max({a, b}) = IF a >= b THEN a ELSE b
         /\ Evolved!Min({a, b}) = IF a <= b THEN a ELSE b
  <1> DEFINE m == Evolved!Max({a, b})
             l == Evolved!Min({a, b})
  <1>1. \E x \in {a, b} : \A y \in {a, b} : x >= y
    BY a >= b \/ b >= a
  <1>2. m \in {a, b} /\ m >= a /\ m >= b
    BY <1>1 DEF Evolved!Max
  <1>3. \E x \in {a, b} : \A y \in {a, b} : x <= y
    BY a <= b \/ b <= a
  <1>4. l \in {a, b} /\ l <= a /\ l <= b
    BY <1>3 DEF Evolved!Min
  <1> HIDE DEF m, l
  <1>5. m = (IF a >= b THEN a ELSE b) /\ l = (IF a <= b THEN a ELSE b)
    BY <1>2, <1>4
  <1> QED
    BY <1>5 DEF m, l

LEMMA ClampedCap ==
  ASSUME NEW old \in Caps, NEW p \in Int, NEW b \in Int
  PROVE  Evolved!Clamp(old, p, b) \in Caps
  <1> PICK o \in Int : o = old
    BY DEF Caps
  <1> DEFINE near == Evolved!Min({Evolved!Max({p, 100 * o - b}), 100 * o + b})
             low  == Evolved!Max({near, 100})
             x    == Evolved!Min({low, 600})
  <1>1. Evolved!Max({p, 100 * o - b}) \in Int
    BY MaxOfTwo, 100 * o - b \in Int
  <1>2. near \in Int
    <2>1. \A q, w \in Int : Evolved!Min({q, w}) \in Int
      <3> TAKE q, w \in Int
      <3>1. Evolved!Min({q, w}) = IF q <= w THEN q ELSE w
        BY MaxOfTwo
      <3> QED
        BY <3>1
    <2>2. 100 * o + b \in Int
      OBVIOUS
    <2> QED
      BY <1>1, <2>1, <2>2
  <1> HIDE DEF near
  <1>3. low \in Int /\ low >= 100
    BY <1>2, MaxOfTwo
  <1> HIDE DEF low
  <1>4. x \in Int /\ 100 <= x /\ x <= 600
    <2>1. x = IF low <= 600 THEN low ELSE 600
      BY <1>3, MaxOfTwo, 600 \in Int
    <2> QED
      BY <1>3, <2>1
  <1> HIDE DEF x
  <1>5. Evolved!Round(x) \in Caps
    BY <1>4 DEF Evolved!Round, Caps
  <1>6. Evolved!Clamp(old, p, b) = Evolved!Round(x)
    BY DEF Evolved!Clamp, near, low, x, Evolved!Lo, Evolved!Hi
  <1> QED
    BY <1>5, <1>6

LEMMA ProposedCap ==
  ASSUME NEW old \in Caps, NEW r \in Runs, NEW dir \in {-1, 1}
  PROVE  Evolved!Proposed(old, r, dir) \in Caps
  <1> PICK b \in Int : b = Evolved!Bound(r.velocity)
    BY LineConstants DEF Evolved!Bound, Evolved!Hi, Evolved!Lo
  <1>1. dir * b \in Int
    OBVIOUS
  <1> PICK d \in Int : d = dir * b
    BY <1>1
  <1> PICK h \in Int : h = 100 * old
    BY DEF Caps
  <1>2. h + d \in Int /\ h + d \div 4 \in Int /\ h + d \div 2 \in Int /\ b \div 4 \in Int
    OBVIOUS
  <1>3. /\ Evolved!Clamp(old, h + d, b) \in Caps
        /\ Evolved!Clamp(old, h + d \div 4, b \div 4) \in Caps
        /\ Evolved!Clamp(old, h + d \div 2, b) \in Caps
    BY <1>2, ClampedCap
  <1>4. r.strategy \in {"pattern_search", "grid_descent", "nelder_mead"}
    BY LineConstants
  <1> QED
    BY <1>3, <1>4 DEF Evolved!Proposed

------------------------------------------------------------------------------
LEMMA EffectiveMax ==
  ASSUME NEW lin, NEW n \in Nat, DOMAIN lin = 1..n, Effective(lin) # {}
  PROVE  /\ Evolved!Max(Effective(lin)) \in Effective(lin)
         /\ \A k \in Effective(lin) : k <= Evolved!Max(Effective(lin))
  <1> DEFINE T == Effective(lin)
  <1>1. T \in SUBSET (0..n)
    BY DEF Effective
  <1>2. Evolved!Max(T) = CHOOSE x \in T : \A y \in T : x >= y
    BY DEF Evolved!Max
  <1> HIDE DEF T
  <1>3. T # {}
    BY DEF T
  <1>4. LET m == CHOOSE x \in T : \A y \in T : x >= y
        IN m \in T /\ (\A k \in T : k <= m)
    BY <1>1, <1>3, Greatest
  <1>5. Evolved!Max(T) \in T /\ (\A k \in T : k <= Evolved!Max(T))
    BY <1>2, <1>4
  <1> QED
    BY <1>5 DEF T

LEMMA LastCapIs ==
  ASSUME NEW lin, NEW n \in Nat, DOMAIN lin = 1..n,
         NEW m \in Effective(lin), \A k \in Effective(lin) : k <= m
  PROVE  LastCap(lin) = lin[m].after
  <1>1. Evolved!Max(Effective(lin)) = m
    <2> PICK l \in Effective(lin) : l = Evolved!Max(Effective(lin))
      BY EffectiveMax
    <2>1. m <= l /\ l <= m
      BY EffectiveMax
    <2>2. m \in Nat /\ l \in Nat
      BY DEF Effective
    <2> QED
      BY <2>1, <2>2
  <1> QED
    BY <1>1 DEF LastCap

LEMMA LastCapNext ==
  ASSUME NEW lin, NEW ur, NEW n \in Nat, DOMAIN lin = 1..n, DOMAIN ur = 1..(n + 1),
         \A i \in 1..n : ur[i] = lin[i]
  PROVE  /\ ur[n + 1].verdict \in Kept => LastCap(ur) = ur[n + 1].after
         /\ ur[n + 1].verdict \notin Kept => LastCap(ur) = LastCap(lin)
  <1>1. CASE ur[n + 1].verdict \in Kept
    <2>1. n + 1 \in Effective(ur)
      BY <1>1 DEF Effective
    <2>2. \A k \in Effective(ur) : k <= n + 1
      BY DEF Effective
    <2>3. n + 1 \in Nat
      OBVIOUS
    <2> QED
      BY <1>1, <2>1, <2>2, <2>3, LastCapIs
  <1>2. CASE ur[n + 1].verdict \notin Kept
    <2>1. Effective(ur) = Effective(lin)
      BY <1>2 DEF Effective
    <2>2. CASE Effective(lin) = {}
      BY <1>2, <2>1, <2>2 DEF LastCap
    <2>3. CASE Effective(lin) # {}
      <3>1. Evolved!Max(Effective(lin)) \in 1..n
        BY <2>3, EffectiveMax DEF Effective
      <3> QED
        BY <1>2, <2>1, <2>3, <3>1 DEF LastCap
    <2> QED
      BY <2>2, <2>3
  <1> QED
    BY <1>1, <1>2

(* The numbers of the generations.                                           *)
LEMMA Numbered ==
  ASSUME LineTypes, Ordered(lineage)
  PROVE  /\ Evolved!NextSeq \in Nat \ {0} /\ Evolved!NextSeq <= Len(lineage) + 1
         /\ \A r \in Evolved!Records : r.gen < Evolved!NextSeq
         /\ Evolved!Accepted = {} => Evolved!LastAccepted = 0
         /\ Evolved!Accepted # {} => /\ \E r \in Evolved!Accepted : r.gen = Evolved!LastAccepted
                                     /\ \A r \in Evolved!Accepted : r.gen <= Evolved!LastAccepted
  <1> PICK n \in Nat : n = Len(lineage) /\ DOMAIN lineage = 1..n
    BY DEF LineTypes
  <1>1. \A r \in Evolved!Records : \E i \in 1..n : r = lineage[i] /\ lineage[i] # Bad
    BY DEF Evolved!Records, Evolved!Range, Bad
  <1>2. \A r \in Evolved!Records : r.gen \in 0..n /\ r.gen \in Nat
    <2> TAKE r \in Evolved!Records
    <2>1. PICK i \in 1..n : r = lineage[i] /\ lineage[i] # Bad
      BY <1>1
    <2>2. r \in Lines /\ r.gen <= i
      BY <2>1 DEF LineTypes, Ordered
    <2> QED
      BY <2>2 DEF Lines
  <1>3. ASSUME NEW S \in SUBSET Evolved!Records, S # {}
        PROVE  LET m == Evolved!Max({r.gen : r \in S})
               IN m \in {r.gen : r \in S} /\ (\A r \in S : r.gen <= m)
    <2> DEFINE T == {r.gen : r \in S}
    <2>1. T \in SUBSET (0..n) /\ T # {}
      BY <1>2, <1>3
    <2>2. \A r \in S : r.gen \in T
      OBVIOUS
    <2>3. Evolved!Max(T) = CHOOSE x \in T : \A y \in T : x >= y
      BY DEF Evolved!Max
    <2> HIDE DEF T
    <2>4. Evolved!Max(T) \in T /\ (\A k \in T : k <= Evolved!Max(T))
      BY <2>1, <2>3, Greatest
    <2> QED
      BY <2>2, <2>4 DEF T
  <1>4. /\ Evolved!NextSeq \in Nat \ {0} /\ Evolved!NextSeq <= n + 1
        /\ \A r \in Evolved!Records : r.gen < Evolved!NextSeq
    <2>1. CASE Evolved!Records = {}
      BY <2>1 DEF Evolved!NextSeq
    <2>2. CASE Evolved!Records # {}
      <3> DEFINE m == Evolved!Max({r.gen : r \in Evolved!Records})
      <3>1. m \in {r.gen : r \in Evolved!Records} /\ (\A r \in Evolved!Records : r.gen <= m)
        BY <1>3, <2>2
      <3>2. Evolved!NextSeq = 1 + m
        BY <2>2 DEF Evolved!NextSeq
      <3> HIDE DEF m
      <3>3. m \in 0..n
        BY <3>1, <1>2
      <3> QED
        BY <3>1, <3>2, <3>3, <1>2
    <2> QED
      BY <2>1, <2>2
  <1>5. Evolved!Accepted = {} => Evolved!LastAccepted = 0
    BY DEF Evolved!LastAccepted
  <1>6. ASSUME Evolved!Accepted # {}
        PROVE  /\ \E r \in Evolved!Accepted : r.gen = Evolved!LastAccepted
               /\ \A r \in Evolved!Accepted : r.gen <= Evolved!LastAccepted
    <2>1. Evolved!Accepted \in SUBSET Evolved!Records
      BY DEF Evolved!Accepted
    <2>2. Evolved!LastAccepted = Evolved!Max({r.gen : r \in Evolved!Accepted})
      BY <1>6 DEF Evolved!LastAccepted
    <2> QED
      BY <1>3, <1>6, <2>1, <2>2
  <1> QED
    BY <1>4, <1>5, <1>6

LEMMA Reconstructed ==
  ASSUME LineTypes, Ordered(lineage), NEW r \in Evolved!Accepted
  PROVE  Evolved!reconstruct(r.gen) = r.after /\ r.after \in Caps /\ r.gen \in Nat \ {0} /\ r \in Lines
  <1> PICK n \in Nat : n = Len(lineage) /\ DOMAIN lineage = 1..n
    BY DEF LineTypes
  <1>1. \A s \in Evolved!Accepted : s \in Lines /\ \E i \in 1..n : s = lineage[i] /\ lineage[i] # Bad
    BY DEF Evolved!Accepted, Evolved!Records, Evolved!Range, Bad, LineTypes
  <1>2. \A s \in Evolved!Accepted : s.gen = r.gen => s = r
    <2> SUFFICES ASSUME NEW s \in Evolved!Accepted, s.gen = r.gen PROVE s = r
      OBVIOUS
    <2>1. PICK i \in 1..n : s = lineage[i] /\ lineage[i] # Bad
      BY <1>1
    <2>2. PICK j \in 1..n : r = lineage[j] /\ lineage[j] # Bad
      BY <1>1
    <2>3. s.gen \in Nat /\ r.gen \in Nat
      BY <1>1 DEF Lines
    <2>4. ~(i < j) /\ ~(j < i)
      BY <2>1, <2>2, <2>3 DEF Ordered
    <2> QED
      BY <2>1, <2>2, <2>4
  <1>3. (CHOOSE s \in Evolved!Accepted : s.gen = r.gen) = r
    BY <1>2
  <1>4. r.gen \in Nat \ {0} /\ r.after \in Caps /\ r \in Lines
    BY <1>1 DEF Lines
  <1> QED
    BY <1>3, <1>4 DEF Evolved!reconstruct

LEMMA OldCap ==
  ASSUME LineTypes, Ordered(lineage)
  PROVE  Evolved!reconstruct(Evolved!LastAccepted) \in Caps /\ Evolved!LastAccepted \in Nat
         /\ Evolved!reconstruct(0) \in Caps
  <1>1. Evolved!reconstruct(0) \in Caps
    BY DEF Evolved!reconstruct, Evolved!Hatch, Caps
  <1>2. CASE Evolved!Accepted = {}
    BY <1>1, <1>2, Numbered
  <1>3. CASE Evolved!Accepted # {}
    <2>1. PICK r \in Evolved!Accepted : r.gen = Evolved!LastAccepted
      BY <1>3, Numbered
    <2> QED
      BY <1>1, <2>1, Reconstructed
  <1> QED
    BY <1>2, <1>3

(* Without a rollback, what is in force is the last that was accepted.       *)
LEMMA InForce ==
  ASSUME LineTypes, Ordered(lineage), \A r \in Evolved!Records : r.verdict # "rollback"
  PROVE  LastCap(lineage) = Evolved!reconstruct(Evolved!LastAccepted)
  <1> PICK n \in Nat : n = Len(lineage) /\ DOMAIN lineage = 1..n
    BY DEF LineTypes
  <1>1. \A i \in Effective(lineage) : i \in 1..n /\ lineage[i] # Bad /\ lineage[i] \in Evolved!Accepted
    <2> TAKE i \in Effective(lineage)
    <2>1. i \in 1..n /\ lineage[i].verdict \in Kept
      BY DEF Effective
    <2>2. lineage[i] # Bad
      BY <2>1 DEF Bad, Evolved!BadLine, Kept
    <2>3. lineage[i] \in Evolved!Records
      BY <2>1, <2>2 DEF Evolved!Records, Evolved!Range, Bad
    <2> QED
      BY <2>1, <2>2, <2>3 DEF Kept, Evolved!Accepted
  <1>2. \A s \in Evolved!Accepted : \E i \in Effective(lineage) : s = lineage[i]
    BY DEF Evolved!Accepted, Evolved!Records, Evolved!Range, Effective, Kept
  <1>3. CASE Effective(lineage) = {}
    <2>1. Evolved!Accepted = {}
      BY <1>2, <1>3
    <2> QED
      BY <1>3, <2>1, Numbered DEF LastCap, Evolved!reconstruct
  <1>4. CASE Effective(lineage) # {}
    <2>1. PICK m \in Effective(lineage) : \A k \in Effective(lineage) : k <= m
      BY <1>4, EffectiveMax
    <2>2. lineage[m] \in Evolved!Accepted /\ lineage[m] # Bad /\ m \in 1..n
      BY <1>1
    <2>3. PICK r \in Evolved!Accepted : r.gen = Evolved!LastAccepted
      BY <2>2, Numbered
    <2>4. PICK j \in Effective(lineage) : r = lineage[j]
      BY <1>2
    <2>5. lineage[m].gen <= r.gen
      BY <2>2, <2>3, Numbered
    <2>6. lineage[m].gen \in Nat /\ r.gen \in Nat
      BY <2>2, Reconstructed
    <2>7. j \in 1..n /\ lineage[j] # Bad /\ j <= m
      BY <1>1, <2>1
    <2>8. j = m
      <3>1. j < m => lineage[j].gen < lineage[m].gen
        BY <2>2, <2>7 DEF Ordered
      <3> QED
        BY <2>2, <2>4, <2>5, <2>6, <2>7, <3>1
    <2>9. LastCap(lineage) = lineage[m].after
      BY <2>1, LastCapIs
    <2> QED
      BY <2>2, <2>3, <2>4, <2>8, <2>9, Reconstructed
  <1> QED
    BY <1>3, <1>4

------------------------------------------------------------------------------
LEMMA AppendedIs ==
  ASSUME LineTypes, NEW l
  PROVE  Evolved!Appended(l) = IF cutOff THEN lineage ELSE Append(lineage, l)
  <1>1. CASE cutOff
    <2>1. lineage[Len(lineage)] = Bad /\ lineage \in Seq(Lines \cup {Bad}) /\ Len(lineage) > 0
      BY <1>1 DEF LineTypes
    <2>2. [lineage EXCEPT ![Len(lineage)] = Bad] = lineage
      BY <2>1
    <2> QED
      BY <1>1, <2>2 DEF Evolved!Appended, Bad
  <1>2. CASE ~cutOff
    BY <1>2 DEF Evolved!Appended
  <1> QED
    BY <1>1, <1>2

LEMMA LastCapGrown ==
  ASSUME NEW n \in Nat, NEW l, DOMAIN lineage = 1..n, DOMAIN lineage' = 1..(n + 1),
         lineage'[n + 1] = l, \A i \in 1..n : lineage'[i] = lineage[i]
  PROVE  /\ l.verdict \in Kept => LastCap(lineage') = l.after
         /\ l.verdict \notin Kept => LastCap(lineage') = LastCap(lineage)
  BY LastCapNext

LEMMA GrownLine ==
  ASSUME LineTypes, Ordered(lineage), NEW l \in Lines \cup {Bad},
         l # Bad => l.gen = Evolved!NextSeq,
         lineage' = Append(lineage, l)
  PROVE  /\ lineage' \in Seq(Lines \cup {Bad})
         /\ Ordered(lineage')
         /\ Evolved!Records' = Evolved!Records \cup ({l} \ {Bad})
         /\ Len(lineage') = Len(lineage) + 1 /\ lineage'[Len(lineage')] = l
         /\ l.verdict \in Kept => LastCap(lineage') = l.after
         /\ l.verdict \notin Kept => LastCap(lineage') = LastCap(lineage)
  <1> PICK n \in Nat : n = Len(lineage) /\ DOMAIN lineage = 1..n
    BY DEF LineTypes
  <1>1. /\ lineage' \in Seq(Lines \cup {Bad}) /\ Len(lineage') = n + 1
        /\ DOMAIN lineage' = 1..(n + 1) /\ lineage'[n + 1] = l
        /\ \A i \in 1..n : lineage'[i] = lineage[i]
    BY DEF LineTypes
  <1>2. \A i \in 1..n : lineage[i] # Bad => lineage[i].gen \in Nat /\ lineage[i] \in Evolved!Records
    BY DEF LineTypes, Lines, Evolved!Records, Evolved!Range, Bad
  <1>3. ASSUME l # Bad
        PROVE  l.gen \in Nat /\ l.gen <= n + 1 /\ (\A i \in 1..n : lineage[i] # Bad => lineage[i].gen < l.gen)
    BY <1>2, <1>3, Numbered
  <1>4. Ordered(lineage')
    <2>1. ASSUME NEW i \in 1..(n + 1), NEW j \in 1..(n + 1), i < j,
                 lineage'[i] # Bad, lineage'[j] # Bad
          PROVE  lineage'[i].gen < lineage'[j].gen
      <3>1. i \in 1..n
        BY <2>1
      <3>2. CASE j = n + 1
        BY <1>1, <1>3, <2>1, <3>1, <3>2
      <3>3. CASE j \in 1..n
        BY <1>1, <2>1, <3>1, <3>3 DEF Ordered
      <3> QED
        BY <2>1, <3>2, <3>3
    <2>2. ASSUME NEW i \in 1..(n + 1), lineage'[i] # Bad
          PROVE  lineage'[i].gen <= i
      <3>1. CASE i = n + 1
        BY <1>1, <1>3, <2>2, <3>1
      <3>2. CASE i \in 1..n
        BY <1>1, <2>2, <3>2 DEF Ordered
      <3> QED
        BY <3>1, <3>2
    <2> QED
      BY <1>1, <2>1, <2>2 DEF Ordered
  <1>5. Evolved!Records' = Evolved!Records \cup ({l} \ {Bad})
    <2>1. \A x : x \in Evolved!Range(lineage') <=> x \in Evolved!Range(lineage) \/ x = l
      BY <1>1 DEF Evolved!Range
    <2>2. Evolved!Records = Evolved!Range(lineage) \ {Bad} /\ Evolved!Records' = Evolved!Range(lineage') \ {Bad}
      BY DEF Evolved!Records, Bad
    <2> QED
      BY <2>1, <2>2
  <1>6. /\ l.verdict \in Kept => LastCap(lineage') = l.after
        /\ l.verdict \notin Kept => LastCap(lineage') = LastCap(lineage)
    BY <1>1, LastCapGrown
  <1> QED
    BY <1>1, <1>4, <1>5, <1>6

(* A line of no effect, or a bad one, changes neither the cap in force nor   *)
(* what was accepted before.                                                 *)
LEMMA NoEffect ==
  ASSUME LineInv, NEW l \in Lines \cup {Bad}, l # Bad => l.gen = Evolved!NextSeq,
         l.verdict \notin Kept, lineage' = Evolved!Appended(l)
  PROVE  /\ lineage' \in Seq(Lines \cup {Bad}) /\ Ordered(lineage')
         /\ LastCap(lineage') = LastCap(lineage)
         /\ Evolved!Accepted \subseteq Evolved!Accepted'
         /\ Len(lineage') > 0 /\ (l = Bad => lineage'[Len(lineage')] = Bad)
  <1>0. LineTypes /\ Ordered(lineage)
    BY DEF LineInv
  <1>1. CASE cutOff
    <2>1. lineage' = lineage
      BY <1>0, <1>1, AppendedIs
    <2>2. Evolved!Accepted' = Evolved!Accepted
      BY <2>1 DEF Evolved!Accepted, Evolved!Records
    <2> QED
      BY <1>0, <1>1, <2>1, <2>2 DEF LineTypes
  <1>2. CASE ~cutOff
    <2>1. lineage' = Append(lineage, l)
      BY <1>0, <1>2, AppendedIs
    <2>2. /\ lineage' \in Seq(Lines \cup {Bad}) /\ Ordered(lineage')
          /\ Evolved!Records' = Evolved!Records \cup ({l} \ {Bad})
          /\ Len(lineage') = Len(lineage) + 1 /\ lineage'[Len(lineage')] = l
          /\ LastCap(lineage') = LastCap(lineage)
      BY <1>0, <2>1, GrownLine
    <2>3. Evolved!Accepted \subseteq Evolved!Accepted'
      BY <2>2 DEF Evolved!Accepted
    <2>4. Len(lineage) \in Nat
      BY <1>0 DEF LineTypes
    <2> QED
      BY <2>2, <2>3, <2>4
  <1> QED
    BY <1>1, <1>2

LEMMA NotTakenStep ==
  ASSUME LineInv, Evolved!NotTaken
  PROVE  LineInv'
  <1>0. LineTypes /\ Ordered(lineage)
    BY DEF LineInv
  <1>1. PICK r \in Runs, dir \in {-1, 1},
             verdict \in {"skipped", "rejected_guard_static", "rejected_fitness"} :
          lineage' = Evolved!Appended(Evolved!Line(verdict, Evolved!LastAccepted,
                       Evolved!reconstruct(Evolved!LastAccepted), 0))
    BY DEF Evolved!NotTaken
  <1> DEFINE l == Evolved!Line(verdict, Evolved!LastAccepted,
                       Evolved!reconstruct(Evolved!LastAccepted), 0)
  <1>2. l \in Lines /\ l.gen = Evolved!NextSeq /\ l.verdict \notin Kept
    BY <1>0, Numbered, OldCap DEF Evolved!Line, Lines, Evolved!Verdicts, Kept
  <1> HIDE DEF l
  <1>3. lineage' = Evolved!Appended(l)
    BY <1>1 DEF l
  <1>4. /\ lineage' \in Seq(Lines \cup {Bad}) /\ Ordered(lineage')
        /\ LastCap(lineage') = LastCap(lineage)
        /\ Evolved!Accepted \subseteq Evolved!Accepted'
    BY <1>2, <1>3, NoEffect
  <1>5. /\ cutOff' = FALSE /\ overlay' = overlay /\ evolving' = evolving /\ known' = known
        /\ evolving = Evolved!NoLine
    BY DEF Evolved!NotTaken, Evolved!MayWrite
  <1>6. LineTypes'
    BY <1>0, <1>4, <1>5 DEF LineTypes
  <1>7. KeptStay'
    BY <1>4, <1>5 DEF LineInv, KeptStay
  <1>8. Evolved!SlowDrift'
    BY <1>5 DEF Evolved!SlowDrift
  <1>9. (known.told /\ evolving = Evolved!NoLine => overlay.cap = LastCap(lineage))'
    BY <1>4, <1>5 DEF LineInv
  <1>10. Ordered(lineage)'
    BY <1>4
  <1> QED
    BY <1>6, <1>7, <1>8, <1>9, <1>10 DEF LineInv

LEMMA BrokenStep ==
  ASSUME LineInv, Evolved!Kill \/ Evolved!CutShort
  PROVE  LineInv'
  <1>0. LineTypes /\ Ordered(lineage)
    BY DEF LineInv
  <1>1. /\ overlay' = overlay /\ evolving' = Evolved!NoLine
        /\ known' = [known EXCEPT !.broke = @ + 1, !.told = FALSE] /\ known.broke < MaxBreaks
    BY DEF Evolved!Kill, Evolved!CutShort, Evolved!Broken
  <1>2. /\ known' \in [prior : Caps, told : BOOLEAN, kept : SUBSET (Nat \X Caps), broke : 0..MaxBreaks]
        /\ ~known'.told /\ known'.kept = known.kept
    <2>1. known \in [prior : Caps, told : BOOLEAN, kept : SUBSET (Nat \X Caps), broke : 0..MaxBreaks]
      BY <1>0 DEF LineTypes
    <2>2. known.broke + 1 \in 0..MaxBreaks
      BY <1>1, <2>1, LineConstants
    <2> DEFINE KK == SUBSET (Nat \X Caps)
    <2> HIDE DEF KK
    <2>3. known \in [prior : Caps, told : BOOLEAN, kept : KK, broke : 0..MaxBreaks]
      BY <2>1 DEF KK
    <2>4. /\ known' \in [prior : Caps, told : BOOLEAN, kept : KK, broke : 0..MaxBreaks]
          /\ ~known'.told /\ known'.kept = known.kept
      BY <1>1, <2>2, <2>3
    <2> QED
      BY <2>4 DEF KK
  <1>3. /\ lineage' \in Seq(Lines \cup {Bad}) /\ Ordered(lineage')
        /\ Evolved!Accepted \subseteq Evolved!Accepted'
        /\ cutOff' \in BOOLEAN
        /\ cutOff' => Len(lineage') > 0 /\ lineage'[Len(lineage')] = Bad
    <2>1. CASE Evolved!Kill
      <3>1. lineage' = lineage /\ cutOff' = cutOff
        BY <2>1 DEF Evolved!Kill
      <3> QED
        BY <1>0, <3>1 DEF LineTypes, Evolved!Accepted, Evolved!Records
    <2>2. CASE Evolved!CutShort
      <3>1. lineage' = Evolved!Appended(Bad) /\ cutOff' = TRUE
        BY <2>2 DEF Evolved!CutShort, Bad
      <3>2. Bad.verdict \notin Kept
        BY DEF Bad, Evolved!BadLine, Kept
      <3> QED
        BY <3>1, <3>2, NoEffect
    <2> QED
      BY <2>1, <2>2
  <1>6. LineTypes'
    BY <1>0, <1>1, <1>2, <1>3 DEF LineTypes
  <1>7. KeptStay'
    BY <1>2, <1>3 DEF LineInv, KeptStay
  <1>8. Evolved!SlowDrift'
    BY <1>1 DEF Evolved!SlowDrift
  <1>9. (known.told /\ evolving = Evolved!NoLine => overlay.cap = LastCap(lineage))'
    BY <1>2
  <1>10. Ordered(lineage)'
    BY <1>3
  <1> QED
    BY <1>6, <1>7, <1>8, <1>9, <1>10 DEF LineInv

LEMMA RecordStep ==
  ASSUME LineInv, Evolved!Record
  PROVE  LineInv'
  <1>0. LineTypes /\ Ordered(lineage)
    BY DEF LineInv
  <1>1. /\ evolving # Evolved!NoLine /\ lineage' = Evolved!Appended(evolving)
        /\ cutOff' = FALSE /\ evolving' = Evolved!NoLine /\ overlay' = overlay
    BY DEF Evolved!Record
  <1>2. /\ evolving \in Lines /\ evolving.verdict \in Kept
        /\ evolving.gen = Evolved!NextSeq /\ evolving.after = overlay.cap
    BY <1>0, <1>1 DEF LineTypes
  <1> DEFINE KK == SUBSET (Nat \X Caps)
             said == IF evolving.verdict = "accepted" /\ ~cutOff
                     THEN known.kept \cup {<<evolving.gen, overlay.cap>>} ELSE known.kept
  <1>3. known \in [prior : Caps, told : BOOLEAN, kept : KK, broke : 0..MaxBreaks]
    BY <1>0 DEF LineTypes
  <1>4. said \in KK
    <2>1. known.kept \in KK
      BY <1>3
    <2>2. <<evolving.gen, overlay.cap>> \in Nat \X Caps
      BY <1>0, <1>2 DEF LineTypes, Lines
    <2> QED
      BY <2>1, <2>2
  <1>5. known' = [known EXCEPT !.told = ~cutOff, !.kept = said]
    BY DEF Evolved!Record
  <1>11. (~cutOff) \in BOOLEAN
    OBVIOUS
  <1> HIDE DEF KK
  <1>6. /\ known' \in [prior : Caps, told : BOOLEAN, kept : KK, broke : 0..MaxBreaks]
        /\ known'.told = ~cutOff /\ known'.kept = said
    <2> HIDE DEF said
    <2>1. known' \in [prior : Caps, told : BOOLEAN, kept : KK, broke : 0..MaxBreaks]
      BY <1>3, <1>4, <1>5, <1>11
    <2>2. known'.told = ~cutOff /\ known'.kept = said
      BY <1>3, <1>5, Zenon
    <2> QED
      BY <2>1, <2>2
  <1>7. CASE cutOff
    <2>1. lineage' = lineage
      BY <1>0, <1>1, <1>7, AppendedIs
    <2>2. said = known.kept
      BY <1>7
    <2>3. LineTypes'
      BY <1>0, <1>1, <1>6, <2>1 DEF LineTypes, KK
    <2>4. KeptStay'
      BY <1>6, <2>1, <2>2 DEF LineInv, KeptStay, Evolved!Accepted, Evolved!Records
    <2>5. Evolved!SlowDrift'
      BY <1>1 DEF Evolved!SlowDrift
    <2>6. ~known'.told
      BY <1>6, <1>7
    <2>7. Ordered(lineage)'
      BY <1>0, <2>1
    <2> QED
      BY <2>3, <2>4, <2>5, <2>6, <2>7 DEF LineInv
  <1>8. CASE ~cutOff
    <2>1. lineage' = Append(lineage, evolving)
      BY <1>0, <1>1, <1>8, AppendedIs
    <2>2. /\ lineage' \in Seq(Lines \cup {Bad}) /\ Ordered(lineage')
          /\ Evolved!Records' = Evolved!Records \cup ({evolving} \ {Bad})
          /\ LastCap(lineage') = evolving.after
      BY <1>0, <1>2, <2>1, GrownLine
    <2>3. LineTypes'
      BY <1>0, <1>1, <1>6, <2>2 DEF LineTypes, KK
    <2>4. evolving # Bad
      BY <1>2 DEF Bad, Evolved!BadLine, Kept
    <2>5. KeptStay'
      <3> SUFFICES ASSUME NEW k \in said
                   PROVE  \E r \in Evolved!Accepted' : r.gen = k[1] /\ r.after = k[2]
        BY <1>6 DEF KeptStay
      <3>1. CASE k \in known.kept
        BY <2>2, <3>1 DEF LineInv, KeptStay, Evolved!Accepted
      <3>2. CASE k \notin known.kept
        <4>1. evolving.verdict = "accepted" /\ k = <<evolving.gen, overlay.cap>>
          BY <3>2
        <4>2. evolving \in Evolved!Accepted'
          BY <2>2, <2>4, <4>1 DEF Evolved!Accepted
        <4> QED
          BY <1>2, <4>1, <4>2
      <3> QED
        BY <3>1, <3>2
    <2>6. Evolved!SlowDrift'
      BY <1>1 DEF Evolved!SlowDrift
    <2>7. overlay'.cap = LastCap(lineage')
      BY <1>1, <1>2, <2>2
    <2>8. Ordered(lineage)'
      BY <2>2
    <2> QED
      BY <2>3, <2>5, <2>6, <2>7, <2>8 DEF LineInv
  <1> QED
    BY <1>7, <1>8

(* What reaches the overlay before the lineage.                              *)
LEMMA Deployed ==
  ASSUME LineInv, NEW cap \in Caps, NEW gen \in Nat, NEW parent \in Nat, NEW to \in Nat,
         NEW verdict \in Kept, Evolved!MayWrite, lineage' = lineage, cutOff' = cutOff,
         Evolved!Deploy(cap, gen, Evolved!Line(verdict, parent, cap, to))
  PROVE  /\ LineTypes' /\ Ordered(lineage') /\ KeptStay'
         /\ evolving' # Evolved!NoLine /\ evolving'.verdict = verdict
         /\ known'.prior = overlay.cap /\ overlay'.cap = cap /\ known'.told = known.told
         /\ Evolved!Records' = Evolved!Records
  <1>0. LineTypes /\ Ordered(lineage)
    BY DEF LineInv
  <1> DEFINE l == Evolved!Line(verdict, parent, cap, to)
  <1>1. l \in Lines /\ l.gen = Evolved!NextSeq /\ l.verdict = verdict /\ l.after = cap /\ l # Evolved!NoLine
    <2>1. l \in Lines /\ l.gen = Evolved!NextSeq /\ l.verdict = verdict /\ l.after = cap
      BY <1>0, Numbered DEF Evolved!Line, Lines, Evolved!Verdicts, Kept
    <2>2. l.gen # 0
      BY <2>1 DEF Lines
    <2> QED
      BY <2>1, <2>2 DEF Evolved!NoLine
  <1> HIDE DEF l
  <1>2. overlay' = [gen |-> gen, cap |-> cap] /\ evolving' = l /\ known' = [known EXCEPT !.prior = overlay.cap]
    BY DEF Evolved!Deploy, l
  <1> DEFINE KK == SUBSET (Nat \X Caps)
  <1>3. known \in [prior : Caps, told : BOOLEAN, kept : KK, broke : 0..MaxBreaks] /\ overlay.cap \in Caps
    BY <1>0 DEF LineTypes
  <1> HIDE DEF KK
  <1>4. known' \in [prior : Caps, told : BOOLEAN, kept : KK, broke : 0..MaxBreaks]
    BY <1>2, <1>3
  <1>5. known'.prior = overlay.cap /\ known'.told = known.told /\ known'.kept = known.kept
    BY <1>2, <1>3, Zenon
  <1>6. Evolved!NextSeq' = Evolved!NextSeq /\ Evolved!Records' = Evolved!Records /\ Evolved!Accepted' = Evolved!Accepted
    BY DEF Evolved!NextSeq, Evolved!Records, Evolved!Accepted
  <1>7. overlay'.cap = cap /\ overlay'.gen = gen
    BY <1>2
  <1>8. LineTypes'
    BY <1>0, <1>1, <1>2, <1>4, <1>6, <1>7 DEF LineTypes, KK
  <1>9. KeptStay'
    BY <1>5, <1>6 DEF LineInv, KeptStay
  <1> QED
    BY <1>0, <1>1, <1>2, <1>5, <1>6, <1>7, <1>8, <1>9

LEMMA Widest ==
  ASSUME NEW r \in Runs
  PROVE  /\ Evolved!Bound(r.velocity) \in Nat
         /\ Evolved!Max({Evolved!Bound(s.velocity) : s \in Runs}) \in Nat
         /\ Evolved!Bound(r.velocity) <= Evolved!Max({Evolved!Bound(s.velocity) : s \in Runs})
  <1> DEFINE T == {Evolved!Bound(s.velocity) : s \in Runs}
  <1>1. \A s \in Runs : Evolved!Bound(s.velocity) \in 0..500
    BY LineConstants DEF Evolved!Bound, Evolved!Hi, Evolved!Lo
  <1>2. T \in SUBSET (0..500) /\ T # {} /\ Evolved!Bound(r.velocity) \in T
    BY <1>1
  <1>3. Evolved!Max(T) = CHOOSE x \in T : \A y \in T : x >= y
    BY DEF Evolved!Max
  <1> HIDE DEF T
  <1>4. Evolved!Max(T) \in T /\ (\A k \in T : k <= Evolved!Max(T))
    BY <1>2, <1>3, Greatest, 500 \in Nat
  <1>5. Evolved!Max(T) \in Nat /\ Evolved!Bound(r.velocity) <= Evolved!Max(T) /\ Evolved!Bound(r.velocity) \in Nat
    <2>1. Evolved!Max(T) \in 0..500 /\ Evolved!Bound(r.velocity) \in 0..500
      BY <1>1, <1>2, <1>4
    <2>2. Evolved!Bound(r.velocity) <= Evolved!Max(T)
      BY <1>2, <1>4
    <2> QED
      BY <2>1, <2>2
  <1> QED
    BY <1>5 DEF T

LEMMA TakeStep ==
  ASSUME LineInv, Evolved!Take
  PROVE  LineInv'
  <1>0. LineTypes /\ Ordered(lineage)
    BY DEF LineInv
  <1> DEFINE old == Evolved!reconstruct(Evolved!LastAccepted)
  <1>1. PICK r \in Runs, dir \in {-1, 1} :
          LET new == Evolved!Proposed(old, r, dir)
          IN /\ Evolved!StepAllowed(old, new, r.velocity)
             /\ Evolved!Deploy(new, Evolved!NextSeq, Evolved!Line("accepted", Evolved!LastAccepted, new, 0))
    BY DEF Evolved!Take
  <1>2. old \in Caps /\ Evolved!LastAccepted \in Nat /\ Evolved!NextSeq \in Nat
    BY <1>0, OldCap, Numbered
  <1> PICK new \in Caps : new = Evolved!Proposed(old, r, dir)
    BY <1>2, ProposedCap
  <1>3. Evolved!MayWrite /\ lineage' = lineage /\ cutOff' = cutOff /\ evolving = Evolved!NoLine
    BY DEF Evolved!Take, Evolved!MayWrite
  <1>4. /\ LineTypes' /\ Ordered(lineage') /\ KeptStay'
        /\ evolving' # Evolved!NoLine
        /\ known'.prior = overlay.cap /\ overlay'.cap = new /\ known'.told = known.told
        /\ Evolved!Records' = Evolved!Records
    <2>1. "accepted" \in Kept /\ 0 \in Nat
      BY DEF Kept
    <2>2. Evolved!Deploy(new, Evolved!NextSeq, Evolved!Line("accepted", Evolved!LastAccepted, new, 0))
      BY <1>1
    <2> QED
      BY <1>2, <1>3, <2>1, <2>2, Deployed
  <1> DEFINE widest == Evolved!Max({Evolved!Bound(s.velocity) : s \in Runs})
  <1>5. 100 * Evolved!Max({new - old, old - new}) <= widest
    <2>1. 100 * Evolved!Max({new - old, old - new}) <= Evolved!Bound(r.velocity)
      BY <1>1 DEF Evolved!StepAllowed
    <2>2. Evolved!Max({new - old, old - new}) \in Int
      <3>1. old \in Int /\ new \in Int
        BY <1>2 DEF Caps
      <3> HIDE DEF old
      <3> PICK a \in Int, b \in Int : a = new - old /\ b = old - new
        BY <3>1
      <3>2. Evolved!Max({a, b}) = IF a >= b THEN a ELSE b
        BY MaxOfTwo
      <3> QED
        BY <3>2
    <2> PICK m \in Int : m = Evolved!Max({new - old, old - new})
      BY <2>2
    <2>3. widest \in Nat /\ Evolved!Bound(r.velocity) <= widest /\ Evolved!Bound(r.velocity) \in Nat
      BY Widest
    <2> HIDE DEF widest
    <2> QED
      BY <2>1, <2>3
  <1>6. Evolved!SlowDrift'
    <2> SUFFICES ASSUME known'.told, \A s \in Evolved!Records' : s.verdict # "rollback"
                 PROVE  100 * Evolved!Max({overlay'.cap - known'.prior, known'.prior - overlay'.cap}) <= widest
      BY DEF Evolved!SlowDrift
    <2>1. known.told /\ \A s \in Evolved!Records : s.verdict # "rollback"
      BY <1>4
    <2>2. overlay.cap = old
      BY <1>0, <1>3, <2>1, InForce DEF LineInv
    <2> QED
      BY <1>4, <1>5, <2>2
  <1>7. Ordered(lineage)'
    BY <1>4
  <1> QED
    BY <1>4, <1>6, <1>7 DEF LineInv

LEMMA RollbackStep ==
  ASSUME LineInv, Evolved!Rollback
  PROVE  LineInv'
  <1>0. LineTypes /\ Ordered(lineage)
    BY DEF LineInv
  <1>1. PICK gen \in {0} \cup {r.gen : r \in Evolved!Accepted} :
          Evolved!Deploy(Evolved!reconstruct(gen), gen,
            Evolved!Line("rollback", 0, Evolved!reconstruct(gen), gen))
    BY DEF Evolved!Rollback
  <1>2. Evolved!reconstruct(gen) \in Caps /\ gen \in Nat
    BY <1>0, OldCap, Reconstructed
  <1>3. Evolved!MayWrite /\ lineage' = lineage /\ cutOff' = cutOff
    BY DEF Evolved!Rollback
  <1>4. /\ LineTypes' /\ Ordered(lineage') /\ KeptStay'
        /\ evolving' # Evolved!NoLine /\ evolving'.verdict = "rollback"
    <2>1. "rollback" \in Kept /\ 0 \in Nat
      BY DEF Kept
    <2> QED
      BY <1>1, <1>2, <1>3, <2>1, Deployed
  <1>5. Evolved!SlowDrift'
    BY <1>4 DEF Evolved!SlowDrift
  <1>6. Ordered(lineage)'
    BY <1>4
  <1> QED
    BY <1>4, <1>5, <1>6 DEF LineInv

LEMMA LineBegins ==
  ASSUME Evolved!Init
  PROVE  LineInv
  <1>1. /\ lineage = <<>> /\ cutOff = FALSE /\ overlay = [gen |-> 0, cap |-> 3]
        /\ evolving = Evolved!NoLine
        /\ known = [prior |-> 3, told |-> TRUE, kept |-> {}, broke |-> 0]
    BY DEF Evolved!Init, Evolved!Hatch
  <1>2. LineTypes
    <2> DEFINE KK == SUBSET (Nat \X Caps)
    <2>1. {} \in KK
      OBVIOUS
    <2> HIDE DEF KK
    <2>2. 3 \in Caps /\ 0 \in 0..MaxBreaks
      BY LineConstants DEF Caps
    <2>3. known \in [prior : Caps, told : BOOLEAN, kept : KK, broke : 0..MaxBreaks]
      BY <1>1, <2>1, <2>2
    <2>4. lineage \in Seq(Lines \cup {Bad})
      BY <1>1
    <2> QED
      BY <1>1, <2>2, <2>3, <2>4 DEF LineTypes, KK
  <1>3. Ordered(lineage) /\ KeptStay /\ Evolved!SlowDrift
    BY <1>1 DEF Ordered, KeptStay, Evolved!SlowDrift
  <1>4. LastCap(lineage) = 3
    BY <1>1 DEF LastCap, Effective, Evolved!Hatch
  <1> QED
    BY <1>1, <1>2, <1>3, <1>4 DEF LineInv

LEMMA LineStep ==
  ASSUME LineInv, Evolved!Next
  PROVE  LineInv'
  BY NotTakenStep, TakeStep, RollbackStep, RecordStep, BrokenStep DEF Evolved!Next

LEMMA LineStands ==
  ASSUME LineInv, UNCHANGED evars
  PROVE  LineInv'
  <1>1. /\ lineage' = lineage /\ cutOff' = cutOff /\ overlay' = overlay /\ evolving' = evolving
        /\ known' = known
    BY DEF evars
  <1> QED
    BY <1>1 DEF LineInv, LineTypes, KeptStay, Evolved!SlowDrift, Evolved!NextSeq, Evolved!Records, Evolved!Accepted

LEMMA LineFollows ==
  ASSUME LineInv
  PROVE  Evolved!LineageExplains /\ Evolved!RollbackRestores /\ Evolved!SlowDrift /\ Evolved!TypeOK
  <1>1. LineTypes /\ Ordered(lineage) /\ KeptStay
    BY DEF LineInv
  <1>2. Evolved!LineageExplains
    BY DEF LineInv, Evolved!LineageExplains, LastCap, Effective, Kept
  <1>3. Evolved!RollbackRestores
    BY <1>1 DEF KeptStay, Ordered, Bad, Evolved!RollbackRestores
  <1>4. Evolved!TypeOK
    <2>1. \A l \in Evolved!Range(lineage) : l \in Lines \cup {Bad}
      BY <1>1 DEF LineTypes, Evolved!Range
    <2>2. \A l \in Evolved!Range(lineage) : l = Evolved!BadLine
            \/ (l.gen \in Nat \ {0} /\ l.verdict \in Evolved!Verdicts /\ l.after \in 1..6)
      BY <2>1 DEF Lines, Bad, Caps
    <2> QED
      BY <1>1, <2>2 DEF LineTypes, Caps, Evolved!TypeOK, Evolved!Lo, Evolved!Hi
  <1> QED
    BY <1>2, <1>3, <1>4 DEF LineInv

(* What she wants is felt, said and remembered as the core would have it.    *)
THEOREM MindWishes == Spec => []Wishes
  <1>1. Init => FieldInv /\ WishInv
    BY FieldBegins, WishBegins DEF Init
  <1>2. FieldInv /\ WishInv /\ [Next]_vars => (FieldInv /\ WishInv)'
    BY PartSteps, FieldStep, WishStep
  <1>3. FieldInv /\ WishInv => Wishes
    BY ThresholdHolds, WishesFollow DEF Wishes, FieldInv
  <1> QED
    BY <1>1, <1>2, <1>3, PTL DEF Spec

(* She is never younger, whatever raises and whenever the process dies, but   *)
(* that a kill forgets what was not saved where a row was lost; and the way   *)
(* she ages, once on disk, is kept.                                          *)
THEOREM MindNeverYounger == Spec => Age!DeepNeverYounger
  <1>1. Init => AgeInv
    BY AgeBegins DEF Init
  <1>2. AgeInv /\ [Next]_vars => AgeInv'
    BY PartSteps, AgeStep
  <1>3. AgeInv /\ [Next]_vars =>
          [/\ \/ aging'.p <= aging.p
              \/ past.lost > 0 /\ agingDisk # aging /\ past'.kills > past.kills
           /\ agingDisk.model # "none" => aging'.model = agingDisk.model]_(Age!gvars)
    BY PartSteps, AgeStep
  <1> QED
    BY <1>1, <1>2, <1>3, PTL DEF Spec, Age!DeepNeverYounger

(* The days that made her older are each in the ledger once, and the book    *)
(* tells of them what the ledger does.                                       *)
THEOREM MindAged == Spec => []Aged
  <1>1. Init => AgeInv /\ BookAll
    BY AgeBegins, BookAllBegins DEF Init
  <1>2. AgeInv /\ BookAll /\ [Next]_vars => (AgeInv /\ BookAll)'
    <2> SUFFICES ASSUME AgeInv, BookAll, [Next]_vars PROVE (AgeInv /\ BookAll)'
      OBVIOUS
    <2>1. [Age!Next]_avars /\ [Printed!Next]_bvars
      BY PartSteps
    <2>2. AgeInv'
      BY <2>1, AgeStep
    <2>3. BookAll'
      BY <2>1, BookAllStep
    <2> QED
      BY <2>2, <2>3
  <1>3. AgeInv /\ BookAll => Aged
    BY AgeFollows, BookFollows DEF Aged
  <1> QED
    BY <1>1, <1>2, <1>3, PTL DEF Spec

(* A day that cost no more than the forecast supposed takes no more than one *)
(* off it, and what a book left out stays out.                               *)
THEOREM MindForetold == Spec => Printed!ForecastHonest /\ Printed!LeftOutStaysOut
  <1>1. Init => BookAll
    BY BookAllBegins DEF Init
  <1>2. BookAll /\ [Next]_vars => BookAll'
    BY PartSteps, BookAllStep
  <1>3. BookAll /\ BookAll' /\ [Next]_vars =>
          [(/\ life.model \in {"linear", "reserve"} /\ life'.age = life.age + 1
            /\ slips' = slips /\ Printed!Remaining < Printed!Infinite
            /\ Len(lines') = Len(lines) + 1 /\ Printed!Newest'.reason = "settle_day"
            /\ Printed!Newest'.high <= Printed!Busy /\ Printed!Newest'.day \notin Printed!Settled)
           => Printed!Remaining' >= Printed!Remaining - 1]_(Printed!bvars)
    <2> SUFFICES ASSUME BookAll, BookAll', [Next]_vars,
                        life.model \in {"linear", "reserve"}, life'.age = life.age + 1,
                        slips' = slips, Printed!Remaining < Printed!Infinite,
                        Len(lines') = Len(lines) + 1, Printed!Newest'.reason = "settle_day",
                        Printed!Newest'.high <= Printed!Busy,
                        Printed!Newest'.day \notin Printed!Settled
                 PROVE  Printed!Remaining' >= Printed!Remaining - 1
      OBVIOUS
    <2>1. [Printed!Next]_bvars
      BY PartSteps
    <2>2. BookInv /\ WholeInv /\ BookTypes' /\ WholeInv'
      BY DEF BookAll, BookInv, RecordInv
    <2>3. Printed!Remaining < 1000
      BY DEF Printed!Infinite
    <2> QED
      BY <2>1, <2>2, <2>3, HonestStep
  <1>4. BookAll /\ [Next]_vars =>
          [LET was == shelf["long"] now == shelf'["long"]
           IN was.gen = now.gen => now.picks \cap 1..was.total \subseteq was.picks]_(Printed!bvars)
    BY PartSteps, LeftOutStep DEF BookAll
  <1> QED
    BY <1>1, <1>2, <1>3, <1>4, PTL DEF Spec, Printed!ForecastHonest, Printed!LeftOutStaysOut

------------------------------------------------------------------------------
(* The lineage explains the overlay, the trace of a replay adds up, and no   *)
(* setting hides one above it.                                               *)
THEOREM MindTools == Spec => []Tools
  <1>1. Init => LineInv /\ BenchInv /\ SetInv
    BY LineBegins, BenchBegins, SetBegins DEF Init
  <1>2. LineInv /\ BenchInv /\ SetInv /\ [Next]_vars => (LineInv /\ BenchInv /\ SetInv)'
    <2> SUFFICES ASSUME LineInv, BenchInv, SetInv, [Next]_vars
                 PROVE  (LineInv /\ BenchInv /\ SetInv)'
      OBVIOUS
    <2>1. [Evolved!Next]_evars /\ [Replay!Next]_xvars /\ [Set!Next]_svars
      BY PartSteps
    <2>2. LineInv'
      BY <2>1, LineStep, LineStands
    <2> QED
      BY <2>1, <2>2, BenchStep, SetStep
  <1>3. LineInv /\ BenchInv /\ SetInv => Tools
    BY LineFollows, BenchFollows, FileBefore, Refused, QuietHolds DEF Tools
  <1> QED
    BY <1>1, <1>2, <1>3, PTL DEF Spec
================================================================================
