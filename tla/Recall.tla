--------------------------------- MODULE Recall ---------------------------------
(***************************************************************************)
(* Recall: three ways to rank the entries of L2 for a query, the rehearsal *)
(* of what was found, and the view affect_recall gives of it.              *)
(*                                                                         *)
(* Factors and scores are percents.  There are too few entries for vectors *)
(* here, so relevance is by keywords; retention is an operator of the age  *)
(* in days and the strength, in percent, as decreasing and increasing in   *)
(* them as both families are.                                              *)
(***************************************************************************)
EXTENDS Integers, Sequences, FiniteSets, FiniteSetsExt

CONSTANTS Words,          \* keywords
          Learned,        \* entries a night may bring: [kws, warm]
          Queries,        \* [text, k, affect, scorer]
          Retention(_, _),
          MinHistory, ReunionDays,   \* of the continuity flags
          Skews,          \* days by which an absence may be miscounted, by the time zone
          MaxPool, LastDay, MaxAsked   \* bounds

NoAffect == -1
SCap == 6400
Threshold == 65

RecallAssumption ==
  /\ IsFiniteSet(Words) /\ Learned \subseteq [kws : SUBSET Words, warm : 0..100]
  /\ Queries \subseteq [text : SUBSET Words, k : 0..10, affect : NoAffect..100,
                        scorer : {"linear", "rrf", "emotion_first"}]
  /\ \A d \in 0..LastDay : \A s \in 100..SCap :
       /\ Retention(d, s) \in 0..100
       /\ s < SCap => Retention(d, s) <= Retention(d, s + 1)
  /\ Skews \subseteq -1..1
  /\ {MinHistory, ReunionDays, MaxPool, LastDay, MaxAsked} \subseteq Nat

VARIABLES pool,    \* the entries, in the order of L2: [kws, warm, born, strength, uses]
          spoken,  \* the days with an episode, the last with a word of the user, and its skew
          daybook, \* today, and how often was asked
          view     \* what the last affect_recall showed: the query, the hits, the note

rvars == <<pool, spoken, daybook, view>>

NoView == [shown |-> FALSE]

------------------------------------------------------------------------------
Jaccard(a, b) == IF a = {} \/ b = {} THEN 0
                 ELSE (100 * Cardinality(a \cap b)) \div Cardinality(a \cup b)

(* build_cooc_graph: words that share an entry. *)
Neighbours(kws, w) == UNION {kws[i] : i \in {i \in DOMAIN kws : w \in kws[i]}} \ {w}

(* GraphPath.relevance *)
GraphPath(kws, text, i) ==
  IF kws[i] = {} \/ text = {} THEN 0
  ELSE LET Of(w) == IF w \in kws[i] THEN 100
                    ELSE IF Neighbours(kws, w) \cap kws[i] # {} THEN 50 ELSE 0
       IN Min({100, MapThenSumSet(Of, text) \div Cardinality(text)})

(* FusedBackend, with the fusion of 0.3. *)
Relevance(kws, text, i) ==
  (70 * Jaccard(text, kws[i]) + 30 * GraphPath(kws, text, i)) \div 100

(* log1p(n) / log1p(10) *)
Frequency(n) == LET table == <<0, 29, 46, 58, 67, 75, 81, 87, 92, 96, 100>>
                IN table[1 + Min({n, 10})]

Recency(e) == Retention(daybook.day - e.born, e.strength)

Emotion(e, affect) ==
  IF affect = NoAffect THEN 50 ELSE 100 - Min({100, Max({affect - e.warm, e.warm - affect})})

Factors(entries, q) ==
  LET kws == [i \in DOMAIN entries |-> entries[i].kws]
  IN [i \in DOMAIN entries |->
        [relevance |-> Relevance(kws, q.text, i), recency |-> Recency(entries[i]),
         frequency |-> Frequency(entries[i].uses), emotion |-> Emotion(entries[i], q.affect)]]

(* The entries above one in descending order of a score; ties go to the id. *)
Above(score, i) ==
  {j \in DOMAIN score : score[j] > score[i] \/ (score[j] = score[i] /\ j < i)}

Top(score, k) == {i \in DOMAIN score : Cardinality(Above(score, i)) < k}

(* LinearScorer *)
Linear(f) ==
  [i \in DOMAIN f |-> 45 * f[i].relevance + 25 * f[i].recency + 10 * f[i].frequency + 20 * f[i].emotion]

(* RRFScorer: the reciprocal ranks of the four factors, in parts of        *)
(* 61 * 62 * 63 * 64.                                                      *)
RRF(f) ==
  LET Of(i, factor) ==
        15249024 \div (61 + Cardinality(Above([j \in DOMAIN f |-> f[j][factor]], i)))
  IN [i \in DOMAIN f |-> Of(i, "relevance") + Of(i, "recency") + Of(i, "frequency") + Of(i, "emotion")]

(* EmotionFirstScorer: those that feel alike, and the linear one if none do. *)
EmotionFirst(f) ==
  LET alike == {i \in DOMAIN f : f[i].emotion >= Threshold}
  IN IF alike = {} THEN Linear(f) ELSE [i \in alike |-> 60 * f[i].relevance + 40 * f[i].recency]

Score(entries, q) ==
  LET f == Factors(entries, q)
  IN CASE q.scorer = "rrf"           -> RRF(f)
       [] q.scorer = "emotion_first" -> EmotionFirst(f)
       [] q.scorer = "linear"        -> Linear(f)

(* recall_l2 *)
Hits(entries, q) == Top(Score(entries, q), q.k)

(* rehearse: the more was forgotten, the more is gained. *)
Rehearsed(e) ==
  [e EXCEPT !.strength = Min({SCap, @ + (@ * 60 * (100 - Recency(e))) \div 10000}), !.uses = @ + 1]

(* apply_rehearse *)
Rehearse(entries, hits) ==
  [i \in DOMAIN entries |-> IF i \in hits THEN Rehearsed(entries[i]) ELSE entries[i]]

(* baseline_context: whole days from the word to the end of the day in     *)
(* UTC.  The day is the local one, so east of Greenwich a word of the      *)
(* small hours counts one day too many, west a late one a day too few.     *)
Away == IF spoken.last = -1 THEN 9999 ELSE Max({0, daybook.day - spoken.last + spoken.skew})

(* build_continuity_flags *)
Reunion == Away >= ReunionDays /\ Cardinality(spoken.days) >= MinHistory

(* _pick_note: the notes it may pick, for as many themes as there are.     *)
Notes(first) ==
  IF Reunion THEN {"her last impression"}
  ELSE {"what was talked about",
        IF \E i \in first : Recency(pool[i]) < 30 THEN "remembered longer" ELSE "none"}

------------------------------------------------------------------------------
(* A night brings an entry of what was said today. *)
Learn ==
  /\ Len(pool) < MaxPool
  /\ \E e \in Learned :
       pool' = Append(pool, [kws |-> e.kws, warm |-> e.warm, born |-> daybook.day,
                             strength |-> 100, uses |-> 0])
  /\ view' = NoView
  /\ UNCHANGED <<spoken, daybook>>

(* observe, from the session: a word of the user, or another episode. *)
Speak ==
  /\ LET days == spoken.days \cup {daybook.day}
     IN spoken' \in {[spoken EXCEPT !.days = days]}
                    \cup {[days |-> days, last |-> daybook.day, skew |-> skew] : skew \in Skews}
  /\ spoken' # spoken
  /\ view' = NoView
  /\ UNCHANGED <<pool, daybook>>

(* affect_recall_view, of a life that is bound and not sealed; paused, she *)
(* has no note, as with the steward.                                       *)
Show ==
  /\ daybook.asked < MaxAsked
  /\ \E q \in Queries, steward \in BOOLEAN :
       LET asked == IF steward THEN [q EXCEPT !.scorer = "linear"] ELSE q
           score == Score(pool, asked)
           hits  == Top(score, q.k)
       IN \E note \in {"none"} \cup IF steward THEN {} ELSE Notes(hits \cap Top(score, 1)) :
            /\ pool' = Rehearse(pool, hits)
            /\ view' = [shown |-> TRUE, query |-> asked, hits |-> hits, note |-> note]
  /\ daybook' = [daybook EXCEPT !.asked = @ + 1]
  /\ UNCHANGED spoken

(* A life that is sealed, or a session with none: nothing is read or rehearsed. *)
ShowNothing ==
  /\ view.shown /\ view' = NoView
  /\ UNCHANGED <<pool, spoken, daybook>>

NextDay ==
  /\ daybook.day < LastDay /\ daybook' = [daybook EXCEPT !.day = @ + 1]
  /\ view' = NoView
  /\ UNCHANGED <<pool, spoken>>

Init ==
  /\ pool = <<>> /\ spoken = [days |-> {}, last |-> -1, skew |-> 0]
  /\ daybook = [day |-> 0, asked |-> 0] /\ view = NoView

Next == Learn \/ Speak \/ Show \/ ShowNothing \/ NextDay

Spec == Init /\ [][Next]_rvars

------------------------------------------------------------------------------
TypeOK ==
  /\ \A i \in DOMAIN pool : pool[i].strength \in 100..SCap /\ pool[i].uses \in 0..MaxAsked
  /\ spoken.days \subseteq 0..LastDay /\ daybook \in [day : 0..LastDay, asked : 0..MaxAsked]
  /\ view.shown => view.hits \subseteq DOMAIN pool

(* Asked the same again at once, she remembers the same: what a recall     *)
(* rehearses never pushes out of the answer what was in it.  Where it is   *)
(* the ranks that are added, of two that are rehearsed one may fall behind *)
(* the other, and then behind a third: there some of the answer stays.     *)
AskAgain ==
  view.shown =>
    LET again == Hits(pool, view.query)
    IN IF view.query.scorer = "rrf" THEN view.hits # {} => again \cap view.hits # {}
       ELSE again = view.hits

(* She remembers longer what was recalled: its retention is no lower on    *)
(* any later day, and nothing is strengthened twice by one question.       *)
RecalledKept ==
  [][\A i \in DOMAIN pool :
       /\ pool'[i].strength >= pool[i].strength
       /\ pool'[i].uses <= pool[i].uses + 1
       /\ pool'[i].uses > pool[i].uses => view'.shown /\ i \in view'.hits]_rvars

(* A note that speaks of an absence is shown only after one, by the        *)
(* calendar too, but for the day of the time zone.                         *)
NoteOfAbsence ==
  view.shown /\ view.note = "her last impression" =>
    /\ Cardinality(spoken.days) >= MinHistory
    /\ spoken.last # -1 => daybook.day - spoken.last >= ReunionDays - 1
=================================================================================
