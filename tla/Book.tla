---------------------------------- MODULE Book ----------------------------------
(***************************************************************************)
(* The book of a life: the rows the deep settlement leaves in the          *)
(* plasticity ledger, what replaying them says of the days to come, the    *)
(* long book, the short note and the appendix made of record and replay,   *)
(* and the files they are written to, one after the other.                 *)
(***************************************************************************)
EXTENDS Wearing, FiniteSets, FiniteSetsExt

CONSTANTS Models,       \* the ways to age of this life
          Intensities,  \* what may happen in a day: [high, concern]
          Window,       \* _WINDOW_CALENDAR_DAYS
          MinSample,    \* _MIN_CALENDAR_SAMPLE_ACTIVE_DAYS
          PerEpoch,     \* MAX_UTTER_PER_EPOCH
          Rank,         \* the hash order of the positions of an utterance log
          LastPage, MaxWords, MaxGens, MaxSlips, MaxEditions    \* bounds

BookAssumption ==
  /\ WearingAssumption
  /\ Models \subseteq {"linear", "weibull", "event", "reserve"}
  /\ Intensities \subseteq [high : Nat, concern : Nat]
  /\ Window \in Nat \ {0} /\ {MinSample, PerEpoch} \subseteq Nat
  /\ IsInjective(Rank) /\ Len(Rank) >= MaxWords
  /\ {LastPage, MaxWords, MaxSlips, MaxEditions} \subseteq Nat /\ MaxGens \in Nat \ {0}

VARIABLES life,      \* the record
          lines,     \* the readable rows of plasticity.ledger
          torn,      \* it ends in the middle of a line
          page,      \* today
          shelf,     \* file -> the edition it holds
          press,     \* the files still to be written, and their edition
          slips      \* bound: rows, files and processes that failed

bvars == <<life, lines, torn, page, shelf, press, slips>>

Files == <<"long", "short", "appendix", "pictures">>
NoEdition == [no |-> 0, gen |-> 0, total |-> 0, picks |-> {}]
None      == -1
Infinite  == 1000

Hatched(gen, model) ==
  [gen |-> gen, p |-> Full, fast |-> Full, model |-> model, age |-> 0, words |-> 0,
   rings |-> <<>>, settledTo |-> page, legacy |-> FALSE]

TypeOK ==
  /\ life.p \in 0..Full /\ life.fast \in 0..Full /\ life.age \in 0..(LastPage + MaxSlips)
  /\ life.gen \in 1..MaxGens /\ life.words \in 0..MaxWords
  /\ \A i \in DOMAIN lines : lines[i].reason \in {"hatch", "settle_day", "epoch_shift"}
  /\ torn \in BOOLEAN /\ page \in 0..LastPage
  /\ DOMAIN shelf = Range(Files) /\ press.left \in {SubSeq(Files, i, 4) : i \in 1..5}

------------------------------------------------------------------------------
(* _append_raw: a row is whole, lost, or cut short; whatever follows a cut *)
(* one is read as one bad line with it.                                    *)
Row(reason, p, day, f) ==
  [reason |-> reason, gen |-> life.gen, p |-> p, day |-> day, high |-> f.high, concern |-> f.concern]

Quiet  == [high |-> 0, concern |-> 0]
Unsaid == [high |-> None, concern |-> None]

Ledger == [lines |-> lines, torn |-> torn]

Written(l, row) ==
  [lines |-> IF l.torn THEN l.lines ELSE Append(l.lines, row), torn |-> FALSE]

Slipped(l) == {l, [l EXCEPT !.torn = TRUE]}

Holds(l) == lines' = l.lines /\ torn' = l.torn

(* replay: where the rows of this life are. *)
Mine == {i \in DOMAIN lines : lines[i].gen = life.gen}

FinalP == IF Mine = {} THEN None ELSE lines[Max(Mine)].p

Settles == {i \in Mine : lines[i].reason = "settle_day"}
Shifts  == {i \in Mine : lines[i].reason = "epoch_shift"}

(* hi_by_day and concern_by_day: the last row of a day that says them. *)
Telling    == {i \in Settles : lines[i].high # None}
RowOf(day) == lines[Max({i \in Telling : lines[i].day = day})]
Settled    == {lines[i].day : i \in Telling}

------------------------------------------------------------------------------
(* project *)
Ceil(a, b) == (a + b - 1) \div b

(* round: to the even neighbour from the middle. *)
Round(sum, n) ==
  IF n = 0 THEN 0
  ELSE LET q == sum \div n
       IN IF 2 * (sum % n) > n \/ (2 * (sum % n) = n /\ q % 2 = 1) THEN q + 1 ELSE q

Recent == Settled \cap (page - Window + 1)..page

Busy    == Round(MapThenSumSet(LAMBDA d : RowOf(d).high, Recent), Cardinality(Recent))
Worried == Round(MapThenSumSet(LAMBDA d : RowOf(d).concern, Recent), Cardinality(Recent))

ShiftDays == {lines[i].day : i \in Shifts} \cap (page - Window + 1)..page

Forecast ==
  [active |-> TRUE, high |-> Busy, concern |-> Worried,
   shift |-> Settled # {} /\ 2 * Cardinality(ShiftDays) >= Window, age |-> life.age]

EstSpend == Floor(life.p - Spent(life.model, life.p, life.fast, Forecast).p)

Lasts(spend) == CASE life.p = 0                -> 0
                  [] life.p > 0 /\ spend = 0 -> Infinite
                  [] OTHER                     -> Ceil(life.p, spend)

Remaining == Lasts(EstSpend)

RemainingCalendar(remaining) ==
  IF Cardinality(Settles) < MinSample \/ Recent = {} THEN None
  ELSE Ceil(remaining * Window, Cardinality(Recent))

Boundary(e) == CASE e = 1 -> (6 * Full) \div 10
                 [] e = 2 -> (3 * Full) \div 10
                 [] e = 3 -> (3 * Full) \div 20
                 [] e = 4 -> 0

Eta(e, spend) == CASE spend = 0 -> None
                   [] spend > 0 /\ life.p > Boundary(e) -> Ceil(life.p - Boundary(e), spend)
                   [] OTHER -> 0

ToCome == (EpochIndex(life.p) + 1)..4

------------------------------------------------------------------------------
(* build_context, and the chapters of the three templates: what each says, *)
(* as pairs of a field and its value.                                      *)
Told(path) ==
  CASE path = "name"        -> 1           \* the same in every life
    [] path = "incarnation" -> life.gen
    [] path = "p"           -> life.p
    [] path = "model"       -> life.model
    [] path = "age"         -> life.age
    [] path = "fast"        -> life.fast
    [] path = "utterances"  -> life.words
    [] path = "epochs"      -> Len(life.rings)
    [] path = "p_series"    -> FinalP
    [] path = "hi_by_day"   -> {<<d, RowOf(d).high>> : d \in Settled}
    [] path = "concern_by_day" -> {<<d, RowOf(d).concern>> : d \in Settled}
    [] path = "projection"  -> Remaining

Facts(paths) == {<<f, Told(f)>> : f \in paths}

(* FIELD_REGISTRY: which template each field must reach. *)
FIELD_REGISTRY ==
  [name |-> {"long", "short", "appendix"}, incarnation |-> {"long", "appendix"},
   p |-> {"long", "short", "appendix"}, model |-> {"long", "short", "appendix"},
   age |-> {"long", "appendix"}, fast |-> {"appendix"},
   utterances |-> {"long", "short", "appendix"},
   epochs |-> {"long", "appendix"}, p_series |-> {"long", "appendix"},
   hi_by_day |-> {"appendix"}, concern_by_day |-> {"appendix"},
   projection |-> {"long", "short", "appendix"}]

ChapterHead  == Facts({"name", "incarnation", "model", "age"})
EpochHistory == Facts({"epochs"})
PCurve       == Facts({"p_series"})
Utterances   == Facts({"utterances"})
ChapterTail  == Facts({"p", "projection"})

Long     == ChapterHead \cup EpochHistory \cup PCurve \cup Utterances \cup ChapterTail
Short    == Facts({"name", "model"}) \cup Utterances \cup ChapterTail
Appendix == Facts(DOMAIN FIELD_REGISTRY)

Template(t) == CASE t = "long" -> Long [] t = "short" -> Short [] t = "appendix" -> Appendix

(* _sample: the PerEpoch positions that rank first; the utterances hold no *)
(* epoch, so all of them are of one.                                       *)
Picks(total) ==
  {i \in 1..total : Cardinality({j \in 1..total : Rank[j] < Rank[i]}) < PerEpoch}

------------------------------------------------------------------------------
Idle == press.left = <<>>      \* a book is written without an await

(* _rings_active_days: the days since the last ring, if it says its own.   *)
RingDays(age) ==
  LET before == IF life.rings = <<>> THEN 0 ELSE life.rings[Len(life.rings)].at
  IN IF age > before THEN age - before ELSE 1

Outcomes(f) ==
  Gated(life.p, Spent(life.model, life.p, life.fast,
                      [active |-> TRUE, high |-> f.high, concern |-> f.concern,
                       shift |-> FALSE, age |-> life.age]))

(* build_settle_fn for the active day before today: a row, and one more    *)
(* for an epoch.                                                           *)
Settle(f) ==
  /\ Idle /\ life.settledTo < page
  /\ LET o     == Outcomes(f)
         day   == page - 1
         shift == EpochIndex(life.p) # EpochIndex(o.p)
         one   == Written(Ledger, Row("settle_day", o.p, day, f))
     IN /\ life' = [life EXCEPT !.p = o.p, !.fast = o.fast, !.age = @ + 1, !.settledTo = page,
                                !.rings = IF shift THEN Append(@, [at |-> life.age + 1,
                                                                   days |-> RingDays(life.age + 1)])
                                          ELSE @]
        /\ Holds(IF shift THEN Written(one, Row("epoch_shift", o.p, day, Quiet)) ELSE one)
  /\ UNCHANGED <<page, shelf, press, slips>>

(* The same, and the row is not written, or not to its end. *)
SettleSlips(f) ==
  /\ Idle /\ life.settledTo < page /\ slips < MaxSlips
  /\ LET o == Outcomes(f)
     IN /\ EpochIndex(life.p) = EpochIndex(o.p)
        /\ life' = [life EXCEPT !.p = o.p, !.fast = o.fast, !.age = @ + 1, !.settledTo = page]
        /\ \E l \in Slipped(Ledger) : Holds(l)
  /\ slips' = slips + 1
  /\ UNCHANGED <<page, shelf, press>>

(* The row is written, the record is not saved and the process dies: what  *)
(* loads reads P from the ledger, and the day is settled again.            *)
SettleDies(f) ==
  /\ Idle /\ life.settledTo < page /\ slips < MaxSlips
  /\ LET o == Outcomes(f)
     IN /\ Holds(Written(Ledger, Row("settle_day", o.p, page - 1, f)))
        /\ life' = [life EXCEPT !.p = IF torn THEN @ ELSE o.p]
  /\ slips' = slips + 1
  /\ UNCHANGED <<page, shelf, press>>

(* build_settle_fn raised: the core settles; its row names the day it is   *)
(* written and no intensity, its entry in the history no days.             *)
SettleLegacy(f) ==
  /\ Idle /\ life.settledTo < page /\ slips < MaxSlips
  /\ LET p == Floor(life.p - CoreSpend(f.high))
     IN /\ life' = [life EXCEPT !.p = p, !.settledTo = page, !.legacy = TRUE,
                                !.rings = IF EpochIndex(p) = EpochIndex(life.p) THEN @
                                          ELSE Append(@, [at |-> 0, days |-> 1])]
        /\ Holds(IF p < life.p THEN Written(Ledger, Row("settle_day", p, page, Unsaid)) ELSE Ledger)
  /\ slips' = slips + 1
  /\ UNCHANGED <<page, shelf, press>>

(* Midnight passes, on a day she was active in or one she was not. *)
Dawn ==
  /\ Idle /\ page < LastPage
  /\ page' = page + 1
  /\ \/ life.settledTo = page /\ UNCHANGED life
     \/ life' = [life EXCEPT !.settledTo = page + 1]
  /\ UNCHANGED <<lines, torn, shelf, press, slips>>

Speak ==
  /\ Idle /\ life.words < MaxWords
  /\ life' = [life EXCEPT !.words = @ + 1]
  /\ UNCHANGED <<lines, torn, page, shelf, press, slips>>

(* A new life under the same name, on the same ledger and the same shelf. *)
Reborn ==
  /\ Idle /\ life.gen < MaxGens
  /\ \E m \in Models : life' = Hatched(life.gen + 1, m)
  /\ Holds(Written(Ledger, [Row("hatch", Full, page, Quiet) EXCEPT !.gen = life.gen + 1]))
  /\ UNCHANGED <<page, shelf, press, slips>>

(* assemble_anthology_v2 *)
Assemble ==
  /\ Idle /\ press.edition.no < MaxEditions
  /\ press' = [left |-> Files,
               edition |-> [no |-> press.edition.no + 1, gen |-> life.gen, total |-> life.words,
                            picks |-> Picks(life.words)]]
  /\ UNCHANGED <<life, lines, torn, page, shelf, slips>>

(* write_anthology: the next file. *)
Imprint ==
  /\ ~Idle
  /\ shelf' = [shelf EXCEPT ![Head(press.left)] = press.edition]
  /\ press' = [press EXCEPT !.left = Tail(@)]
  /\ UNCHANGED <<life, lines, torn, page, slips>>

(* A file cannot be written, or the process dies: the rest is not.         *)
Jam ==
  /\ ~Idle /\ slips < MaxSlips
  /\ press' = [press EXCEPT !.left = <<>>]
  /\ slips' = slips + 1
  /\ UNCHANGED <<life, lines, torn, page, shelf>>

Init ==
  /\ page = 0 /\ lines = <<>> /\ torn = FALSE /\ slips = 0
  /\ life = [Hatched(1, "linear") EXCEPT !.settledTo = 0]
  /\ shelf = [f \in Range(Files) |-> NoEdition]
  /\ press = [left |-> <<>>, edition |-> NoEdition]

Next ==
  \/ \E f \in Intensities : Settle(f) \/ SettleSlips(f) \/ SettleDies(f) \/ SettleLegacy(f)
  \/ Dawn \/ Speak \/ Reborn \/ Assemble \/ Imprint \/ Jam

Spec == Init /\ [][Next]_bvars

------------------------------------------------------------------------------
(* Whatever rows are lost, cut or doubled, the ledger never says of a life *)
(* that it is older than its record, nor mixes it with another (replay).   *)
NotPastTheLedger == FinalP = None \/ life.p <= FinalP

(* The days to come are told in order: a later epoch is not nearer, the    *)
(* last of them is the end, and days on the calendar are at least as many  *)
(* as the active days among them (project).                                *)
ForecastInOrder ==
  LET spend     == EstSpend
      remaining == Lasts(spend)
      calendar  == RemainingCalendar(remaining)
  IN /\ spend > 0 => /\ \A i, j \in ToCome : i < j => Eta(i, spend) <= Eta(j, spend)
                     /\ 4 \in ToCome => Eta(4, spend) = remaining
     /\ calendar # None => calendar >= remaining

(* The rings of the book are as wide as the life was long when the last    *)
(* began, as long as no day was left to the core (_rings_active_days).     *)
RingsSumUp ==
  ~life.legacy /\ life.rings # <<>> =>
    /\ MapThenSumSet(LAMBDA i : life.rings[i].days, DOMAIN life.rings) = life.rings[Len(life.rings)].at
    /\ life.rings[Len(life.rings)].at <= life.age

(* A book that is being written has every field of the registry in each    *)
(* template it is registered for.                                          *)
FieldsTold ==
  press.left = Files => \A f \in DOMAIN FIELD_REGISTRY : \A t \in FIELD_REGISTRY[f] : <<f, Told(f)>> \in Template(t)

(* The files of a book that was finished are of one edition; in one that   *)
(* was not, those written first are the newer (write_anthology).           *)
OneEdition ==
  /\ Idle /\ slips = 0 => Cardinality({shelf[f] : f \in Range(Files)}) = 1
  /\ \A i, j \in DOMAIN Files : i < j => shelf[Files[i]].no >= shelf[Files[j]].no

Newest == lines[Len(lines)]

(* A settlement as quiet as the forecast supposed takes no more than a day *)
(* off it, under the ways that pay by the day: if its row is written, and  *)
(* is the first of its day.                                                *)
ForecastHonest ==
  [][(/\ life.model \in {"linear", "reserve"} /\ life'.age = life.age + 1
      /\ slips' = slips /\ Remaining < Infinite
      /\ Len(lines') = Len(lines) + 1 /\ Newest'.reason = "settle_day"
      /\ Newest'.high <= Busy /\ Newest'.day \notin Settled)
     => Remaining' >= Remaining - 1]_bvars

(* What a book of a life left out, no later book of that life brings back. *)
LeftOutStaysOut ==
  [][LET was == shelf["long"] now == shelf'["long"]
     IN was.gen = now.gen => now.picks \cap 1..was.total \subseteq was.picks]_bvars
=================================================================================
