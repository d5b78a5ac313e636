-------------------------------- MODULE NightJob --------------------------------
(***************************************************************************)
(* The memory of one life: the episodes of L1 in append-only files, the    *)
(* semantic entries of L2 made of them at night, the journal and the       *)
(* cursor that let a night resume, and the stores the facade keeps in its  *)
(* caches between calls.                                                   *)
(*                                                                         *)
(* Every write of a file is a step of its own: the process may be killed,  *)
(* or the job may raise, between any two.                                  *)
(***************************************************************************)
EXTENDS Integers, Sequences, FiniteSets, FiniteSetsExt

CONSTANTS EventKinds,    \* kinds of episode, by bucket: "convo" or a kind of its own
          WindowMax,     \* max_window
          SegmentMax,    \* memory_l1_segment_max
          L2Cap,         \* memory_l2_cap
          MinForVectors, \* DEFAULT_MIN_L2_FOR_VECTORS
          LastNight, MaxEvents, MaxFaults    \* bounds

NightJobAssumption ==
  /\ {WindowMax, SegmentMax} \subseteq Nat \ {0}
  /\ {L2Cap, MinForVectors, LastNight, MaxEvents, MaxFaults} \subseteq Nat

VARIABLES flow,      \* the lines of L1, in files of SegmentMax, the rest of them active;
                     \* and whether the active file ends in a line that is open
          counted,   \* _total of the cached EpisodeStore, or Unloaded
          semantic,  \* the entries of L2 on disk
          cached,    \* the L2Store in the facade's cache, or NoCache
          cursor,    \* processed_upto on disk
          journal,   \* the journal of each night on disk: [done, seal]
          job,       \* the NightJob that runs, with its stores
          dusk,      \* today
          memo       \* history: what went wrong so far; the windows whose cursor is not
                     \* written, and those a job left so until there were more to make

nvars == <<flow, counted, semantic, cached, cursor, journal, job, dusk, memo>>

Bad == [day |-> -1, kind |-> "bad"]
Unloaded == -1
NoCache == [entries |-> {}, on |-> FALSE]
Cache(entries) == [entries |-> entries, on |-> TRUE]
NoJob == [on |-> FALSE]
NoNight == [done |-> {}, seal |-> -1]
Nothing == [seal |-> -1, spans |-> {}]

Steps == <<"l1_day_seal", "l2_summarize", "vocab_update", "vec_refit", "l3_lifecycle",
           "forgetting_sweep", "l2_capacity", "viz_export">>

------------------------------------------------------------------------------
(* _iter_raw: what can be read, numbered as it comes.                      *)
Whole == {i \in DOMAIN flow.lines : flow.lines[i] # Bad}
Episode(n) == flow.lines[CHOOSE i \in Whole : Cardinality({j \in Whole : j < i}) = n]

(* _scan_file: each file is read up to the first line that is not whole.   *)
FileOf(i) == (i - 1) \div SegmentMax
Scanned(lines) ==
  {i \in DOMAIN lines : ~\E j \in 1..i : FileOf(j) = FileOf(i) /\ lines[j] = Bad}

(* _load_existing: the active file is cut there, an archive only counted.  *)
Loaded ==
  IF counted # Unloaded THEN [files |-> flow, total |-> counted]
  ELSE LET archived == Len(flow.lines) - (Len(flow.lines) % SegmentMax)
           read     == Scanned(flow.lines)
       IN [files |-> [lines |-> SubSeq(flow.lines, 1, Max({archived} \cup read)), open |-> FALSE],
           total |-> Cardinality(read)]

(* append: a line after an unfinished one is part of it.  Once there are   *)
(* SegmentMax of them, the active file becomes an archive.                 *)
Appended(files, e) ==
  [lines |-> Append(files.lines, IF files.open THEN Bad ELSE e), open |-> FALSE]

(* segment_events: the first episode of the window each is in.  A window   *)
(* is of one day and one bucket, and holds no more than WindowMax.         *)
Begins(from, top) ==
  LET b[i \in from..top] ==
        IF i > from /\ Episode(i) = Episode(i - 1) /\ i - b[i - 1] < WindowMax THEN b[i - 1] ELSE i
  IN b

Windows(from, upto) ==
  LET top == Min({upto, Cardinality(Whole) - 1})
      b   == Begins(from, top)
  IN {<<f, Max({i \in from..top : b[i] = f})>> : f \in {b[i] : i \in from..top}}

(* build_semantic_entry; the id is the span. *)
Entry(span) == [span |-> span, vec |-> FALSE]

(* L2Store.add: an entry of that id is replaced. *)
WithAll(entries, spans) ==
  {e \in entries : e.span \notin spans} \cup {Entry(s) : s \in spans}

------------------------------------------------------------------------------
Idle == ~job.on

Opened == flow' = Loaded.files /\ counted' = Loaded.total

Observe ==
  /\ Idle /\ Loaded.total < MaxEvents
  /\ \E kind \in EventKinds : flow' = Appended(Loaded.files, [day |-> dusk, kind |-> kind])
  /\ counted' = Loaded.total + 1
  /\ UNCHANGED <<semantic, cached, cursor, journal, job, dusk, memo>>

(* The write fails with a part of the line in the file; the session goes on. *)
ObserveFails ==
  /\ Idle /\ memo.faults < MaxFaults
  /\ flow' = [Loaded.files EXCEPT !.open = TRUE] /\ counted' = Loaded.total
  /\ memo' = [memo EXCEPT !.faults = @ + 1, !.torn = TRUE]
  /\ UNCHANGED <<semantic, cached, cursor, journal, job, dusk>>

Start ==
  /\ Idle /\ counted # Unloaded
  /\ job' = [on |-> TRUE, l2 |-> semantic, upto |-> cursor, wrote |-> "nothing", skipped |-> {}]
  /\ UNCHANGED <<flow, counted, semantic, cached, cursor, journal, dusk, memo>>

(* consolidate opens the store first. *)
Open ==
  /\ Idle /\ counted = Unloaded /\ Opened
  /\ UNCHANGED <<semantic, cached, cursor, journal, job, dusk, memo>>

Left == {i \in DOMAIN Steps : Steps[i] \notin journal[dusk].done \cup job.skipped}

At(step) == job.on /\ Left # {} /\ Steps[Min(Left)] = step

Mark(step) == journal' = [journal EXCEPT ![dusk].done = @ \cup {step}]

Seal ==
  /\ At("l1_day_seal")
  /\ journal' = [journal EXCEPT ![dusk] = [done |-> @.done \cup {"l1_day_seal"}, seal |-> counted - 1]]
  /\ UNCHANGED <<flow, counted, semantic, cached, cursor, job, dusk, memo>>

Behind == job.upto + 1 <= journal[dusk].seal

(* _step_l2_summarize, its first write ... *)
Summarize ==
  /\ At("l2_summarize") /\ Behind /\ job.wrote = "nothing"
  /\ LET seal == journal[dusk].seal
         new  == Windows(job.upto + 1, seal)
     IN /\ semantic' = WithAll(job.l2, new)
        /\ memo' = [memo EXCEPT !.half = [seal |-> seal, spans |-> new],
                                !.strays = IF memo.half.seal = seal THEN @ ELSE @ \cup memo.half.spans]
  /\ job' = [job EXCEPT !.l2 = semantic', !.wrote = "entries"]
  /\ UNCHANGED <<flow, counted, cached, cursor, journal, dusk>>

(* Bug: the cursor stays behind its last window. *)
Advance_Short ==
  /\ At("l2_summarize") /\ job.wrote = "entries"
  /\ cursor' = journal[dusk].seal - 1
  /\ job' = [job EXCEPT !.upto = cursor', !.wrote = "cursor"]
  /\ memo' = [memo EXCEPT !.half = Nothing]
  /\ UNCHANGED <<flow, counted, semantic, cached, journal, dusk>>

(* ... and its second. *)
Advance ==
  /\ At("l2_summarize") /\ job.wrote = "entries"
  /\ cursor' = journal[dusk].seal
  /\ job' = [job EXCEPT !.upto = cursor', !.wrote = "cursor"]
  /\ memo' = [memo EXCEPT !.half = Nothing]
  /\ UNCHANGED <<flow, counted, semantic, cached, journal, dusk>>

Summarized ==
  /\ At("l2_summarize") /\ (job.wrote = "cursor" \/ ~Behind)
  /\ Mark("l2_summarize")
  /\ job' = [job EXCEPT !.wrote = "nothing"]
  /\ UNCHANGED <<flow, counted, semantic, cached, cursor, dusk, memo>>

(* _step_vec_refit: enough entries get vectors; beyond the budget of a     *)
(* step it is left for another run of this night.                          *)
Refit ==
  /\ At("vec_refit") /\ job.wrote = "nothing"
  /\ LET enough == Cardinality(job.l2) >= MinForVectors
     IN \/ /\ enough /\ job' = [job EXCEPT !.skipped = @ \cup {"vec_refit"}]
           /\ UNCHANGED <<semantic, journal>>
        \/ /\ enough /\ semantic' = {[e EXCEPT !.vec = TRUE] : e \in job.l2}
           /\ job' = [job EXCEPT !.l2 = semantic', !.wrote = "vectors"]
           /\ UNCHANGED journal
        \/ /\ ~enough /\ Mark("vec_refit")
           /\ UNCHANGED <<semantic, job>>
  /\ UNCHANGED <<flow, counted, cached, cursor, dusk, memo>>

(* _step_l2_capacity: what is retained least goes, an order the numbers decide. *)
Shrink ==
  /\ At("l2_capacity") /\ Cardinality(job.l2) > L2Cap /\ job.wrote = "nothing"
  /\ \E gone \in kSubset(Cardinality(job.l2) - L2Cap, job.l2) : semantic' = job.l2 \ gone
  /\ job' = [job EXCEPT !.l2 = semantic', !.wrote = "fewer"]
  /\ memo' = [memo EXCEPT !.evicted = TRUE]
  /\ UNCHANGED <<flow, counted, cached, cursor, journal, dusk>>

(* The steps that leave L1 and L2 alone, and the end of those above. *)
Done ==
  /\ \/ \E step \in {"vocab_update", "l3_lifecycle", "forgetting_sweep", "viz_export"} :
          At(step) /\ Mark(step)
     \/ At("vec_refit") /\ job.wrote = "vectors" /\ Mark("vec_refit")
     \/ /\ At("l2_capacity") /\ (job.wrote = "fewer" \/ Cardinality(job.l2) <= L2Cap)
        /\ Mark("l2_capacity")
  /\ job' = [job EXCEPT !.wrote = "nothing"]
  /\ UNCHANGED <<flow, counted, semantic, cached, cursor, dusk, memo>>

(* consolidate returns, and drops the caches. *)
Finish ==
  /\ job.on /\ Left = {}
  /\ job' = NoJob /\ cached' = NoCache
  /\ UNCHANGED <<flow, counted, semantic, cursor, journal, dusk, memo>>

(* A step raises: the caches stay as they are. *)
Raise ==
  /\ job.on /\ memo.faults < MaxFaults
  /\ job' = NoJob
  /\ memo' = [memo EXCEPT !.faults = @ + 1]
  /\ UNCHANGED <<flow, counted, semantic, cached, cursor, journal, dusk>>

Kill ==
  /\ memo.faults < MaxFaults
  /\ counted' = Unloaded /\ cached' = NoCache /\ job' = NoJob
  /\ memo' = [memo EXCEPT !.faults = @ + 1]
  /\ UNCHANGED <<flow, semantic, cursor, journal, dusk>>

(* recall and affect_recall_view: what is found is rehearsed, which no     *)
(* property here tells apart, and the cached entries are saved.            *)
Recall ==
  /\ Idle
  /\ LET entries == IF cached.on THEN cached.entries ELSE semantic
     IN /\ cached' = Cache(entries) /\ semantic' = entries
        /\ memo' = [memo EXCEPT !.stale = @ \/ entries # semantic]
  /\ UNCHANGED <<flow, counted, cursor, journal, job, dusk>>

(* reset: L2, L3, the index and the journal go, the cursor with it; the    *)
(* episodes only when the archive is not kept.                             *)
Reset ==
  /\ Idle /\ memo.faults < MaxFaults
  /\ semantic' = {} /\ cached' = NoCache /\ cursor' = -1
  /\ journal' = [n \in 0..LastNight |-> NoNight]
  /\ memo' = [memo EXCEPT !.faults = @ + 1, !.stale = FALSE, !.half = Nothing, !.strays = {}]
  /\ \/ UNCHANGED <<flow, counted>>
     \/ flow' = [lines |-> <<>>, open |-> FALSE] /\ counted' = Unloaded
  /\ UNCHANGED <<job, dusk>>

Nightfall ==
  /\ Idle /\ dusk < LastNight /\ dusk' = dusk + 1
  /\ UNCHANGED <<flow, counted, semantic, cached, cursor, journal, job, memo>>

Init ==
  /\ flow = [lines |-> <<>>, open |-> FALSE] /\ counted = Unloaded
  /\ semantic = {} /\ cached = NoCache /\ cursor = -1
  /\ journal = [n \in 0..LastNight |-> NoNight]
  /\ job = NoJob /\ dusk = 0
  /\ memo = [faults |-> 0, torn |-> FALSE, stale |-> FALSE, evicted |-> FALSE,
           half |-> Nothing, strays |-> {}]

Next ==
  \/ Observe \/ ObserveFails \/ Open \/ Start \/ Seal \/ Summarize \/ Advance \/ Summarized
  \/ Refit \/ Shrink \/ Done \/ Finish \/ Raise \/ Kill \/ Recall \/ Reset \/ Nightfall

Spec == Init /\ [][Next]_nvars

------------------------------------------------------------------------------
TypeOK ==
  /\ counted \in -1..MaxEvents /\ cursor \in -1..(MaxEvents - 1) /\ dusk \in 0..LastNight
  /\ \A e \in semantic \cup cached.entries : e.vec \in BOOLEAN
  /\ \A n \in 0..LastNight : journal[n].done \subseteq Range(Steps)

In(e, i) == e.span[1] <= i /\ i <= e.span[2]

(* Every episode behind the cursor is in an entry of L2, wherever the      *)
(* process was killed, until L2 is over its capacity.  Two faults break    *)
(* it: a line cut by a failing write shifts the numbers of the episodes,   *)
(* and a job that raised leaves its old L2 in the cache, which the next    *)
(* recall writes over the new one.                                         *)
BehindTheCursor ==
  ~memo.torn /\ ~memo.stale /\ ~memo.evicted =>
    \A i \in 0..cursor : \E e \in semantic : In(e, i)

(* No episode is in two entries, but where a job ended between the two     *)
(* writes of its second step and a later night, with more to summarise,    *)
(* made other windows of the same episodes: one of the two is then a       *)
(* window of that job.  Taken up in the same night it makes the same.      *)
SummarisedOnce ==
  ~memo.torn /\ ~memo.stale =>
    \A d, e \in semantic :
      d.span # e.span /\ (\E i \in d.span[1]..d.span[2] : In(e, i))
        => {d.span, e.span} \cap memo.strays # {}

(* An entry is of one day and one kind: her words are never summarised     *)
(* with what is not said.                                                  *)
OneDayEach ==
  ~memo.torn =>
    \A e \in semantic : \A i \in e.span[1]..e.span[2] :
      Episode(i) = Episode(e.span[1])
=================================================================================
