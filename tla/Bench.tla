--------------------------------- MODULE Bench ---------------------------------
(***************************************************************************)
(* The replay of a scenario: the runner feeds its events to a fake engine  *)
(* under a virtual clock, with a beat of the heart for every full interval *)
(* between two of them, and leaves a trace the metrics are computed from.  *)
(*                                                                         *)
(* Feelings are thousandths, times are counted in Tick minutes.            *)
(***************************************************************************)
EXTENDS Integers, Sequences, FiniteSetsExt

CONSTANTS Beat,        \* HEARTBEAT_INTERVAL_SECONDS
          DayLength,   \* the minutes of a day
          Tiers,       \* the tiers of a message, and what each does: [pressure, fatigue]
          LastIndex, MaxEvents, MaxRecords    \* bounds

BenchAssumption ==
  /\ Beat \in Nat \ {0} /\ DayLength \in Nat \ {0}
  /\ \A t \in Tiers : {t.pressure, t.fatigue} \subseteq Int
  /\ {LastIndex, MaxEvents, MaxRecords} \subseteq Nat

VARIABLES cursor,   \* the virtual clock
          fake,     \* the state of the one session in the fake engine
          proxy,    \* _PersistProxy
          begun,    \* a farewell was begun
          slot,     \* the moment of the event that is being run up to, or of the last
          trace,    \* the records
          events    \* bound: events run

xvars == <<cursor, fake, proxy, begun, slot, trace, events>>

Fresh  == [pressure |-> 200, fatigue |-> 100, paused |-> FALSE, sealed |-> FALSE]
NoSlot == [due |-> "none", day |-> 0, at |-> 0]

(* EVENT_KINDS: tick stands for impulse_poll too, state for bind and       *)
(* guidance, agent_draft for agent_submit; probe_recall is of the memory.  *)
EventKinds == {"user_msg", "tick", "pause", "reset", "farewell_begin", "farewell_confirm",
               "state", "agent_draft"}

Actions  == {"hold", "SWALLOW", "TRIM", "REPLACE"}
Verdicts == {"OK", "SEALED", "SEALED_NOOP", "REJECTED_NOT_BEGUN", "UNKNOWN_KIND"}

TypeOK ==
  /\ cursor \in 0..((LastIndex + 1) * DayLength)
  /\ fake.pressure \in 0..1000 /\ fake.fatigue \in 0..1000
  /\ {fake.paused, fake.sealed, begun} \subseteq BOOLEAN
  /\ proxy.p \in 0..100 /\ proxy.swallowed \in Nat /\ proxy.outbox \in Nat
  /\ slot.due \in {"none", "event", "failed"}
  /\ \A i \in DOMAIN trace : trace[i].kind \in EventKinds /\ trace[i].verdict \in Verdicts
                             /\ trace[i].action \in Actions

------------------------------------------------------------------------------
Clamp(x) == IF x < 0 THEN 0 ELSE IF x > 1000 THEN 1000 ELSE x

(* _decay: a step back to the middle. *)
Decayed(st) ==
  [st EXCEPT !.pressure = Clamp(@ + ((200 - @) * 5) \div 100),
             !.fatigue  = Clamp(@ + ((100 - @) * 2) \div 100)]

(* _apply_tier *)
Moved(st, t) ==
  [st EXCEPT !.pressure = Clamp(@ + t.pressure), !.fatigue = Clamp(@ + t.fatigue)]

Strain(st) == Clamp((st.pressure * 6 + st.fatigue * 4) \div 10)

(* _surface: what the engine decides. *)
Decision(st) ==
  CASE st.sealed \/ st.paused -> "hold"
    [] ~(st.sealed \/ st.paused) /\ Strain(st) >= 850 -> "SWALLOW"
    [] ~(st.sealed \/ st.paused) /\ Strain(st) \in 650..849 -> "TRIM"
    [] ~(st.sealed \/ st.paused) /\ Strain(st) \in 450..649 -> "REPLACE"
    [] OTHER -> "hold"

(* on_action *)
Persisted(action) ==
  IF action # "SWALLOW" THEN proxy
  ELSE [p |-> IF proxy.p = 0 THEN 0 ELSE proxy.p - 1,
        swallowed |-> proxy.swallowed + 1, outbox |-> proxy.outbox + 1]

Record(kind, verdict, action, at, kept) ==
  Append(trace, [kind |-> kind, verdict |-> verdict, action |-> action, at |-> at,
                 p |-> kept.p, swallowed |-> kept.swallowed])

------------------------------------------------------------------------------
Waiting == slot.due = "event"

Target == slot.day * DayLength + slot.at

(* The next event of the scenario: in order of the day's index and, within *)
(* a day, of its minute.  Two days may have one index.                     *)
Take(day, at) ==
  /\ slot.due = "none" /\ events < MaxEvents
  /\ day >= slot.day
  /\ slot' = [due |-> "event", day |-> day, at |-> at]
  /\ events' = events + 1
  /\ UNCHANGED <<cursor, fake, proxy, begun, trace>>

(* tick_state *)
Ticked(st) == IF st.sealed THEN st ELSE Decayed(st)
TickVerdict == IF fake.sealed THEN "SEALED_NOOP" ELSE "OK"

(* A full interval lies before the event. *)
Due == Waiting /\ cursor + Beat <= Target

HeartBeats ==
  /\ Due /\ Len(trace) < MaxRecords
  /\ cursor' = cursor + Beat
  /\ fake' = Ticked(fake)
  /\ trace' = Record("tick", TickVerdict, "hold", cursor + Beat, proxy)
  /\ UNCHANGED <<proxy, begun, slot, events>>

(* advance_to raises for a target that has passed, and the run is over. *)
Backwards ==
  /\ Waiting /\ ~Due /\ cursor > Target
  /\ slot' = [slot EXCEPT !.due = "failed"]
  /\ UNCHANGED <<cursor, fake, proxy, begun, trace, events>>

Reached ==
  /\ Waiting /\ ~Due /\ cursor <= Target /\ Len(trace) < MaxRecords
  /\ cursor' = Target
  /\ slot' = [slot EXCEPT !.due = "none"]
  /\ UNCHANGED events

Answers(kind, verdict, action) ==
  /\ proxy' = Persisted(action)
  /\ trace' = Record(kind, verdict, action, Target, Persisted(action))

UserMsg(t) ==
  /\ Reached
  /\ LET st == Moved(Decayed(fake), t)
     IN IF fake.sealed THEN fake' = fake /\ Answers("user_msg", "SEALED_NOOP", "hold")
        ELSE fake' = st /\ Answers("user_msg", "OK", Decision(st))
  /\ UNCHANGED begun

Polled ==
  /\ Reached
  /\ fake' = Ticked(fake) /\ Answers("tick", TickVerdict, "hold")
  /\ UNCHANGED begun

Pause ==
  /\ Reached
  /\ fake' = [fake EXCEPT !.paused = TRUE] /\ Answers("pause", "OK", "hold")
  /\ UNCHANGED begun

Reset ==
  /\ Reached
  /\ fake' = Fresh /\ begun' = FALSE /\ Answers("reset", "OK", "hold")

FarewellBegin ==
  /\ Reached
  /\ begun' = TRUE /\ Answers("farewell_begin", "OK", "hold")
  /\ UNCHANGED fake

FarewellConfirm ==
  /\ Reached
  /\ begun' = FALSE
  /\ IF begun THEN fake' = [fake EXCEPT !.sealed = TRUE] /\ Answers("farewell_confirm", "SEALED", "hold")
     ELSE UNCHANGED fake /\ Answers("farewell_confirm", "REJECTED_NOT_BEGUN", "hold")

Looks ==
  /\ Reached
  /\ Answers("state", "OK", "hold")
  /\ UNCHANGED <<fake, begun>>

(* agent_draft and agent_submit: the branch called unreachable. *)
Unknown ==
  /\ Reached
  /\ Answers("agent_draft", "UNKNOWN_KIND", "hold")
  /\ UNCHANGED <<fake, begun>>

Init ==
  /\ cursor = 0 /\ fake = Fresh /\ begun = FALSE /\ slot = NoSlot /\ trace = <<>> /\ events = 0
  /\ proxy = [p |-> 100, swallowed |-> 0, outbox |-> 0]

Next ==
  \/ \E d \in 0..LastIndex, a \in 0..(DayLength - 1) : Take(d, a)
  \/ HeartBeats \/ Backwards
  \/ \E t \in Tiers : UserMsg(t)
  \/ Polled \/ Pause \/ Reset \/ FarewellBegin \/ FarewellConfirm \/ Looks \/ Unknown

Spec == Init /\ [][Next]_xvars

------------------------------------------------------------------------------
(* The trace is in the order of time, and no more than an interval of the  *)
(* heart lies between two of its records.                                  *)
BeatsFillTheGaps ==
  \A i \in 1..(Len(trace) - 1) : trace[i + 1].at - trace[i].at \in 0..Beat

LastOf(kinds, n) == Max({0} \cup {i \in 1..(n - 1) : trace[i].kind \in kinds})

(* She is sealed only by a confirmation whose beginning no reset and no    *)
(* other confirmation came after; sealed or paused, until a reset, nothing *)
(* she does is held against her.                                           *)
SealedAsTold ==
  \A i \in DOMAIN trace :
    /\ trace[i].verdict = "SEALED" =>
         LastOf({"farewell_begin"}, i) > LastOf({"reset", "farewell_confirm"}, i)
    /\ (\E j \in (LastOf({"reset"}, i) + 1)..(i - 1) :
          trace[j].kind = "pause" \/ trace[j].verdict = "SEALED") =>
         trace[i].action = "hold"

(* What the metrics read from the records adds up: each record holds the   *)
(* words swallowed so far, and P lost a hundredth for each of them, while  *)
(* it had any.                                                             *)
TraceAddsUp ==
  \A i \in DOMAIN trace :
    LET gone == Cardinality({j \in 1..i : trace[j].action = "SWALLOW"})
    IN trace[i].swallowed = gone /\ trace[i].p = IF gone > 100 THEN 0 ELSE 100 - gone
================================================================================
