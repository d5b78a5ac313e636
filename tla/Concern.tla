-------------------------------- MODULE Concern --------------------------------
(***************************************************************************)
(* The concern of the v0.1 shadow: once a beat the heartbeat reads the     *)
(* shadow hypothesis, extracts the triggers and injects each into the      *)
(* engine, at most once a day, armed again only when it has gone.  Every   *)
(* injection is an await that may raise.                                   *)
(***************************************************************************)
EXTENDS Integers, Sequences, FiniteSets, SequencesExt

CONSTANTS Surfaces,    \* readings [pressure, warmth, damage] in percent, warmth may be None
          MaxDay, MaxFaults

None == 999
Types == {"pressure", "warmth_drop", "damage"}

ConcernAssumption ==
  /\ \A r \in Surfaces : r.pressure \in 0..100 /\ r.warmth \in (0..100) \cup {None} /\ r.damage \in 0..100
  /\ MaxDay \in Nat \ {0} /\ MaxFaults \in Nat

VARIABLES concern,      \* the record: baseline, armed, injected day and types, the day's high_intensity
          concernDisk,  \* the record in bindings.json
          step,         \* the beat in flight: its locals
          today,
          injections,   \* history: what the engine received today
          faults        \* history: raises and crashes of today

cvars == <<concern, concernDisk, step, today, injections, faults>>

NoStep == [on |-> FALSE]

TypeOK ==
  /\ concern.armed \subseteq Types /\ concern.types \subseteq Types
  /\ concern.high \in Nat /\ concern.day \in 0..MaxDay /\ concern.injected \in 0..MaxDay
  /\ concern.baseline.warmth \in (0..100) \cup {None}
  /\ step.on => ToSet(step.todo) \subseteq step.triggers /\ step.triggers \subseteq Types
  /\ injections \in [Types -> Nat] /\ faults \in 0..MaxFaults

------------------------------------------------------------------------------
(* extract_concern *)
Falls(r, start) ==
  /\ start # None /\ r.warmth # None
  /\ start - r.warmth >= 25 /\ r.warmth < 45

Hits(t, r, start) ==
  \/ t = "pressure" /\ r.pressure >= 60
  \/ t = "warmth_drop" /\ Falls(r, start)
  \/ t = "damage" /\ r.damage >= 50

Triggers(r, start) ==
  LET Of(t) == IF Hits(t, r, start) THEN <<t>> ELSE <<>>
  IN Of("pressure") \o Of("warmth_drop") \o Of("damage")

(* The settlement of a new day resets the count of the intense moments. *)
OfToday(c) == IF c.day = today THEN c ELSE [c EXCEPT !.day = today, !.high = 0]

Based(c, r) ==
  IF c.baseline.day = today THEN c
  ELSE [c EXCEPT !.baseline = [day |-> today, warmth |-> r.warmth]]

(* The heartbeat has read the shadow. *)
Read(r) ==
  LET c == Based(OfToday(concern), r)
      ts == Triggers(r, c.baseline.warmth)
  IN /\ ~step.on
     /\ concern' = c
     /\ step' = [on |-> TRUE, todo |-> ts, triggers |-> ToSet(ts), injected |-> c.injected, types |-> c.types,
                 first |-> ~(c.injected = today /\ c.types # {}), did |-> FALSE, signal |-> ts # <<>>, at |-> today]
     /\ UNCHANGED <<concernDisk, today, injections, faults>>

Wants(t) == t \in concern.armed /\ ~(step.injected = step.at /\ t \in step.types)

Skip ==
  /\ step.on /\ step.todo # <<>> /\ ~Wants(Head(step.todo))
  /\ step' = [step EXCEPT !.todo = Tail(@)]
  /\ UNCHANGED <<concern, concernDisk, today, injections, faults>>

(* Bug: the types of the day are dropped with every injection. *)
Remember_Anew(t) ==
  [step EXCEPT !.todo = Tail(@), !.did = TRUE, !.injected = step.at, !.types = {t}]

Remember(t) ==
  [step EXCEPT !.todo = Tail(@), !.did = TRUE, !.injected = step.at,
               !.types = (IF step.injected = step.at THEN @ ELSE {}) \cup {t}]

(* await inject_concern has returned. *)
Inject ==
  /\ step.on /\ step.todo # <<>>
  /\ LET t == Head(step.todo)
     IN /\ Wants(t)
        /\ injections' = [injections EXCEPT ![t] = @ + 1]
        /\ concern' = [concern EXCEPT !.armed = @ \ {t}]
        /\ step' = Remember(t)
  /\ UNCHANGED <<concernDisk, today, faults>>

(* It raised: nothing was injected, the locals of the beat are gone.  The  *)
(* heartbeat stops; around legacy_beat, the same beat inside the           *)
(* ShadowSystem, it goes on and saves.                                     *)
InjectRaises ==
  /\ step.on /\ step.todo # <<>> /\ Wants(Head(step.todo))
  /\ faults < MaxFaults /\ faults' = faults + 1
  /\ step' = NoStep
  /\ concernDisk' \in {concern, concernDisk}
  /\ UNCHANGED <<concern, today, injections>>

Rearmed(c) == [c EXCEPT !.armed = @ \cup (Types \ step.triggers)]

Counted(c) == IF step.did /\ step.first THEN [c EXCEPT !.high = @ + 1] ELSE c

Noted(c) ==
  IF step.signal THEN [c EXCEPT !.injected = step.injected, !.types = step.types] ELSE c

(* The loop is through; the heartbeat saves. *)
Done ==
  /\ step.on /\ step.todo = <<>>
  /\ concern' = Rearmed(Counted(Noted(concern)))
  /\ concernDisk' = concern'
  /\ step' = NoStep
  /\ UNCHANGED <<today, injections, faults>>

(* Another session saves the table. *)
OtherSave == concernDisk' = concern /\ UNCHANGED <<concern, step, today, injections, faults>>

Midnight ==
  /\ today < MaxDay /\ ~step.on
  /\ today' = today + 1
  /\ injections' = [t \in Types |-> 0] /\ faults' = 0
  /\ UNCHANGED <<concern, concernDisk, step>>

Crash ==
  /\ faults < MaxFaults /\ faults' = faults + 1
  /\ concern' = concernDisk /\ step' = NoStep
  /\ UNCHANGED <<concernDisk, today, injections>>

NewConcern ==
  [armed |-> Types, injected |-> 0, types |-> {}, day |-> 1, high |-> 0,
   baseline |-> [day |-> 0, warmth |-> None]]

Init ==
  /\ concern = NewConcern /\ concernDisk = NewConcern /\ step = NoStep
  /\ today = 1 /\ injections = [t \in Types |-> 0] /\ faults = 0

Next ==
  \/ \E r \in Surfaces : Read(r)
  \/ Skip \/ Inject \/ InjectRaises \/ Done \/ OtherSave \/ Midnight \/ Crash

Spec == Init /\ [][Next]_cvars

------------------------------------------------------------------------------
(* The engine receives a type at most once a day, and once more for each   *)
(* raise or crash of that day: _shadow_step may forget only what the beat  *)
(* in flight has injected.                                                 *)
InjectionBounded == \A t \in Types : injections[t] <= 1 + faults

(* A day counts one intense moment exactly when a concern of that day is   *)
(* on record, in memory and on disk: high_intensity costs her life.        *)
HighAgrees ==
  \A c \in {concern, concernDisk} :
    c.high = IF c.injected = c.day /\ c.types # {} THEN 1 ELSE 0

================================================================================
