------------------------------ MODULE Heartbeat --------------------------------
(***************************************************************************)
(* When she speaks on her own: the heartbeat of one companion session, its *)
(* gates (core/intrinsic.decide: daily cap, two-hour gap, unanswered       *)
(* words, quiet hours, night window), the dreams of the night, and the     *)
(* handlers they share the record with.                                    *)
(*                                                                         *)
(* A beat reads the clock, awaits the tick of the engine, reads the minute *)
(* of the day, may queue a dream, awaits the shadow, and only then decides *)
(* with what it read before.  A slot that is used is reserved when the     *)
(* word is queued, not when the agent polls it.                            *)
(*                                                                         *)
(* The clock counts ticks from midnight of day 0.  The surface of the      *)
(* engine (needs, pressure, budget, phase) is a free choice per beat: a    *)
(* trigger is there or not, the engine's own gates are open or not.        *)
(***************************************************************************)
EXTENDS Integers, FiniteSets

CONSTANTS DayLength,    \* ticks of a day
          QuietStart,   \* quiet_hours: the tick of the day it begins ...
          QuietEnd,     \* ... and ends; equal: none
          Night,        \* ticks of the night window before the quiet hours
          Gap,          \* ticks of the two hours between words of her own
          Horizon,      \* ticks of the six hours a contact word is kept
          CapBase,      \* intrinsic_daily_cap
          Dreams,       \* dream_murmur_enabled
          Faults,       \* "slow": the clock goes on while the engine is awaited
                        \* "abort": the engine raises, or the call is cancelled
          StartLevels,  \* bound: the P the session starts with, in quarters
          Pauses,       \* bound: the ticks an affect_pause may last until
          MaxNow,       \* bound: the clock
          MaxCrashes    \* bound: how often the process is killed

ASSUME ClockAssumption ==
  /\ DayLength \in Nat \ {0}
  /\ QuietStart \in 0..(DayLength - 1) /\ QuietEnd \in 0..(DayLength - 1)
  /\ Night \in 0..DayLength /\ Gap \in Nat /\ Horizon \in Nat \ {0}
ASSUME SettingsAssumption == CapBase \in Nat /\ Dreams \in BOOLEAN
ASSUME FaultsAssumption == Faults \subseteq {"slow", "abort"}
ASSUME BoundsAssumption ==
  /\ MaxNow \in Nat /\ MaxCrashes \in Nat
  /\ Pauses \subseteq 0..MaxNow /\ StartLevels \subseteq 0..4

VARIABLES mem,       \* the binding record and the queue, in memory
          disk,      \* ... as last saved
          reach,     \* _reach_out_flag: the day of a reach_out signal
          pc,        \* where the handler of the session awaits
          beat,      \* what the beat in progress has read
          spoken,    \* history: the words told, with the tick they were told
          heard,     \* history: the tick of the user's last words
          over,      \* history: the beats of the night above the dream threshold
          now, crashes

vars == <<mem, disk, reach, pc, beat, spoken, heard, over, now, crashes>>

Day(t)    == t \div DayLength
Minute(t) == t % DayLength
Days      == 0..Day(MaxNow)
Never     == -1 - Gap          \* last_proactive_ts = 0.0, long ago
NoDay     == -1
Levels    == 0..4              \* P in quarters

(* ts and day are what its beat read first; made, a history, is when it was *)
(* queued.                                                                  *)
Word == [kind : {"contact", "night", "concern", "dream"}, ts : 0..MaxNow, day : Days,
         made : 0..MaxNow, p : Levels, frozen : BOOLEAN, expires : 0..(MaxNow + 2 * DayLength + Horizon)]

Record ==
  [p : Levels, day : Days, sent : 0..(CapBase + 1), last : {Never} \cup 0..MaxNow,
   streak : 0..2, nightDone : BOOLEAN, frozen : BOOLEAN, dreamt : BOOLEAN,
   night : {NoDay} \cup (-1..Day(MaxNow)), count : 0..2, pending : BOOLEAN,
   until : 0..MaxNow, queue : SUBSET Word]

Own == {"contact", "night", "concern"}    \* the words that use a slot

TypeOK ==
  /\ \A r \in {mem, disk} :
       /\ r.p \in Levels /\ r.day \in Days
       /\ r.sent \in 0..CapBase /\ r.streak \in 0..2 /\ r.count \in 0..2
       /\ r.last \in {Never} \cup 0..now
       /\ r.until \in 0..MaxNow
       /\ \A w \in r.queue : w \in Word /\ w.ts <= now
  /\ disk.day <= mem.day /\ mem.day <= Day(now) /\ mem.p <= disk.p
  /\ reach \in {NoDay} \cup Days
  /\ pc \in {"idle", "submit", "tick", "shadow"}
  /\ heard \in {Never} \cup 0..now
  /\ now \in 0..MaxNow /\ crashes \in 0..MaxCrashes

------------------------------------------------------------------------------
(* _in_interval: the clock as a circle, an empty interval if both ends meet. *)
Within(t, from, to) == IF from <= to THEN from <= t /\ t < to ELSE t >= from \/ t < to

Quiet(t)       == Within(Minute(t), QuietStart, QuietEnd)
NightWindow(t) == Within(Minute(t), (QuietStart - Night) % DayLength, QuietStart)

(* _night_of: after midnight a night that began before it is yesterday's. *)
NightOf(day, minute) ==
  IF QuietStart <= QuietEnd \/ minute >= QuietStart THEN day ELSE day - 1

(* Bug: a day from now. *)
DayEnd_FromNow == now + DayLength

(* _day_end_ts and _next_quiet_start_ts read the clock again. *)
DayEnd == (Day(now) + 1) * DayLength
NextQuiet == Day(now) * DayLength + QuietStart
             + (IF Minute(now) >= QuietStart THEN DayLength ELSE 0)

(* _daily_cap: ceil(base * P) *)
Cap(p) == (CapBase * p + 3) \div 4

(* _do_rollover: a new daily block; P may have fallen. *)
Rolled(r, older) ==
  IF r.day = Day(now) THEN r
  ELSE [r EXCEPT !.day = Day(now), !.sent = 0, !.last = Never, !.streak = 0,
                 !.nightDone = FALSE, !.frozen = FALSE, !.dreamt = FALSE,
                 !.p = IF older /\ @ > 0 THEN @ - 1 ELSE @]

(* Bug: what was counted in an earlier night counts for this one. *)
Dreaming_NoReset(r, above) ==
  CASE Quiet(now) /\ above -> [r EXCEPT !.night = NightOf(beat.day, Minute(now)),
                                        !.count = IF @ < 2 THEN @ + 1 ELSE 2]
    [] ~Quiet(now) /\ r.count >= 2 /\ ~r.pending -> [r EXCEPT !.pending = TRUE, !.count = 0]
    [] OTHER -> r

(* _dream_step: beats above the threshold are counted per night; after the *)
(* quiet hours two of them arm a dream.  More than two change nothing.     *)
Dreaming(r, above) ==
  LET night == NightOf(beat.day, Minute(now))
      count == IF r.night = night THEN r.count ELSE 0
  IN CASE Quiet(now) /\ above -> [r EXCEPT !.night = night,
                                           !.count = IF count < 2 THEN count + 1 ELSE 2]
       [] ~Quiet(now) /\ r.count >= 2 /\ ~r.pending -> [r EXCEPT !.pending = TRUE, !.count = 0]
       [] OTHER -> r

(* dream_ready: P >= .3 *)
DreamReady(r) == r.pending /\ r.p >= 2 /\ ~r.dreamt

Make(kind, r, expires) == [kind |-> kind, ts |-> beat.ts, day |-> beat.day, made |-> now,
                           p |-> r.p, frozen |-> r.frozen, expires |-> expires]

Dreamt(r) ==
  IF ~DreamReady(r) THEN r
  ELSE [r EXCEPT !.pending = FALSE, !.dreamt = TRUE,
                 !.queue = @ \cup {Make("dream", r, DayEnd)}]

Silenced(r, t) == t < r.until

(* The gates of decide that are not the engine's. *)
GatesPass(r) ==
  /\ ~Silenced(r, beat.ts) /\ ~r.frozen
  /\ r.streak < 2
  /\ r.sent < Cap(r.p)
  /\ beat.ts - r.last >= Gap
  /\ ~beat.quiet
  /\ ~(beat.window /\ r.nightDone)

(* Bug: unanswered words are not counted. *)
Reserved_KeepsStreak(r, kind) ==
  [r EXCEPT !.sent = @ + 1, !.last = beat.ts, !.nightDone = @ \/ kind = "night"]

(* _reserve_proactive *)
Reserved(r, kind) ==
  [r EXCEPT !.sent = @ + 1, !.last = beat.ts, !.streak = @ + 1,
            !.nightDone = @ \/ kind = "night"]

(* Bug: a word of her own is kept for six hours, into the quiet hours too. *)
ContactExpiry_Horizon == beat.ts + Horizon

(* make_proactive: until the next quiet hours, at most six hours. *)
ContactExpiry == IF NextQuiet > beat.ts /\ NextQuiet < beat.ts + Horizon
                 THEN NextQuiet ELSE beat.ts + Horizon

(* Act III: a contact word when there is a trigger and every gate is open. *)
Contacted(r, trigger, open) ==
  LET kind == IF beat.window THEN "night" ELSE "contact"
  IN IF trigger /\ open /\ GatesPass(r)
     THEN [Reserved(r, kind) EXCEPT !.queue = @ \cup {Make(kind, r, ContactExpiry)}]
     ELSE r

(* Bug: the shadow's concern passes no gate. *)
Concerned_Ungated(r, concern, open) ==
  IF concern
  THEN [Reserved(r, "concern") EXCEPT !.queue = @ \cup {Make("concern", r, DayEnd)}]
  ELSE r

(* A concern of the shadow is its own trigger and shares the slots. *)
Concerned(r, concern, open) ==
  IF concern /\ open /\ GatesPass(r)
  THEN [Reserved(r, "concern") EXCEPT !.queue = @ \cup {Make("concern", r, DayEnd)}]
  ELSE r

------------------------------------------------------------------------------
NoBeat == [ts |-> 0, day |-> 0, quiet |-> FALSE, window |-> FALSE]

Persist(r) == mem' = r /\ disk' = r

(* affect_submit: the user's words answer hers; then the engine is awaited. *)
SubmitStart(older) ==
  /\ pc = "idle"
  /\ mem' = [Rolled(mem, older) EXCEPT !.streak = 0]
  /\ heard' = now
  /\ beat' = [NoBeat EXCEPT !.day = Day(now)]
  /\ pc' = "submit"
  /\ UNCHANGED <<disk, reach, spoken, over, now, crashes>>

SubmitDone(reachOut) ==
  /\ pc = "submit"
  /\ Persist(mem)
  /\ reach' = IF reachOut THEN beat.day ELSE reach
  /\ pc' = "idle" /\ beat' = NoBeat
  /\ UNCHANGED <<spoken, heard, over, now, crashes>>

(* affect_arbitrate: her guard freezes the day, her reach_out is passed on. *)
Arbitrate(action, older) ==
  /\ pc = "idle"
  /\ LET r == Rolled(mem, older)
     IN Persist([r EXCEPT !.frozen = @ \/ action = "guard"])
  /\ reach' = IF action = "reach_out" THEN Day(now) ELSE reach
  /\ UNCHANGED <<pc, beat, spoken, heard, over, now, crashes>>

(* affect_pause and unsilence *)
Silence(until) ==
  /\ pc = "idle"
  /\ until = 0 \/ until > now
  /\ Persist([mem EXCEPT !.until = until])
  /\ UNCHANGED <<reach, pc, beat, spoken, heard, over, now, crashes>>

(* _heartbeat_step: the clock is read, the day rolled over, the tick awaited. *)
BeatStart(older) ==
  /\ pc = "idle"
  /\ mem' = Rolled(mem, older)
  /\ beat' = [NoBeat EXCEPT !.ts = now, !.day = Day(now)]
  /\ pc' = "tick"
  /\ UNCHANGED <<disk, reach, spoken, heard, over, now, crashes>>

(* The minute is read after the tick, and the dreams move; a silenced      *)
(* session is saved and done, the others await the shadow.                 *)
BeatTicked(above) ==
  LET r == IF Dreams THEN Dreamt(Dreaming(mem, above)) ELSE mem
      night == NightOf(beat.day, Minute(now))
  IN /\ pc = "tick"
     /\ above => Dreams
     /\ over' = IF above /\ Quiet(now) /\ over[night] < 2
                THEN [over EXCEPT ![night] = @ + 1] ELSE over
     /\ IF Silenced(r, beat.ts) THEN Persist(r) /\ pc' = "idle" /\ beat' = NoBeat
        ELSE /\ mem' = r /\ UNCHANGED disk /\ pc' = "shadow"
             /\ beat' = [beat EXCEPT !.quiet = Quiet(now), !.window = NightWindow(now)]
     /\ UNCHANGED <<reach, spoken, heard, now, crashes>>

(* After the shadow: her own words, decided on what was read before.  The  *)
(* reach_out signal is used up, whether a word came of it or not.          *)
BeatDone(need, concern, open) ==
  /\ pc = "shadow"
  /\ Persist(Concerned(Contacted(mem, need \/ reach = beat.day, open), concern, open))
  /\ reach' = IF reach = beat.day THEN NoDay ELSE reach
  /\ pc' = "idle" /\ beat' = NoBeat
  /\ UNCHANGED <<spoken, heard, over, now, crashes>>

Told(w) == [kind |-> w.kind, ts |-> w.ts, day |-> w.day, made |-> w.made, p |-> w.p,
            frozen |-> w.frozen, at |-> now]

Gone == {w \in mem.queue : now >= w.expires}

(* affect_impulse: everything that waits is due; silence holds it back.  A *)
(* beat that runs inside the poll (heartbeat off) is a beat before it.     *)
Impulse ==
  /\ pc = "idle"
  /\ Persist([mem EXCEPT !.queue = IF Silenced(mem, now) THEN @ \ Gone ELSE {}])
  /\ spoken' = spoken \cup (IF Silenced(mem, now) THEN {}
                            ELSE {Told(w) : w \in mem.queue \ Gone})
  /\ UNCHANGED <<reach, pc, beat, heard, over, now, crashes>>

(* The engine raises or the call is cancelled: the lock is left, unsaved. *)
Abort ==
  /\ "abort" \in Faults
  /\ pc # "idle"
  /\ pc' = "idle" /\ beat' = NoBeat
  /\ UNCHANGED <<mem, disk, reach, spoken, heard, over, now, crashes>>

(* The process is killed and started again. *)
Crash ==
  /\ crashes < MaxCrashes
  /\ crashes' = crashes + 1
  /\ mem' = disk
  /\ reach' = NoDay
  /\ pc' = "idle" /\ beat' = NoBeat
  /\ UNCHANGED <<disk, spoken, heard, over, now>>

Tick ==
  /\ now < MaxNow
  /\ pc = "idle" \/ "slow" \in Faults
  /\ now' = now + 1
  /\ UNCHANGED <<mem, disk, reach, pc, beat, spoken, heard, over, crashes>>

------------------------------------------------------------------------------
Bound(level) ==
           [p |-> level, day |-> 0, sent |-> 0, last |-> Never, streak |-> 0,
            nightDone |-> FALSE, frozen |-> FALSE, dreamt |-> FALSE,
            night |-> NoDay, count |-> 0, pending |-> FALSE,
            until |-> 0, queue |-> {}]

Init ==
  /\ mem \in {Bound(level) : level \in StartLevels} /\ disk = mem
  /\ reach = NoDay
  /\ pc = "idle" /\ beat = NoBeat
  /\ spoken = {} /\ heard = Never
  /\ over = [n \in {NoDay} \cup Days |-> 0]
  /\ now = 0 /\ crashes = 0

Next ==
  \/ \E older \in BOOLEAN : SubmitStart(older) \/ BeatStart(older)
  \/ \E reachOut \in BOOLEAN : SubmitDone(reachOut)
  \/ \E action \in {"guard", "reach_out", "other"}, older \in BOOLEAN :
       Arbitrate(action, older)
  \/ \E until \in {0} \cup Pauses : Silence(until)
  \/ \E above \in BOOLEAN : BeatTicked(above)
  \/ \E need, concern, open \in BOOLEAN : BeatDone(need, concern, open)
  \/ Impulse \/ Abort \/ Crash \/ Tick

Spec == Init /\ [][Next]_vars

------------------------------------------------------------------------------
Slots(day) == {w \in spoken : w.kind \in Own /\ w.day = day}

(* However beats, polls and crashes follow each other, the agent is never  *)
(* handed more of her own words for one day than the cap of that day's P   *)
(* allows (_reserve_proactive books the slot when the word is queued).     *)
DailyCap == \A w \in spoken : w.kind \in Own => Cardinality(Slots(w.day)) <= Cap(w.p)

(* Two of her own words of one day are decided two hours apart.            *)
GapWithinDay ==
  \A v, w \in spoken :
    v.kind \in Own /\ w.kind \in Own /\ v.day = w.day /\ v.ts < w.ts
      => v.ts + Gap <= w.ts

(* After the user's last words at most two of her own follow in a day.     *)
TwoUnanswered ==
  \A d \in Days : Cardinality({w \in Slots(d) : w.ts > heard}) <= 2

(* The words of her own are rationed: the cap of the day, the gap between   *)
(* two of them, and silence after two that nobody answered.                 *)
Restrained == DailyCap /\ GapWithinDay /\ TwoUnanswered

(* A contact word is handed over in the quiet hours only where a slow      *)
(* engine carried the beat that decided it into them.                      *)
QuietKept ==
  \A w \in spoken :
    w.kind \in {"contact", "night"} /\ Quiet(w.at) => Quiet(w.made) /\ w.ts < w.made

(* A dream or a concern is only handed over on the day it was queued.      *)
DayBound == \A w \in spoken : w.kind \in {"dream", "concern"} => Day(w.at) = Day(w.made)

(* Words keep the quiet hours and the day they were made in, also where    *)
(* the engine is slow and a beat decides with a clock it read before.      *)
InTheirTime == QuietKept /\ DayBound

(* A day has one dream, told once, however slow the engine is. *)
OneOfADay ==
  \A v, w \in spoken : v.kind = "dream" /\ w.kind = "dream" /\ v.day = w.day => v = w

(* Where a night spans midnight a calendar day hears one, even if a slow    *)
(* beat that began the day before tells it.                                *)
OneDream ==
  /\ OneOfADay
  /\ QuietEnd < QuietStart =>
       \A v, w \in spoken : v.kind = "dream" /\ w.kind = "dream" /\ Day(v.at) = Day(w.at) => v = w

(* A dream is armed, to wait or to be queued at once, only by two beats    *)
(* above the threshold in one night (_dream_step counts per night).        *)
DreamOfOneNight ==
  [][(/\ crashes' = crashes
      /\ ~mem.pending
      /\ mem'.pending \/ (~mem.dreamt /\ mem'.dreamt))
     => over[mem.night] >= 2]_vars

(* Nothing is queued on a day that her guard has frozen.                   *)
FrozenDaySilent == \A w \in spoken : ~w.frozen
==============================================================================
