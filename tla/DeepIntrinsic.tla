----------------------------- MODULE DeepIntrinsic -----------------------------
(***************************************************************************)
(* The heartbeat of a session with intrinsic_field_enabled: the field and  *)
(* the policy that wants to speak, the gates it must pass, the dream state *)
(* machine with the legacy murmur to fall back on, and the ledger of the   *)
(* moments.                                                                *)
(*                                                                         *)
(* A beat steps the field and the dream, awaits the shadow, decides (with  *)
(* the row of the decision in the ledger) and saves; between the row and   *)
(* the save only a kill may come.  A day has four hours: the end of the    *)
(* quiet hours, the day, the half hour before the quiet hours, and the     *)
(* quiet hours of the evening.                                             *)
(***************************************************************************)
EXTENDS Integers, Sequences, FiniteSets, FiniteSetsExt

CONSTANTS Surfaces,     \* what the engine may show: needs, boundary, decision and phase, in percent
          Shown,        \* ... and does show to the beats
          Policies,     \* of POLICY_REGISTRY
          CapBase,      \* intrinsic_daily_cap
          LastHour, MaxBeats, MaxRaises, MaxKills   \* bounds

DeepIntrinsicAssumption ==
  /\ Shown \subseteq Surfaces
  /\ \A s \in Surfaces : s.phase \in {"active", "dormant"} /\ s.action \in {"hold", "reach_out"}
  /\ Policies \subseteq {"threshold", "field_crossing", "poisson_budget"}
  /\ {CapBase, LastHour, MaxBeats, MaxRaises, MaxKills} \subseteq Nat
  /\ LastHour >= 2                          \* the hour it begins with

VARIABLES mind,      \* intrinsic_field, the dream block and the daily block of the record
          mindDisk,  \* ... in bindings.json
          hour,      \* [at: the clock, beats: how many beats this hour had]
          pulse,     \* the beat that awaits the shadow, or has decided: its locals
          wish,      \* the policy the process was built with, and the reach_out cached
          diary,     \* the moments ledger: the rows of today of each kind
          history    \* dreams of the day, raises, kills, words without a row, nights that count for a dream

mvars == <<mind, mindDisk, hour, pulse, wish, diary, history>>

Day    == hour.at \div 4
Quiet  == hour.at % 4 \in {0, 3}
Window == hour.at % 4 = 2
Never  == -1
P      == 100

NoPulse == [on |-> FALSE, decided |-> FALSE]

Daily(d) == [day |-> d, sent |-> 0, last |-> Never, streak |-> 0, night |-> FALSE,
             frozen |-> FALSE, dreamt |-> FALSE]

Mind0 ==
  [phi |-> "low", armed |-> TRUE, quiet |-> FALSE, day |-> Never,
   dream |-> [count |-> 0, pending |-> FALSE, delivered |-> FALSE],
   murmur |-> [count |-> 0, night |-> Never, pending |-> FALSE],
   daily |-> Daily(0)]

Kinds == {"spoke", "want_blocked_budget", "want_blocked_gap", "want_blocked_quiet",
          "want_blocked_respect", "crossed_but_gated"}

TypeOK ==
  /\ \A m \in {mind, mindDisk} :
       /\ m.phi \in {"low", "between", "high"} /\ m.armed \in BOOLEAN
       /\ m.dream.count \in Nat /\ m.murmur.count \in Nat
       /\ m.daily.sent \in 0..CapBase /\ m.daily.streak \in 0..2
       /\ m.daily.day <= Day
  /\ hour.at \in 0..LastHour /\ hour.beats \in 0..MaxBeats
  /\ wish.policy \in Policies \cup {"none"}
  /\ diary \in [Kinds -> Nat]

------------------------------------------------------------------------------
(* core.intrinsic.decide: the reason of the first gate that is shut. *)
First(gates) == LET shut == {i \in DOMAIN gates : gates[i][2]}
                IN IF shut = {} THEN "open" ELSE gates[Min(shut)][1]

CapOf(base) == (base * P + 99) \div 100

Core(s, d, reach, silenced) ==
  LET why == First(<<
        <<"p0",           silenced>>,
        <<"no_trigger",   ~(s.contact >= 60 /\ s.expression >= 45) /\ s.action # "reach_out" /\ ~reach>>,
        <<"pressure",     s.pressure >= 70>>,
        <<"quiet_need",   s.quiet >= 50>>,
        <<"budget",       s.budget < 30>>,
        <<"dormant",      s.phase = "dormant">>,
        <<"guard_frozen", d.frozen>>,
        <<"unanswered",   d.streak >= 2>>,
        <<"daily_cap",    d.sent >= CapOf(CapBase)>>,
        <<"min_gap",      d.last = hour.at>>,
        <<"quiet_hours",  Quiet>>,
        <<"night_done",   Window /\ d.night>> >>)
  IN [send |-> why = "open", why |-> why,
      occasion |-> IF why # "open" THEN "none" ELSE IF Window THEN "contact_night" ELSE "contact_seek"]

(* impulses.gates.apply_gates: the chain of the deep path, for a proposal. *)
ApplyGates(want, s, d, silenced) ==
  LET why == First(<<
        <<"p0",           silenced>>,
        <<"no_trigger",   ~want>>,
        <<"pressure",     s.pressure >= 70>>,
        <<"quiet_need",   s.quiet >= 50>>,
        <<"budget",       s.budget < 30>>,
        <<"dormant",      s.phase = "dormant">>,
        <<"guard_frozen", d.frozen>>,
        <<"unanswered",   d.streak >= 2>>,
        <<"daily_cap",    d.sent >= CapOf(CapBase)>>,
        <<"min_gap",      d.last = hour.at>>,
        <<"quiet_hours",  Quiet>>,
        <<"night_done",   Window /\ d.night>> >>)
  IN [send |-> why = "open", why |-> why,
      occasion |-> IF why # "open" THEN "none" ELSE IF Window THEN "contact_night" ELSE "contact_seek"]

(* ThresholdPolicy: the core is asked with every gate held open.  At the   *)
(* minute 0 with quiet hours 0..0 the night window is 23:30 to midnight.   *)
Threshold(s, reach) ==
  (s.contact >= 60 /\ s.expression >= 45) \/ s.action = "reach_out" \/ reach

(* FieldCrossingPolicy: a want at the upper threshold, the next only after *)
(* the potential was at the lower one.                                     *)
Crossing(m) ==
  CASE m.armed /\ m.phi = "high"  -> [want |-> TRUE, armed |-> FALSE]
    [] ~m.armed /\ m.phi = "low"  -> [want |-> FALSE, armed |-> TRUE]
    [] OTHER                      -> [want |-> FALSE, armed |-> m.armed]

(* What the policy may propose; poisson_budget draws by a hash. *)
Proposals(m, s, reach) ==
  CASE wish.policy = "threshold"      -> {[want |-> Threshold(s, reach), armed |-> m.armed]}
    [] wish.policy = "field_crossing" -> {Crossing(m)}
    [] OTHER                          -> {[want |-> w, armed |-> m.armed] : w \in BOOLEAN}

(* taxonomy.REASON_TO_MOMENT *)
MomentOf(dec) ==
  CASE dec.send                                -> "spoke"
    [] dec.why \in {"p0", "no_trigger"}        -> "none"
    [] dec.why = "unanswered"                  -> "want_blocked_respect"
    [] dec.why = "daily_cap"                   -> "want_blocked_budget"
    [] dec.why = "min_gap"                     -> "want_blocked_gap"
    [] dec.why \in {"quiet_hours", "night_done"} -> "want_blocked_quiet"
    [] OTHER                                   -> "crossed_but_gated"

------------------------------------------------------------------------------
(* dream_state.arm *)
Armed(d) == [d EXCEPT !.count = 0, !.pending = @ \/ d.count >= 2]

Above(s) == Quiet /\ s.expression >= 60

(* _intrinsic_dream_step: day flip, tick, arm when the quiet hours are left. *)
Dreamt(m, s) ==
  LET flipped == IF m.day # Day THEN [m.dream EXCEPT !.delivered = FALSE] ELSE m.dream
      ticked  == IF Above(s) THEN [flipped EXCEPT !.count = @ + 1] ELSE flipped
      d       == IF m.quiet /\ ~Quiet THEN Armed(ticked) ELSE ticked
  IN [m EXCEPT !.dream = d, !.day = Day, !.quiet = Quiet]

Ready(m) == m.dream.pending /\ P >= 30 /\ ~m.dream.delivered

Delivered(m) ==
  [m EXCEPT !.dream = [@ EXCEPT !.pending = FALSE, !.delivered = TRUE],
            !.daily.dreamt = TRUE]

(* _night_of and _dream_step, the murmur of v0.1. *)
NightOf == IF hour.at % 4 = 3 THEN Day ELSE Day - 1

Murmured(m, s) ==
  LET w == m.murmur
      c == IF w.night = NightOf THEN w.count ELSE 0
  IN CASE Above(s) -> [m EXCEPT !.murmur = [w EXCEPT !.night = NightOf, !.count = c + 1]]
       [] ~Quiet /\ w.count >= 2 /\ ~w.pending -> [m EXCEPT !.murmur = [w EXCEPT !.pending = TRUE, !.count = 0]]
       [] OTHER -> m

MurmurReady(m) == m.murmur.pending /\ P >= 30 /\ ~m.daily.dreamt

Rolled(m) == IF m.daily.day = Day THEN m ELSE [m EXCEPT !.daily = Daily(Day)]

(* The field goes where the integrator takes it, as far as it can between  *)
(* two beats; only one policy looks.                                       *)
Moved(phi) == IF wish.policy = "field_crossing" THEN {"low", "between", "high"} ELSE {phi}

Fell(phi) == history.fallen \/ phi = "low"

Night(d) == IF hour.at % 4 = 0 THEN d - 1 ELSE d

StartBeat(m, s, dreams, raised, ticks) ==
  /\ mind' = m
  /\ pulse' = [on |-> TRUE, decided |-> FALSE, surface |-> s]
  /\ hour' = [hour EXCEPT !.beats = @ + 1]
  /\ history' = [history EXCEPT !.dreams = (IF mind.daily.day = Day THEN @ ELSE 0) + dreams,
                                !.raises = @ + raised,
                                !.fallen = Fell(m.phi), !.ticks = ticks]
  /\ UNCHANGED <<mindDisk, wish, diary>>

(* The ticks a dream is made of, by the night they fell in. *)
TicksAfter(s) ==
  IF mind.quiet /\ ~Quiet THEN {}
  ELSE IF Above(s) THEN history.ticks \cup {Night(Day)} ELSE history.ticks

Awake == wish.policy # "none" /\ ~pulse.on

BeatStart ==
  /\ Awake /\ hour.beats < MaxBeats
  /\ \E s \in Shown, phi \in Moved(mind.phi) :
       LET m == Dreamt([Rolled(mind) EXCEPT !.phi = phi], s)
       IN IF Ready(m) THEN StartBeat(Delivered(m), s, 1, 0, TicksAfter(s))
          ELSE StartBeat(m, s, 0, 0, TicksAfter(s))

(* The deep dream raises after the day was marked: the flip of the day is  *)
(* lost with it, and the murmur of v0.1 takes its turn.                    *)
BeatStartRaises ==
  /\ Awake /\ hour.beats < MaxBeats /\ history.raises < MaxRaises
  /\ \E s \in Shown, phi \in Moved(mind.phi) :
       LET m == Murmured([Rolled(mind) EXCEPT !.phi = phi, !.day = Day], s)
       IN IF MurmurReady(m)
          THEN StartBeat([m EXCEPT !.murmur.pending = FALSE, !.daily.dreamt = TRUE], s, 1, 1, history.ticks)
          ELSE StartBeat(m, s, 0, 1, history.ticks)

(* _reserve_proactive *)
Reserved(d, occasion) ==
  [d EXCEPT !.sent = @ + 1, !.last = hour.at, !.streak = @ + 1, !.night = @ \/ occasion = "contact_night"]

(* FieldCrossingPolicy.recoil, best effort: drive and longing fall, by no  *)
(* more than the rest.                                                     *)
Recoils(phi) == IF wish.policy # "field_crossing" THEN {phi}
                ELSE IF phi = "high" THEN {"low", "between", "high"} ELSE {phi, "low"}

(* _intrinsic_decide: the policy and the gates; or, when they raise, the   *)
(* core, which leaves neither a policy state nor a row.                    *)
Decisions(m, s, reach) ==
  {[deep |-> TRUE, armed |-> q.armed, dec |-> ApplyGates(q.want, s, m.daily, FALSE)]
     : q \in Proposals(m, s, reach)}
  \cup {[deep |-> FALSE, armed |-> m.armed, dec |-> Core(s, m.daily, reach, FALSE)]}

(* The authoritative decision is written into the block. *)
Decided(m, x, phi) ==
  [m EXCEPT !.armed = x.armed, !.phi = phi,
            !.daily = IF x.dec.send THEN Reserved(@, x.dec.occasion) ELSE @]

(* Bug: the word of a concern does not ask the gates. *)
Concerned_Ungated(m, s) == {m, [m EXCEPT !.daily = Reserved(@, "concern")]}

(* A concern of the shadow is told if a probe, which writes nothing, gets  *)
(* through the gates.                                                      *)
Concerned(m, s) ==
  {m} \cup {[m EXCEPT !.daily = Reserved(@, "concern")]
               : x \in {y \in Decisions(m, s, TRUE) : y.dec.send}}

(* _intrinsic_record_moment: there is no ledger with moments_enabled off,  *)
(* and an append that fails is forgotten.                                  *)
Recorded(x) ==
  {diary} \cup (IF x.deep /\ MomentOf(x.dec) # "none"
               THEN {[diary EXCEPT ![MomentOf(x.dec)] = @ + 1]} ELSE {})

(* The shadow has answered: decide, recoil, append the row, reserve; then  *)
(* the concern.                                                            *)
BeatDecides ==
  /\ pulse.on /\ ~pulse.decided
  /\ \E x \in Decisions(mind, pulse.surface, wish.reach) :
       LET wanted == x.deep /\ x.dec.send
       IN \E phi \in (IF wanted THEN Recoils(mind.phi) ELSE {mind.phi}) :
          \E m \in Concerned(Decided(mind, x, phi), pulse.surface), rows \in Recorded(x) :
            /\ mind' = m /\ diary' = rows
            /\ history' = [history EXCEPT
                 !.fallen = IF wanted THEN phi = "low" ELSE @,
                 !.crossed = wanted /\ wish.policy = "field_crossing" /\ ~history.fallen,
                 !.mute = @ + (IF x.dec.send /\ rows = diary THEN 1 ELSE 0)
                            + (IF m # Decided(mind, x, phi) THEN 1 ELSE 0)]
  /\ pulse' = [pulse EXCEPT !.decided = TRUE]
  /\ wish' = [wish EXCEPT !.reach = FALSE]
  /\ UNCHANGED <<mindDisk, hour>>

(* The beat saves; one that is silenced has decided nothing. *)
BeatDone ==
  /\ pulse.on
  /\ mindDisk' = mind
  /\ pulse' = NoPulse
  /\ UNCHANGED <<mind, hour, wish, diary, history>>

(* The user answers: the streak ends; her guard may freeze the day, and a  *)
(* reach_out verdict is cached for the day.                                *)
Answer ==
  /\ Awake /\ mind.daily.day = Day
  /\ \E frozen \in {FALSE, TRUE} :
       /\ mind' = [mind EXCEPT !.daily.streak = 0, !.daily.frozen = @ \/ frozen]
       /\ wish' = [wish EXCEPT !.reach = ~frozen]
  /\ mind' # mind
  /\ mindDisk' = mind'
  /\ UNCHANGED <<hour, pulse, diary, history>>

(* A night is over, and no beat of the day after it came through. *)
SleptThrough == mind.quiet /\ Window

NoRows == [k \in Kinds |-> 0]
Midnight == (hour.at + 1) % 4 = 0

Tick ==
  /\ Awake /\ hour.at < LastHour
  /\ hour' = [at |-> hour.at + 1, beats |-> 0]
  /\ history' = [history EXCEPT !.ticks = IF SleptThrough THEN {} ELSE @,
                                !.mute = IF Midnight THEN 0 ELSE @,
                                !.cut = IF Midnight THEN 0 ELSE @]
  /\ wish' = [wish EXCEPT !.reach = @ /\ ~Midnight]
  /\ diary' = IF Midnight THEN NoRows ELSE diary
  /\ UNCHANGED <<mind, mindDisk, pulse>>

(* Another session's save writes this record as it is. *)
OtherSave ==
  /\ ~pulse.decided
  /\ mindDisk' = mind
  /\ UNCHANGED <<mind, hour, pulse, wish, diary, history>>

(* The process is killed and starts again; the rows of the ledger remain. *)
Kill ==
  /\ wish.policy # "none" /\ history.kills < MaxKills
  /\ mind' = mindDisk /\ pulse' = NoPulse
  /\ wish' = [wish EXCEPT !.reach = FALSE]
  /\ history' = [history EXCEPT !.kills = @ + 1, !.cut = @ + (IF pulse.decided THEN 1 ELSE 0)]
  /\ UNCHANGED <<mindDisk, hour, diary>>

(* _build_intrinsic_system *)
Build ==
  /\ wish.policy = "none"
  /\ \E p \in Policies : wish' = [wish EXCEPT !.policy = p]
  /\ UNCHANGED <<mind, mindDisk, hour, pulse, diary, history>>

Init ==
  /\ mind = Mind0 /\ mindDisk = Mind0 /\ hour = [at |-> 2, beats |-> 0] /\ pulse = NoPulse
  /\ wish = [policy |-> "none", reach |-> FALSE]
  /\ diary = NoRows
  /\ history = [dreams |-> 0, raises |-> 0, ticks |-> {}, fallen |-> TRUE, crossed |-> FALSE,
                kills |-> 0, mute |-> 0, cut |-> 0]

Next == Build \/ BeatStart \/ BeatStartRaises \/ BeatDecides \/ BeatDone \/ Answer \/ Tick \/ OtherSave \/ Kill

Spec == Init /\ [][Next]_mvars

------------------------------------------------------------------------------
(* With the threshold policy the deep path decides as the core does: the   *)
(* same word, for the same reason, whatever the day has seen so far.       *)
ThresholdIsCore ==
  \A s \in Surfaces : \A reach, silenced \in BOOLEAN :
    ApplyGates(Threshold(s, reach), s, mind.daily, silenced) = Core(s, mind.daily, reach, silenced)

(* At most one dream a day.  A second one is told only when the deep dream *)
(* raised, or the process died, and never a third.                         *)
OneDeepDream ==
  history.kills = 0 => history.dreams <= IF history.raises = 0 THEN 1 ELSE 2

(* Two words of field_crossing with no fall to the lower threshold between *)
(* them: never, unless a kill brought back an older policy state.          *)
FallBetweenWords == history.kills = 0 => ~history.crossed

(* The slots the record gives to the words of today and the rows of the    *)
(* ledger agree, though one is saved and the other appended: no slot is    *)
(* without a row but of a word that has none (the core's, a concern's, one *)
(* whose append failed), and no row or word without a slot but one for     *)
(* each kill between the row and the save, for a beat says one word only.  *)
WordsAreMoments ==
  LET slots == IF mind.daily.day = Day THEN mind.daily.sent ELSE 0
      words == diary["spoke"] + history.mute
  IN slots <= words /\ words <= slots + history.cut

(* The beats a dream is armed by fell in one night, unless no beat of the  *)
(* day between two nights came through: dream_state counts beats and does  *)
(* not know the night (the murmur of v0.1 does).                           *)
DreamOfOneNight == history.kills = 0 => Cardinality(history.ticks) <= 1
================================================================================
