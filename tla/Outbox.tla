-------------------------------- MODULE Outbox --------------------------------
(***************************************************************************)
(* The words she wants to say on her own: Outbox._q in memory, the outbox  *)
(* block of each binding record, bindings.json, and the agent that polls   *)
(* affect_impulse.  The heartbeat and affect_arbitrate put items in, only  *)
(* affect_impulse takes them out, and each save writes the records of all  *)
(* sessions while only the saving session renews its outbox block.         *)
(*                                                                         *)
(* A handler runs alone until it awaits.  A handler that does not await    *)
(* between its first change and its save is one step: a crash in the       *)
(* middle loses only memory.  pc[s] says where the handler of s awaits.    *)
(* Only companions are modelled: a steward neither beats nor is polled.    *)
(***************************************************************************)
EXTENDS Integers

CONSTANTS Sids,        \* the sessions
          Faults,      \* "abort": the engine raises at an await of the heartbeat
                       \* "cancel": close comes while a handler awaits
          DayLength,   \* ticks of the clock in a day
          MaxNow,      \* bound: the last tick of the clock
          MaxItems,    \* bound: how many items are ever queued
          MaxGen,      \* bound: the last generation that can be hatched
          MaxCrashes   \* bound: how often the process is killed

ASSUME FaultsAssumption == Faults \subseteq {"abort", "cancel"}
ASSUME BoundsAssumption ==
  /\ DayLength \in Nat \ {0} /\ MaxNow \in Nat /\ MaxItems \in Nat
  /\ MaxGen \in Nat \ {0} /\ MaxCrashes \in Nat

VARIABLES queue,    \* Outbox._q
          mem,      \* the binding records in memory
          disk,     \* bindings.json
          hand,     \* items drained and saved, their reply still under way
          told,     \* how often the agent was told each item
          left,     \* history: items drained, expired or cleared
          reset,    \* history: items cleared by affect_reset
          created,  \* how many items were queued so far
          pc,       \* where the handler of each session awaits
          up,       \* whether the process runs
          now,      \* the clock
          crashes   \* how often the process was killed

vars == <<queue, mem, disk, hand, told, left, reset, created, pc, up, now, crashes>>

Ids   == 1..MaxItems
Times == 0..MaxNow
Today == now \div DayLength

(* dream: the night armed one; dreamt: daily.dream_delivered; notice: there *)
(* is a pending_epoch_notice.                                               *)
Flags == {"dream", "dreamt", "notice"}

Item == [id : Ids, gen : 1..MaxGen, due : Times, expires : Times]

Record ==
  [gen : 0..MaxGen, status : {"bound", "sealed"}, until : Times, day : Times,
   flags : SUBSET Flags,
   sent : SUBSET Ids,     \* items this record accounts for as queued
   block : SUBSET Item]   \* record["outbox"]

NoRecord == [gen |-> 0, status |-> "bound", until |-> 0, day |-> 0, flags |-> {},
             sent |-> {}, block |-> {}]

TypeOK ==
  /\ queue \in [Sids -> SUBSET Item] /\ hand \in [Sids -> SUBSET Ids]
  /\ mem \in [Sids -> Record] /\ disk \in [Sids -> Record]
  /\ told \in [Ids -> 0..2]
  /\ left \subseteq Ids /\ reset \subseteq left
  /\ created \in 0..MaxItems
  /\ pc \in [Sids -> {"idle", "submit", "tick", "shadow", "reset"}]
  /\ up \in BOOLEAN /\ now \in 0..MaxNow /\ crashes \in 0..MaxCrashes

Bound(r)    == r.gen > 0 /\ r.status = "bound"
Silenced(r) == now < r.until
IdsOf(items) == {i.id : i \in items}

------------------------------------------------------------------------------
(* The factories of outbox.py.  A delayed withdrawal or recovery comes up a *)
(* tick later and is kept for one more; a proactive word is kept a tick; a  *)
(* dream, a concern or an epoch notice until the end of the day.            *)
DayEnd == (Today + 1) * DayLength

Expiry(kind) == CASE kind = "delayed"   -> now + 2
                  [] kind = "proactive" -> now + 1
                  [] kind = "daily"     -> DayEnd

(* Bug: the end of the window is taken for its length. *)
Make_LongWindow(id, kind, gen) == [id |-> id, gen |-> gen, due |-> now,
                                   expires |-> now + Expiry(kind)]

Make(id, kind, gen) == [id |-> id, gen |-> gen,
                        due |-> IF kind = "delayed" THEN now + 1 ELSE now,
                        expires |-> Expiry(kind)]

(* Bound: an item is only made where the clock can still outlive it. *)
CanMake(id, kind) == id <= MaxItems /\ Expiry(kind) <= MaxNow

(* BindingStore.rollover: a new daily block, and an epoch notice if P fell *)
(* into the next epoch.                                                    *)
Rolled(r, epoch) ==
  IF r.day = Today THEN r
  ELSE [r EXCEPT !.day = Today,
                 !.flags = (@ \ {"dreamt"}) \cup (IF epoch THEN {"notice"} ELSE {})]

(* Bug: the save does not renew the outbox block of its session. *)
Persisted_Stale(r, q) == r

(* _persist: the queue is serialized into the record before the save. *)
Persisted(r, q) == [r EXCEPT !.block = q]

------------------------------------------------------------------------------
Enter(s) == up /\ pc[s] = "idle" /\ Bound(mem[s])

(* Session s goes on with record r and queue q; saved or not. *)
Change(s, r, q) == /\ mem' = [mem EXCEPT ![s] = r]
                   /\ queue' = [queue EXCEPT ![s] = q]
SaveAll == disk' = mem'
Goto(s, place) == pc' = [pc EXCEPT ![s] = place]

(* _heartbeat_step: the rollover, then the tick of the engine is awaited. *)
HeartbeatStart(s, epoch) ==
  /\ Enter(s)
  /\ Goto(s, "tick")
  /\ mem' = [mem EXCEPT ![s] = Rolled(@, epoch)]
  /\ UNCHANGED <<queue, disk, hand, told, left, reset, created, up, now, crashes>>

(* A dream armed by the night is queued on the first beat of a day that    *)
(* had none.  A silenced session saves and stops here, the others await    *)
(* the shadow before anything is saved.                                    *)
DreamStep(s, armed) ==
  /\ up /\ pc[s] = "tick"
  /\ LET r     == [mem[s] EXCEPT !.flags = @ \cup (IF armed THEN {"dream"} ELSE {})]
         id    == created + 1
         ready == "dream" \in r.flags /\ "dreamt" \notin r.flags /\ CanMake(id, "daily")
         r2    == IF ready THEN [r EXCEPT !.flags = (@ \ {"dream"}) \cup {"dreamt"},
                                          !.sent = @ \cup {id}]
                  ELSE r
         q2    == IF ready THEN queue[s] \cup {Make(id, "daily", r.gen)} ELSE queue[s]
     IN /\ created' = IF ready THEN id ELSE created
        /\ IF Silenced(r)
           THEN Change(s, Persisted(r2, q2), q2) /\ SaveAll /\ Goto(s, "idle")
           ELSE Change(s, r2, q2) /\ UNCHANGED disk /\ Goto(s, "shadow")
  /\ UNCHANGED <<hand, told, left, reset, up, now, crashes>>

(* After the shadow: a pending epoch notice unless it is quiet or frozen,  *)
(* and at most one word of her own, contact or concern; then the save.     *)
BeatDone(s, noticed, word) ==
  /\ up /\ pc[s] = "shadow"
  /\ noticed => "notice" \in mem[s].flags /\ CanMake(created + 1, "daily")
  /\ LET n     == IF noticed THEN created + 1 ELSE created
         last  == IF word = "none" THEN n ELSE n + 1
         items == {Make(i, "daily", mem[s].gen) : i \in (created + 1)..n}
                  \cup {Make(i, word, mem[s].gen) : i \in (n + 1)..last}
         q     == queue[s] \cup items
         r     == [mem[s] EXCEPT !.flags = IF noticed THEN @ \ {"notice"} ELSE @,
                                 !.sent = @ \cup IdsOf(items)]
     IN /\ word # "none" => CanMake(last, word)
        /\ Change(s, Persisted(r, q), q)
        /\ SaveAll
        /\ created' = last
  /\ Goto(s, "idle")
  /\ UNCHANGED <<hand, told, left, reset, up, now, crashes>>

(* affect_arbitrate: the rollover; a withdrawn or recovering word comes up *)
(* later.                                                                  *)
Arbitrate(s, delayed, epoch) ==
  /\ Enter(s)
  /\ LET id    == created + 1
         items == IF delayed THEN {Make(id, "delayed", mem[s].gen)} ELSE {}
         q     == queue[s] \cup items
         r     == [Rolled(mem[s], epoch) EXCEPT !.sent = @ \cup IdsOf(items)]
     IN /\ delayed => CanMake(id, "delayed")
        /\ Change(s, Persisted(r, q), q)
        /\ SaveAll
        /\ created' = IF delayed THEN id ELSE created
  /\ UNCHANGED <<hand, told, left, reset, pc, up, now, crashes>>

Blocked(s) == ~Bound(mem[s]) \/ Silenced(mem[s])

(* The items drain_due returns ... *)
Due(s) == IF Blocked(s) THEN {} ELSE {i \in queue[s] : i.due <= now /\ now < i.expires}

(* Bug: what has expired stays. *)
Drained_KeepsExpired(s) == Due(s)

(* ... and those that leave the queue. *)
Drained(s) == Due(s) \cup {i \in queue[s] : now >= i.expires}

(* Bug: the emptied queue is only saved with the next handler. *)
Impulse_Unsaved(s) ==
  /\ up /\ pc[s] = "idle" /\ mem[s].gen > 0
  /\ queue' = [queue EXCEPT ![s] = @ \ Drained(s)]
  /\ hand' = [hand EXCEPT ![s] = @ \cup IdsOf(Due(s))]
  /\ left' = left \cup IdsOf(Drained(s))
  /\ UNCHANGED <<mem, disk, told, reset, created, pc, up, now, crashes>>

(* affect_impulse: drain_due, then the save, then the reply is under way.  *)
(* A silenced or sealed session only drops what has expired.               *)
Impulse(s) ==
  /\ up /\ pc[s] = "idle" /\ mem[s].gen > 0
  /\ LET q == queue[s] \ Drained(s) IN Change(s, Persisted(mem[s], q), q)
  /\ hand' = [hand EXCEPT ![s] = @ \cup IdsOf(Due(s))]
  /\ left' = left \cup IdsOf(Drained(s))
  /\ SaveAll
  /\ UNCHANGED <<told, reset, created, pc, up, now, crashes>>

(* The reply reaches the agent. *)
Reply(s) ==
  /\ up /\ hand[s] # {}
  /\ told' = [i \in Ids |-> IF i \in hand[s] /\ told[i] < 2 THEN told[i] + 1 ELSE told[i]]
  /\ hand' = [hand EXCEPT ![s] = {}]
  /\ UNCHANGED <<queue, mem, disk, left, reset, created, pc, up, now, crashes>>

(* affect_submit of the user's words: the record of an unbound session is  *)
(* made, or the day rolled over; then the engine is awaited, and after it  *)
(* everything is saved.                                                    *)
SubmitStart(s, epoch) ==
  /\ up /\ pc[s] = "idle" /\ mem[s].status = "bound"
  /\ mem' = [mem EXCEPT ![s] = IF Bound(@) THEN Rolled(@, epoch)
                               ELSE [NoRecord EXCEPT !.gen = 1, !.day = Today]]
  /\ Goto(s, "submit")
  /\ UNCHANGED <<queue, disk, hand, told, left, reset, created, up, now, crashes>>

SubmitDone(s) ==
  /\ up /\ pc[s] = "submit"
  /\ Change(s, Persisted(mem[s], queue[s]), queue[s])
  /\ SaveAll
  /\ Goto(s, "idle")
  /\ UNCHANGED <<hand, told, left, reset, created, up, now, crashes>>

(* affect_submit of the agent's own words, and affect_bind of a bound      *)
(* session: nothing is awaited.                                            *)
PersistOnly(s, rolls, epoch) ==
  /\ Enter(s)
  /\ LET r == IF rolls THEN Rolled(mem[s], epoch) ELSE mem[s]
     IN Change(s, Persisted(r, queue[s]), queue[s])
  /\ SaveAll
  /\ UNCHANGED <<hand, told, left, reset, created, pc, up, now, crashes>>

(* affect_pause and unsilence save the table without renewing a block. *)
Silence(s, until) ==
  /\ Enter(s)
  /\ until = 0 \/ until > now
  /\ mem' = [mem EXCEPT ![s].until = until]
  /\ SaveAll
  /\ UNCHANGED <<queue, hand, told, left, reset, created, pc, up, now, crashes>>

(* affect_reset: the engine is awaited, then the caches and the queue of   *)
(* the session are evicted.  Nothing is saved.                             *)
ResetStart(s) ==
  /\ Enter(s)
  /\ Goto(s, "reset")
  /\ UNCHANGED <<queue, mem, disk, hand, told, left, reset, created, up, now, crashes>>

ResetDone(s) ==
  /\ up /\ pc[s] = "reset"
  /\ Goto(s, "idle")
  /\ queue' = [queue EXCEPT ![s] = {}]
  /\ left' = left \cup IdsOf(queue[s])
  /\ reset' = reset \cup IdsOf(queue[s])
  /\ UNCHANGED <<mem, disk, hand, told, created, up, now, crashes>>

(* _commit_seal: sealed and saved, the queue evicted; the block stays. *)
Seal(s) ==
  /\ Enter(s)
  /\ mem' = [mem EXCEPT ![s].status = "sealed"]
  /\ SaveAll
  /\ queue' = [queue EXCEPT ![s] = {}]
  /\ left' = left \cup IdsOf(queue[s])
  /\ UNCHANGED <<hand, told, reset, created, pc, up, now, crashes>>

(* Bug: the new life is saved without renewing the block it takes over. *)
BindNew_Reuses(s) ==
  /\ up /\ pc[s] = "idle" /\ ~Bound(mem[s]) /\ mem[s].gen < MaxGen
  /\ Change(s, [NoRecord EXCEPT !.gen = mem[s].gen + 1, !.day = Today, !.block = mem[s].block], {})
  /\ SaveAll
  /\ UNCHANGED <<hand, told, left, reset, created, pc, up, now, crashes>>

(* affect_bind of an unbound or sealed session: a new record, no queue. *)
BindNew(s) ==
  /\ up /\ pc[s] = "idle" /\ ~Bound(mem[s]) /\ mem[s].gen < MaxGen
  /\ Change(s, [NoRecord EXCEPT !.gen = mem[s].gen + 1, !.day = Today], {})
  /\ SaveAll
  /\ UNCHANGED <<hand, told, left, reset, created, pc, up, now, crashes>>

(* The engine raises while the heartbeat awaits it: the loop logs it and   *)
(* goes on, the lock is free, nothing is saved.                            *)
Abort(s) ==
  /\ "abort" \in Faults
  /\ up /\ pc[s] # "idle"
  /\ Goto(s, "idle")
  /\ UNCHANGED <<queue, mem, disk, hand, told, left, reset, created, up, now, crashes>>

------------------------------------------------------------------------------
(* Outbox.load_records, for bound_umos. *)
Hydrated(s) == IF Bound(disk[s]) THEN disk[s].block ELSE {}

Load ==
  /\ ~up
  /\ up' = TRUE
  /\ mem' = disk
  /\ queue' = [s \in Sids |-> Hydrated(s)]
  /\ UNCHANGED <<disk, hand, told, left, reset, created, pc, now, crashes>>

(* The memory of the process is gone, with it the replies under way. *)
Stopped ==
  /\ up' = FALSE
  /\ mem' = [s \in Sids |-> NoRecord]
  /\ queue' = [s \in Sids |-> {}]
  /\ hand' = [s \in Sids |-> {}]
  /\ pc' = [s \in Sids |-> "idle"]

(* SessionManager.close: handlers in flight are cancelled, then the table  *)
(* is saved as it is.                                                      *)
Close ==
  /\ up
  /\ "cancel" \in Faults \/ \A s \in Sids : pc[s] = "idle"
  /\ disk' = mem
  /\ Stopped
  /\ UNCHANGED <<told, left, reset, created, now, crashes>>

Crash ==
  /\ up /\ crashes < MaxCrashes
  /\ crashes' = crashes + 1
  /\ Stopped
  /\ UNCHANGED <<disk, told, left, reset, created, now>>

Tick ==
  /\ now < MaxNow
  /\ now' = now + 1
  /\ UNCHANGED <<queue, mem, disk, hand, told, left, reset, created, pc, up, crashes>>

------------------------------------------------------------------------------
Init ==
  /\ queue = [s \in Sids |-> {}]
  /\ mem = [s \in Sids |-> NoRecord]
  /\ disk = [s \in Sids |-> NoRecord]
  /\ hand = [s \in Sids |-> {}]
  /\ told = [i \in Ids |-> 0]
  /\ left = {} /\ reset = {}
  /\ created = 0
  /\ pc = [s \in Sids |-> "idle"]
  /\ up = TRUE /\ now = 0 /\ crashes = 0

Beat(s) ==
  \/ \E epoch \in BOOLEAN : HeartbeatStart(s, epoch)
  \/ \E armed \in BOOLEAN : DreamStep(s, armed)
  \/ \E noticed \in BOOLEAN, word \in {"none", "proactive", "daily"} :
       BeatDone(s, noticed, word)

Handler(s) ==
  \/ Beat(s)
  \/ \E delayed, epoch \in BOOLEAN : Arbitrate(s, delayed, epoch)
  \/ Impulse(s)
  \/ Reply(s)
  \/ \E epoch \in BOOLEAN : SubmitStart(s, epoch)
  \/ SubmitDone(s)
  \/ \E rolls, epoch \in BOOLEAN : PersistOnly(s, rolls, epoch)
  \/ \E until \in 0..MaxNow : Silence(s, until)
  \/ ResetStart(s) \/ ResetDone(s)
  \/ Seal(s)
  \/ BindNew(s)
  \/ Abort(s)

Next ==
  \/ \E s \in Sids : Handler(s)
  \/ Load \/ Close \/ Crash \/ Tick

Spec == Init /\ [][Next]_vars

(***************************************************************************)
(* Fairness: the clock goes on, the process is started again, the engine   *)
(* answers, a reply is delivered or lost with the process, and the agent   *)
(* goes on polling: its poll waits in the queue of the session's lock,     *)
(* which is served in order.                                               *)
(***************************************************************************)
Fairness ==
  /\ WF_vars(Tick) /\ WF_vars(Load)
  /\ \A s \in Sids :
       /\ WF_vars(\E armed \in BOOLEAN : DreamStep(s, armed))
       /\ WF_vars(BeatDone(s, FALSE, "none"))
       /\ WF_vars(SubmitDone(s)) /\ WF_vars(ResetDone(s))
       /\ WF_vars(Reply(s))
       /\ SF_vars(Impulse(s))

FairSpec == Spec /\ Fairness

------------------------------------------------------------------------------
(* What a saved record accounts for as queued - a dream delivered today, a *)
(* notice no longer pending, a proactive slot used - is in its saved       *)
(* outbox, or has left the queue: a restart does not lose a word.          *)
SentIsSaved ==
  \A s \in Sids : Bound(disk[s]) => disk[s].sent \subseteq IdsOf(disk[s].block) \cup left

(* What affect_reset cleared does not come back. *)
ResetForgets == \A s \in Sids : IdsOf(queue[s]) \cap reset = {}

(* The agent is only handed words of the life that runs, and each of them   *)
(* is in the account of that life: nothing a sealed life left behind in     *)
(* queue, block or file is told as hers, and no word is told whose slot,    *)
(* flag or notice a save, a restart or a new life has given back.           *)
OnlyHerWords ==
  [][\A s \in Sids : \A i \in queue[s] :
       i.id \in hand'[s] \ hand[s]
         => Bound(mem[s]) /\ i.gen = mem[s].gen /\ i.id \in mem[s].sent]_vars

(* Where an utterance is; an item saved with a bound record still waits.   *)
Waits(i) == \E s \in Sids : \/ i \in hand[s] \cup IdsOf(queue[s])
                            \/ Bound(disk[s]) /\ i \in IdsOf(disk[s].block)

Utterance(i) == CASE told[i] > 0                        -> "told"
                  [] told[i] = 0 /\ Waits(i)            -> "waiting"
                  [] told[i] = 0 /\ ~Waits(i) /\ i <= created -> "gone"
                  [] i > created                        -> "none"

Words == INSTANCE Utterances WITH Words <- Ids, tellings <- told,
                                  state <- [i \in Ids |-> Utterance(i)]

(* At-most-once delivery, across crashes, restarts and new lives. *)
ToldOnce == Words!Spec

(* Every word that waits is told in the end, or dropped. *)
WordsSettle == \A i \in Ids : Waits(i) ~> ~Waits(i)
==============================================================================
