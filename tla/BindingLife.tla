----------------------------- MODULE BindingLife -----------------------------
(***************************************************************************)
(* The life of the bindings of one Yelos data directory: the records of    *)
(* BindingStore in memory and in bindings.json, the append-only            *)
(* plasticity.ledger, the daily settlement (rollover), and the handlers of *)
(* SessionManager that move them, cut where they await, where the process  *)
(* can be killed, and between the ledger row and the save.                 *)
(*                                                                         *)
(* asyncio: a handler runs alone until it awaits; the handlers of one      *)
(* session hold its lock from start to end.  pc[s] says where the handler  *)
(* of session s is.  A handler at "saving" has not awaited yet: it holds   *)
(* the event loop, and only a crash can come between it and its save.      *)
(*                                                                         *)
(* Plasticity is counted in halves of base = 1/Lifespan: a life starts at  *)
(* 2*Lifespan, an active day costs 2, a high-intensity event 1 more, and   *)
(* a day never more than 4.                                                *)
(***************************************************************************)
EXTENDS Integers

CONSTANTS Sids,         \* the sessions
          Lifespan,     \* lifespan_active_days; positive: finitude is on
          DefaultMode,  \* default_mode of the configuration
          Faults,       \* the faults this environment has, see FaultKinds
          MaxDay,       \* bound: the last calendar day
          MaxGen,       \* bound: the last generation that can be hatched
          MaxCrashes    \* bound: how often the process is killed

(***************************************************************************)
(* "append":  the OSError of a ledger append is swallowed                  *)
(* "torn":    a crash cuts the last ledger line before its newline         *)
(* "abort":   a handler is cancelled, or the engine raises, at an await    *)
(* "corrupt": a crash leaves bindings.json unreadable (save has no fsync)  *)
(* "clock":   the local calendar day may step back                         *)
(***************************************************************************)
FaultKinds == {"append", "torn", "abort", "corrupt", "clock"}
Modes      == {"steward", "companion"}
P0         == 2 * Lifespan
NoRow      == P0 + 1        \* no ledger row: above every P, so min ignores it

ASSUME LifespanAssumption == Lifespan \in Nat \ {0}
ASSUME ModeAssumption     == DefaultMode \in Modes
ASSUME FaultsAssumption   == Faults \subseteq FaultKinds
ASSUME BoundsAssumption   == /\ MaxDay \in Nat \ {0}
                             /\ MaxGen \in Nat
                             /\ MaxCrashes \in Nat

VARIABLES mem,      \* BindingStore._data: a record per session (gen 0: none)
          disk,     \* bindings.json: what the last save wrote
          ledger,   \* plasticity.ledger: the last P of a session's generation
          tail,     \* whether the ledger file ends in a torn line
          pc,       \* where the handler of each session is
          up,       \* whether the process runs
          today,    \* the local calendar day
          crashes   \* how often the process was killed

vars == <<mem, disk, ledger, tail, pc, up, today, crashes>>

Days   == 1..MaxDay
Epochs == 0..4
Marks  == {"interacted", "active_seen"}

Record ==
  [gen : 0..MaxGen, mode : Modes, status : {"bound", "sealed"}, p : 0..P0,
   born : Days, day : Days,
   marks : SUBSET Marks,      \* daily.interacted and daily.active_seen
   high : 0..2,
   epoch : Epochs,      \* the last entry of epoch_history, 0 when it is empty
   notice : Epochs]     \* pending_epoch_notice, 0 for None

Awaiting == {"submit", "feed", "tick", "shadow"}

TypeOK ==
  /\ mem \in [Sids -> Record]
  /\ disk \in [Sids -> Record]
  /\ ledger \in [Sids -> [1..MaxGen -> 0..NoRow]]
  /\ tail \in {"clean", "torn"}
  /\ pc \in [Sids -> Awaiting \cup {"idle", "saving"}]
  /\ up \in BOOLEAN
  /\ today \in Days
  /\ crashes \in 0..MaxCrashes

------------------------------------------------------------------------------
(* core/finitude.py: the settlement of a day and the epochs. *)

(* The five epochs, 0 (in her prime) to 4 (still), at .6, .3, .15 and 0. *)
EpochOf(p) == CASE 10 * p > 6 * P0                     -> 0
                [] 10 * p <= 6 * P0 /\ 10 * p > 3 * P0 -> 1
                [] 10 * p <= 3 * P0 /\ 20 * p > 3 * P0 -> 2
                [] 20 * p <= 3 * P0 /\ p > 0           -> 3
                [] p <= 0                              -> 4

Spend(high) == IF 2 + high > 4 THEN 4 ELSE 2 + high

(* Bug: the new P is not floored at zero. *)
SettleDay_NoFloor(p, wasActive, high) == IF wasActive THEN p - Spend(high) ELSE p

SettleDay(p, wasActive, high) ==
  IF ~wasActive THEN p
  ELSE IF p > Spend(high) THEN p - Spend(high) ELSE 0

(* settle_fn: only a companion ages. *)
Settled(r) == IF r.mode = "companion"
              THEN SettleDay(r.p, r.marks = Marks, r.high)
              ELSE r.p

(* Bug: the daily block is settled but not replaced, so it settles again. *)
Rolled_DailyKept(r) == IF r.day = today THEN r ELSE [r EXCEPT !.p = Settled(r)]

(* Bug: the epochs are compared after P was lowered. *)
Rolled_ComparesAfter(r) ==
  IF r.day = today THEN r
  ELSE [r EXCEPT !.p = Settled(r), !.day = today, !.marks = {}, !.high = 0]

(* BindingStore.rollover and the epoch bookkeeping of _do_rollover. *)
Rolled(r) ==
  IF r.day = today THEN r
  ELSE LET p     == Settled(r)
           moved == EpochOf(p) # EpochOf(r.p)
       IN [r EXCEPT !.p = p, !.day = today, !.marks = {}, !.high = 0,
                    !.epoch  = IF moved THEN EpochOf(p) ELSE r.epoch,
                    !.notice = IF moved THEN EpochOf(p) ELSE r.notice]

(* _new_binding and stamp_new_life. *)
Hatched(gen, mode) ==
  [gen |-> gen, mode |-> mode, status |-> "bound", p |-> P0, born |-> today,
   day |-> today, marks |-> {}, high |-> 0, epoch |-> 0, notice |-> 0]

Raised(high) == IF high < 2 THEN high + 1 ELSE 2   \* a third event costs nothing

(* The engine reported an active relation, or did not. *)
Seen(r, active) == IF active THEN [r EXCEPT !.marks = @ \cup {"active_seen"}] ELSE r

NoRecord == [gen |-> 0, mode |-> DefaultMode, status |-> "bound", p |-> P0,
             born |-> 1, day |-> 1, marks |-> {}, high |-> 0,
             epoch |-> 0, notice |-> 0]

Born(r)  == r.gen > 0
Bound(r) == Born(r) /\ r.status = "bound"       \* bound_umos

(* PlasticityLedger.effective_p for the record r of session s. *)
Effective(s, r) == IF Born(r) /\ ledger[s][r.gen] < r.p THEN ledger[s][r.gen]
                   ELSE r.p

------------------------------------------------------------------------------
(* PlasticityLedger.append: a row follows the tail of the file; glued to a *)
(* torn line it is unreadable, and its own newline ends the damage.        *)
Append(s, gen, p) ==
  \/ /\ tail = "clean"
     /\ ledger' = [ledger EXCEPT ![s][gen] = p]
     /\ UNCHANGED tail
  \/ /\ tail = "torn"
     /\ tail' = "clean"
     /\ UNCHANGED ledger
  \/ /\ "append" \in Faults
     /\ UNCHANGED <<ledger, tail>>

(* Bug: the settlement leaves no row. *)
AppendIfFell_Silent(s, before, after) == UNCHANGED <<ledger, tail>>

(* The ledger part of _do_rollover: a row only when P fell. *)
AppendIfFell(s, before, after) ==
  IF after.p < before.p THEN Append(s, before.gen, after.p)
  ELSE UNCHANGED <<ledger, tail>>

LoopFree == \A s \in Sids : pc[s] # "saving"

(* A handler of s may start: process up, event loop free, lock free. *)
Enter(s) == up /\ LoopFree /\ pc[s] = "idle"

(* Store.save writes the records of all sessions. *)
SaveAll == disk' = mem'

Goto(s, place) == pc' = [pc EXCEPT ![s] = place]
Update(s, r)   == mem' = [mem EXCEPT ![s] = r]

(* affect_submit: implicit bind of an unbound session or rollover; the     *)
(* agent's own words are saved at once, the user's wait for the engine.    *)
Submit(s, speaker) ==
  /\ Enter(s)
  /\ mem[s].status = "bound"
  /\ LET r == IF Born(mem[s]) THEN Rolled(mem[s]) ELSE Hatched(1, DefaultMode)
     IN /\ IF Born(mem[s]) THEN AppendIfFell(s, mem[s], r) ELSE Append(s, 1, P0)
        /\ IF speaker = "user"
           THEN Update(s, [r EXCEPT !.marks = @ \cup {"interacted"}]) /\ Goto(s, "submit")
           ELSE Update(s, r) /\ Goto(s, "saving")
  /\ MaxGen >= 1
  /\ UNCHANGED <<disk, up, today, crashes>>

(* The engine answered: an active relation marks the day; a companion's    *)
(* words then go to the shadow engine, which is awaited again.             *)
SubmitAnswered(s, active, fed) ==
  /\ up /\ LoopFree /\ pc[s] = "submit"
  /\ fed => mem[s].mode = "companion"
  /\ Update(s, Seen(mem[s], active))
  /\ IF fed THEN Goto(s, "feed") /\ UNCHANGED disk
     ELSE Goto(s, "idle") /\ SaveAll
  /\ UNCHANGED <<ledger, tail, up, today, crashes>>

ShadowFed(s) ==
  /\ up /\ LoopFree /\ pc[s] = "feed"
  /\ Goto(s, "idle")
  /\ UNCHANGED mem /\ SaveAll
  /\ UNCHANGED <<ledger, tail, up, today, crashes>>

(* affect_arbitrate of a companion: rollover, and a high-intensity swallow *)
(* counts towards the day that just began.                                 *)
Arbitrate(s, swallow) ==
  /\ Enter(s)
  /\ Bound(mem[s]) /\ mem[s].mode = "companion"
  /\ LET r == Rolled(mem[s])
     IN /\ AppendIfFell(s, mem[s], r)
        /\ Update(s, [r EXCEPT !.high = IF swallow THEN Raised(@) ELSE @])
  /\ Goto(s, "saving")
  /\ UNCHANGED <<disk, up, today, crashes>>

(* _heartbeat_step: rollover, then the tick of the engine is awaited. *)
HeartbeatStart(s) ==
  /\ Enter(s)
  /\ Bound(mem[s]) /\ mem[s].mode = "companion"
  /\ AppendIfFell(s, mem[s], Rolled(mem[s]))
  /\ Update(s, Rolled(mem[s]))
  /\ Goto(s, "tick")
  /\ UNCHANGED <<disk, up, today, crashes>>

(* After the tick: a silenced session is saved, the others read the shadow. *)
HeartbeatTicked(s, active, silenced) ==
  /\ up /\ LoopFree /\ pc[s] = "tick"
  /\ Update(s, Seen(mem[s], active))
  /\ IF silenced THEN Goto(s, "idle") /\ SaveAll
     ELSE Goto(s, "shadow") /\ UNCHANGED disk
  /\ UNCHANGED <<ledger, tail, up, today, crashes>>

(* After the shadow: a first concern of the day is a high-intensity event, *)
(* and a pending epoch notice leaves for the outbox unless it is quiet or  *)
(* frozen.                                                                 *)
HeartbeatDone(s, concern, quiet) ==
  /\ up /\ LoopFree /\ pc[s] = "shadow"
  /\ Update(s, [mem[s] EXCEPT !.high = IF concern THEN Raised(@) ELSE @,
                              !.notice = IF quiet THEN @ ELSE 0])
  /\ Goto(s, "idle")
  /\ SaveAll
  /\ UNCHANGED <<ledger, tail, up, today, crashes>>

(* Bug: a bound session can be bound anew. *)
BindNew_AnySession(s, mode) ==
  /\ Enter(s) /\ mem[s].gen < MaxGen
  /\ Append(s, mem[s].gen + 1, P0)
  /\ Update(s, Hatched(mem[s].gen + 1, mode))
  /\ Goto(s, "saving")
  /\ UNCHANGED <<disk, up, today, crashes>>

(* affect_bind of an unbound or sealed session: the next generation. *)
BindNew(s, mode) ==
  /\ Enter(s)
  /\ ~Bound(mem[s])
  /\ mem[s].gen < MaxGen
  /\ Append(s, mem[s].gen + 1, P0)
  /\ Update(s, Hatched(mem[s].gen + 1, mode))
  /\ Goto(s, "saving")
  /\ UNCHANGED <<disk, up, today, crashes>>

(* affect_bind of a bound session: named, or raised to companion for good. *)
BindExisting(s, mode) ==
  /\ Enter(s)
  /\ Bound(mem[s])
  /\ Update(s, [mem[s] EXCEPT !.mode = IF mode = "companion" THEN mode ELSE @])
  /\ SaveAll
  /\ UNCHANGED <<ledger, tail, pc, up, today, crashes>>

(* affect_pause, unsilence and affect_impulse: nothing here moves, all is saved. *)
SaveOnly(s) ==
  /\ Enter(s)
  /\ Bound(mem[s])
  /\ UNCHANGED mem /\ SaveAll
  /\ UNCHANGED <<ledger, tail, pc, up, today, crashes>>

(* The second affect_farewell: sealed in memory, a seal row, then the save. *)
Seal(s) ==
  /\ Enter(s)
  /\ Bound(mem[s])
  /\ Append(s, mem[s].gen, mem[s].p)
  /\ Update(s, [mem[s] EXCEPT !.status = "sealed"])
  /\ Goto(s, "saving")
  /\ UNCHANGED <<disk, up, today, crashes>>

(* The save at the end of a handler that never awaited after its ledger row. *)
Save(s) ==
  /\ up /\ pc[s] = "saving"
  /\ Goto(s, "idle")
  /\ UNCHANGED mem /\ SaveAll
  /\ UNCHANGED <<ledger, tail, up, today, crashes>>

(* A cancelled call, or an engine that raises: the lock is left, nothing saved. *)
Abort(s) ==
  /\ "abort" \in Faults
  /\ up /\ LoopFree /\ pc[s] \in Awaiting
  /\ Goto(s, "idle")
  /\ UNCHANGED <<mem, disk, ledger, tail, up, today, crashes>>

------------------------------------------------------------------------------
(* Bug: the restart trusts bindings.json alone. *)
Load_NoMerge ==
  /\ ~up
  /\ up' = TRUE
  /\ mem' = disk
  /\ UNCHANGED <<disk, ledger, tail, pc, today, crashes>>

(* SessionManager.load, after BindingStore._load: every bound record takes *)
(* the older of its own P and its ledger row, and the table is saved.      *)
Load ==
  /\ ~up
  /\ up' = TRUE
  /\ mem' = [s \in Sids |-> IF Bound(disk[s])
                            THEN [disk[s] EXCEPT !.p = Effective(s, disk[s])]
                            ELSE disk[s]]
  /\ SaveAll
  /\ UNCHANGED <<ledger, tail, pc, today, crashes>>

(* SessionManager.close: handlers in flight are cancelled, the table is saved. *)
Close ==
  /\ up /\ LoopFree
  /\ up' = FALSE
  /\ disk' = mem
  /\ mem' = [s \in Sids |-> NoRecord]
  /\ pc' = [s \in Sids |-> "idle"]
  /\ UNCHANGED <<ledger, tail, today, crashes>>

(* The process is killed; a power cut may also tear the ledger line being  *)
(* written, or leave bindings.json unreadable: _load then starts empty.    *)
Crash(torn, corrupt) ==
  /\ up /\ crashes < MaxCrashes
  /\ torn => "torn" \in Faults /\ LoopFree
  /\ corrupt => "corrupt" \in Faults
  /\ up' = FALSE
  /\ crashes' = crashes + 1
  /\ tail' = IF torn THEN "torn" ELSE tail
  /\ disk' = IF corrupt THEN [s \in Sids |-> NoRecord] ELSE disk
  /\ mem' = [s \in Sids |-> NoRecord]
  /\ pc' = [s \in Sids |-> "idle"]
  /\ UNCHANGED <<ledger, today>>

(* The calendar: forward, or back where the clock can be set or travels. *)
DayTurns(d) ==
  /\ LoopFree
  /\ d > today \/ "clock" \in Faults
  /\ d # today
  /\ today' = d
  /\ UNCHANGED <<mem, disk, ledger, tail, pc, up, crashes>>

------------------------------------------------------------------------------
Init ==
  /\ mem = [s \in Sids |-> NoRecord]
  /\ disk = [s \in Sids |-> NoRecord]
  /\ ledger = [s \in Sids |-> [g \in 1..MaxGen |-> NoRow]]
  /\ tail = "clean"
  /\ pc = [s \in Sids |-> "idle"]
  /\ up = TRUE
  /\ today = 1
  /\ crashes = 0

Handler(s) ==
  \/ \E speaker \in {"user", "agent"} : Submit(s, speaker)
  \/ \E active, fed \in BOOLEAN : SubmitAnswered(s, active, fed)
  \/ ShadowFed(s)
  \/ \E swallow \in BOOLEAN : Arbitrate(s, swallow)
  \/ HeartbeatStart(s)
  \/ \E active, silenced \in BOOLEAN : HeartbeatTicked(s, active, silenced)
  \/ \E concern, quiet \in BOOLEAN : HeartbeatDone(s, concern, quiet)
  \/ \E mode \in Modes : BindNew(s, mode)
  \/ \E mode \in Modes : BindExisting(s, mode)
  \/ SaveOnly(s)
  \/ Seal(s)
  \/ Save(s)
  \/ Abort(s)

Next ==
  \/ \E s \in Sids : Handler(s)
  \/ Load
  \/ Close
  \/ \E torn, corrupt \in BOOLEAN : Crash(torn, corrupt)
  \/ \E d \in Days : DayTurns(d)

Spec == Init /\ [][Next]_vars

------------------------------------------------------------------------------
(* What a restart would load is what the process holds: at every moment,   *)
(* in the middle of any handler, the older of bindings.json and the ledger *)
(* is the P in memory (PlasticityLedger, _do_rollover before _persist).    *)
RestartAgrees ==
  \A s \in Sids : up /\ Bound(mem[s]) /\ disk[s].gen = mem[s].gen
                    => Effective(s, disk[s]) = mem[s].p

(* Since her birth she lost at most the cap of one day, 2*base, for every  *)
(* calendar day before today, plus one day for every crash: a crash        *)
(* between the ledger row and the save can charge one day twice, no more.  *)
AgingBounded ==
  \A s \in Sids : up /\ Born(mem[s])
                    => mem[s].p + 4 * (today - mem[s].born + crashes) >= P0

(* The same without the allowance: no day is charged twice. *)
AgingWithinDayCap ==
  \A s \in Sids : up /\ Born(mem[s])
                    => mem[s].p + 4 * (today - mem[s].born) >= P0

(* The epoch history ends with the epoch she is in, and a pending notice   *)
(* announces that epoch and no other.                                      *)
EpochRecorded ==
  \A s \in Sids : up /\ Born(mem[s])
                    => /\ mem[s].epoch = EpochOf(mem[s].p)
                       /\ mem[s].notice \in {0, mem[s].epoch}

(* ... as long as the process was never killed. *)
EpochRecordedUntilCrash == crashes = 0 => EpochRecorded

(* The rows of one generation in the ledger never rise: no younger again,  *)
(* whatever crashes, lost rows and restarts lie between them.              *)
LedgerNeverRises ==
  [][\A s \in Sids : \A g \in 1..MaxGen : ledger'[s][g] <= ledger[s][g]]_vars

(* The durable life of each session, as a restart would read it, behaves   *)
(* as Aging promises.                                                      *)
durableLife == [s \in Sids |-> [gen    |-> disk[s].gen,
                                p      |-> Effective(s, disk[s]),
                                status |-> disk[s].status]]

Durable == INSTANCE Aging WITH Full <- P0, life <- durableLife

DurableSpec == Durable!Spec
==============================================================================
