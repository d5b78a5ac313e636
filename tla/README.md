# Yelos in TLA+

Yelos is an MCP server that gives an agent a companion ("she"): a binding per
session that is born, ages by the days it is really lived, dreams, says a few
words of her own and can be sealed for ever. One process owns one data
directory; inside it, asyncio handlers interleave at every `await`, each under
the lock of its session, over one table that is saved as a whole. What is hard
in this code is not any one function but *when* things become durable and *what
another handler, another session or a restart sees in between*. That is what
this project models.

Paths below are relative to the repository; `session.py` is
`src/yelos/session.py`, and so on.

## 1. Inventory

### Components

| component | state it keeps | operations | correct when |
|---|---|---|---|
| binding store (`core/binding.py`) | `_data`: one record per session (mode, status, P, daily block, epochs, outbox block, generation) | hatch, seal, `rollover`, `lower_p`, `save` (whole table, tmp + `os.replace`, no fsync), `_load` (an unreadable file means an empty table) | a life only ages; a sealed one stays sealed; generations are never reused |
| plasticity ledger (`persistence.py`) | append-only file, one row per fall of P, per birth and per seal | `append` (fsync, errors swallowed), `effective_p` (skips what it cannot read) | with `bindings.json` it always yields the P the process had |
| process lock, start and stop (`persistence.py`, `__main__.py`) | the lock file, the OS lock on its inode, the diagnostic text | `acquire`, `release`; lock, build the manager, serve, close, release | one owner at a time; nobody is refused by a dead one; nothing loaded before the lock |
| finitude kernel (`core/finitude.py`) | none | `settle_day`, `epoch`, `epoch_transition` | a day costs 0..2 base units, never below zero |
| session manager (`session.py`) | locks, caches, feed tasks, heartbeat cursor | `submit`, `arbitrate`, `impulse`, `bind`, `load`, `close`, `heartbeat_loop`, `_heartbeat_step`, `_do_rollover`, `_persist` | every handler leaves memory, table, ledger and queue in agreement |
| outbox (`outbox.py`) | a queue per session; its copy in the record | the `make_*` factories, `enqueue`, `drain_due`, `purge`, `serialize`, `load_records` | each utterance is told at most once, in its window, in its life |
| sovereignty (`sovereignty.py`) | `FarewellGate._pending`, silence until | `pause`, `reset`, two-step `farewell` | a life ends only by a fresh, matching, second call, and then for good |
| arbiter kernel and deep arbiter (`core/arbiter.py`, `arbiter/`) | the gap and counters of the day, theta, a pending intervention | `arbitrate`, pipeline, `_apply_verdict`, settlement by the next words or the next day | interventions are spaced and rationed, counted once, and no policy is harsher than the core |
| intrinsic kernel and deep intrinsic (`core/intrinsic.py`, `intrinsic/`) | the daily block; the field, dream state, moments ledger | `decide`, `dream_tick`, `dream_ready`; policies, gate chain, recoil, dreamwork, field step or catch-up | the budget of a day, the gap, quiet hours, two unanswered words, one dream of one night |
| shadow kernel and deep shadow (`core/shadow.py`, `shadow/`) | baselines, armed concerns; predictions, calibration ledger, tiers | hysteresis, `inject_concern`; detectors, gate chain, settlement of predictions | one concern per type and day; each prediction settled once |
| deep finitude (`finitude/`) | the aging block, the extended ledger, the book's files | settlement in four models, two epoch tracks, forecast, anthology | never younger; a day is one row; the book agrees with the ledger |
| memory (`memory/`) | episodes (L1), semantic entries (L2), topics (L3), journal and cursor | observe, the night job, merge, split and death of topics, recall | every episode is summarised once, every entry is of a topic that lives |
| guidance (`guidance/`) | none | two compilers, rules, lattice, audit | the two agree, and the audit explains |
| voice (`primal/`, `core/primal.py`, `distill/`) | the corpus read | route of seats, gate, marks | never mute, never a word that faded |
| engine bridge (`engine_bridge.py`) | the affect engines (external) | `tick`, `submit`, `feed_back`, `reset`: every one awaited and allowed to raise | no state of ours is left half-changed by it |
| evolution (`evolution/`) | overlay, lineage ledger | runs, guards, rollback | the lineage explains what is in force |
| bench (`bench/`) | virtual clock, trace | replay of a scenario, its text format | the trace adds up, a scenario survives its text |
| configuration (`config.py`) | none | file, older file, environment, default, overlay | nothing hides what ranks above it |
| MCP server (`server.py`) | none | wrappers of the manager | (not modelled) |

### How they interact

* `main` takes the lock, builds the manager (`BindingStore._load`, then
  `SessionManager.load` merges the ledger and hydrates the queues), serves, and
  on the way out closes (cancel, save) and releases.
* A call of the agent (`affect_submit`, `affect_arbitrate`, `affect_impulse`,
  `affect_bind`, `affect_pause`, `affect_reset`, `affect_farewell`) takes the
  lock of its session, rolls the day over, changes the record, perhaps awaits
  the engine, and saves **the whole table**, the half-changed records of
  sessions whose handlers are waiting included.
* The heartbeat visits the bound sessions in rotation under the same locks:
  rollover, engine tick (await), dream, shadow (await), epoch notice, own words, save.
* Words wait in the outbox until the agent polls `affect_impulse`; that is the
  only way out. The queue is copied into the record of *its* session just
  before that session saves.
* Feed-back tasks are started without being awaited and run outside the lock.

### What is hard

Crashes between the ledger row and the save; half a ledger line; a table
without fsync; saves of one session that write the record of another; values
read before an `await` and used after it (clock, quiet hours, day);
words fed back beside the lock; `close` that cancels handlers and saves what they left; the reply that is lost
after the queue was saved; tokens that are late, old, replaced or of another
session; the midnight rollover in the middle of everything. In the deep modules: several files
written one after the other with a journal or a ledger between them, jobs taken up
again after a kill, two implementations that must agree, rounding at boundaries. `PROJECT.json`,
"hazards", lists each at its line.

## 2. The modules

| module | models | state |
|---|---|---|
| `Aging` | abstract: what a life promises | `life` |
| `BindingLife` | store, ledger, settlement, load and close, handlers cut at their awaits | `mem`, `disk`, `ledger`, `tail`, `pc`, `up`, `today` |
| `Utterances` | abstract: what the outbox promises | `state`, `tellings` |
| `Outbox` | queues, blocks, saves, polls, replies, crashes, close, reset | `queue`, `mem`, `disk`, `hand`, `told`, `pc`, `now` |
| `Farewell` | the two-step farewell, its tokens, the anthology, the save that may fail | `mem`, `disk`, `files`, `pending`, `issued`, `commit`, `told`, `now` |
| `Heartbeat` | one session's day: gates, slots, gap, quiet hours, dreams, the clock read before the awaits | `mem`, `disk`, `reach`, `beat`, `spoken`, `now` |
| `ProcessLock` | several processes over one directory | `path`, `inodes`, `holder`, `fd`, `pid`, `disk`, `copy` |
| `Arbitration` | the verdict on a draft, applied, remembered and settled; four policies | `kept`, `turn`, `verdicts`, `policy`, `manner`, `now` |
| `Concern` | the shadow's concern: hysteresis and injections that raise | `concern`, `concernDisk`, `step`, `today` |
| `DeepShadow`, `Baselines` | detectors through the gate chain, predictions and their settlement; decayed histograms | `shadow`, `shadowDisk`, `rows`, `calls`; `channel`, `baseDay` |
| `Hearing` | what main and shadow session of the engine are told, under the lock and beside it; reset, echo of the agent | `soul`, `notes`, `feeds`, `glance`, `heard`, `call` |
| `Rotation` | which sessions a round of the heartbeat visits | `companions`, `cursor`, `batch`, `visiting` |
| `DeepIntrinsic`, `FieldClock` | policies, gates, the core they fall back to, recoil, deep dream, the rows of moments; the ts of the field | `mind`, `mindDisk`, `pulse`, `diary`; `fieldTs`, `wall` |
| `Wearing`, `DeepFinitude`, `Book` | the four models as operators; the settlement of a day; forecast and anthology from the rows | `aging`, `agingDisk`, `settled`; `life`, `lines`, `shelf`, `press` |
| `NightJob`, `Topics`, `Recall` | the night of the memory write by write; topics merged, split, dying; what a question finds | `flow`, `semantic`, `cursor`, `journal`; `topics`, `filed`; `pool` |
| `Guidance`, `Voice` | both compilers over one surface; the composer and its gate | `surface`, `advice`; `fade`, `uttered` |
| `Lineage`, `Bench`, `Dsl`, `Settings` | evolution; replay; the scenario's text; the start with its configuration | `lineage`, `overlay`; `time`, `trace`; `tree`, `script`; `file`, `env`, `config` |
| `Session` | `Arbitration`, `Concern`, `DeepShadow`, `Baselines` and `Hearing` as the parts of one session | `part` and theirs |
| `Grown` | `FieldClock`, `DeepIntrinsic`, `DeepFinitude` and `Book` with their constants open | theirs |
| `Mind` | `Grown`, `NightJob`, `Topics`, `Recall`, `Lineage`, `Bench` and `Settings` beside each other | `part` and theirs |
| `MC*` | constants, fault sets and symmetry for TLC; `MCProcessLock` puts the lock beside `Rotation`, `MCMind` puts `Guidance`, `Voice` and `Dsl` beside `Mind` | `loop`; `part` |
| `BindingLifeProofs`, `OutboxProofs`, `HeartbeatProofs`, `ProcessLockProofs`, `FarewellProofs`, `SessionProofs`, `GrownProofs`, `MindProofs` | theorems; `Session` has those of `Arbitration`, `Mind` those of `Grown` | |

They are separate because they share little: `BindingLife` has P and the
ledger but no words, `Outbox` the words without P, `Heartbeat` the day and the
clock of one session, `Farewell` the seal. Each keeps the *whole* handler as
far as its own state goes; the part another module has is left out of its
state and not of its steps. `HeartbeatDone` of `BindingLife`, `BeatDone` of
`Outbox` and `BeatDone` of `Heartbeat` are the same code seen from three sides; `submit` is
seen once more by `Hearing`, and the beat by `Concern` and `DeepIntrinsic`.

The deep modules and the tools share no state with one another at all. `Session` and
`Mind` therefore state them as a sum and not as a product: a variable `part`, chosen in
`Init` and never changed, says which of them moves, and the others stand still.
A property of such a run is a conjunction, one conjunct per part (`part = "night" => ...`); the
names it gathers are defined, each with its own comment, in the module of the part.

**Atomicity.** A handler runs alone until it awaits, so an action reaches from
one await to the next. In `BindingLife` the save that follows a ledger row
without an await is a step of its own (`pc = "saving"`): no other handler may
run before it (`LoopFree`), but the process can be killed there. In `DeepIntrinsic` a beat
decides, and with that appends the row of its decision, in one step and saves in the next (`BeatDecides`, `BeatDone`);
the memory modules and `Lineage` have a step for each file they write. In the other
modules a handler that does not await between its first change and its save is
one step, because a kill in the middle loses only memory.

**Abstractions.** P is counted in halves of `base = 1/Lifespan` (a life has
`2*Lifespan`, a day costs 2, 3 or 4), so the settlement is exact integer
arithmetic; the epochs keep their thresholds .6, .3, .15 and 0. `Heartbeat` takes
P in quarters, because only `ceil(base*p)` and `p >= .3` matter there. A token is
its serial number, an anthology file the life whose text it holds, an item its
identity, its life and its window. The clock is a tick counter with `DayLength` ticks in
a day; quiet hours are an interval of ticks. What the affect engine answers is a
free choice at each await, raising included where the run has that fault.

In the deep modules scores are percents, hundredths or thousandths with the code's own
rounding; hashes that pick a seat, a direction or a phrase are free choices, vectors
decide as they like, sentences are short sequences, a rule or a hint is its key. What
reads a file reads lines that may be missing, short or doubled where the code allows it.

**External code.** Only `Reply` (`Outbox`: the transport that carries the
answer of a poll) and `Die` (`ProcessLock`: the kernel closes the files of a
dead process) model code that is not in the repository.

## 3. The runs

All bounds are named constants of the modules and stand in the `.cfg` (those of `Guidance`, `Voice` and
`Dsl` in the `INSTANCE`s of `MCMind`).

| run | asks | bounds and faults |
|---|---|---|
| `life_abort` | does a restart always load the P the process had? is a day charged at most once, plus once per crash? is the epoch recorded? does the durable life implement `Aging`? | 1 session, 4 days, 2 lives, 2 crashes, lifespan 3, handlers cancelled at any await |
| `life_ledger` | do the rows of a generation never rise, with lost and torn rows? | 3 days, 2 lives, 2 crashes, lifespan 2 |
| `life_torn_row` (violation) | is the ledger the authority after a torn line? | lifespan 2, 2 crashes |
| `outbox_one` | is a word told at most once? is it of the life that runs, and in its account? is what is recorded as sent also saved? | 1 session, 2 words, 4 ticks over two days, 2 lives, 1 crash, orderly closes |
| `outbox_live` | is every word told or gone in the end, and never twice, with engines that raise and closes that cancel? | 3 ticks, 2 words, 1 crash, fairness |
| `outbox_shared` (violation) | does another session's save keep the dream of a waiting heartbeat? | 2 sessions, 1 word, 1 crash |
| `lock` | one owner, no lost update, refused only by the living, owned again; and does the rotation reach everyone? | 3 processes, lock calls that fail, 2 inodes, 3 saves, fairness; sessions that are bound and sealed between rounds |
| `farewell_two` | does only the last token of this session, life and run end a life? is its anthology its own? | 2 sessions of the same name, 3 tokens, 2 lives, 1 crash, exports and saves that fail |
| `heart_day` | `Restrained`: daily cap under a sinking P, gap, unanswered words | 6 ticks: a day of 5 and the next, 1 crash |
| `heart_night` | `InTheirTime` (quiet hours, the day of dreams and concerns), one dream a day, of one night | quiet hours that span midnight, 5 ticks in 2 days, cap 1, an engine that is slow or raises under every beat |
| `session` | arbitration, concern, deep shadow, baselines, what the engine hears | 2 verdicts over 3 instants under 4 policies, 1 crash; 2 days of beats, 1 fault; 3 fires in 4 half days; 4 ticks of 3 values; 3 turns, 2 feeds, 1 reset, 2 lives, 1 trouble |
| `mind` | intrinsic, field, finitude, book, night job, topics, recall, guidance, voice, lineage, replay, text, settings | see `MCMind`: 6 hours of two nights, 2 settled days, 3 episodes in 2 nights with 1 fault, 3 topics over 3 nights, 4 entries asked for twice under 3 scorers, 2 feelings at a time, 4 lineage lines, 3 events, trees of width 2, 2 edits |

**Why the bounds are enough.** A hazard of this code needs one or two of each
actor. Two crashes are enough to tear a line and lose the row after it; two
lives show every inheritance between a sealed life and the next; two sessions
show every effect of the shared table (the third would be a second "other");
four days pass every epoch threshold of a lifespan of three; two words show a
drain that tells one and drops another; three tokens show replaced, expired and
foreign ones at once; three processes give an owner, one with the file open and
one that finds only the path. `heart_*` cover one whole day and a
midnight on either side of the quiet hours. In `Session` and `MCMind` the bounds are
those of a part: a fault needs a state before it, itself, and a
restart after it, and a merge needs two topics and a third that interferes. Where the code has a size (cap of L2,
group sizes, nights in a row, quota, window of averages) the constant is the smallest value at which the branch
is taken and not taken. Deadlock is checked in every run but `session` and `mind`:
in the modules of the others the system never stops before its bounds and the last
state always has a step; the parts of those two end when their bounds are reached.

**Properties that carry most.** `RestartAgrees` relates memory, table and ledger
in the middle of every handler. `DurableSpec` refines `Aging` by
`life <- durableLife`, the record a restart *would* read: so it says what no
sequence of crashes can do to a life. `ToldOnce` refines `Utterances` from
queue, block, hand and history. `ConsentedSeal` traces a seal back to the call that was
made. `Restrained` reads the words that reached
the agent, not the counters that were to bound them. `ShadowKept` and `Remembered` follow a word of the
user or of hers from the handler to the engine and through a reset that overtakes it. `Memory` relates five
files that are written one after the other. `NoDrift` (in `Words`) compares two independent compilers on every
surface. `WordsAreMoments` (in `Wishes`) compares the slots the record gives to the words of today, which are saved, with the rows of
moments, which are appended: they differ by no more than the words that have no row (those of the core the policies fall back to, of a
concern, those whose append failed or was off) and the kills between a row and its save. `NeverMute` is about the pool as it has
shrunk: the last resort is heard only where a sentence that is still in reach is itself forbidden.

**Mutants.** Every property of a passing run has a mutant in the module, an
operator with a comment that starts with "Bug:". It changes a mapped
definition the way a plausible slip would (a floor or reset dropped, a save
forgotten, a lock file unlinked, a slot booked at the poll instead of in the
queue), and the run then finds the property violated. In `session` and `mind`
a property has one mutant, in one of its parts.

**Fairness.** `outbox_live` assumes weak fairness of the clock, of the restart, of
an engine that answers and of a reply that arrives, and strong fairness of a poll:
the agent keeps polling, and asyncio locks are granted first come, first
served, so a poll that waits for a session gets its turn although heartbeats take the
lock again and again. No handler is assumed to be called. `lock` assumes
that processes are started again and go on (weak), and that neither a kill nor an error of the lock call comes each time
just before they take a free lock (strong on `Lock`); nothing is assumed to end. `Rotation`
assumes that the loop wakes, that a visit ends and the round after it (weak): `_heartbeat_one` catches what
raises. A session in `Hangs` has an engine that never answers and holds up the round of everyone; the run has none.

### Where the code and its words disagree

Two runs are violations and are recorded as findings: `life_torn_row` (the row
after a torn line is unreadable, though the ledger is said to survive crashes
better than the table) and `outbox_shared` (the dream of a waiting session is marked
delivered on disk by another session's save and lost by a crash).

Further configurations stand beside the runs and end in a counterexample that shows how far a stronger
property fails (`tlc -config X.cfg M`, with `M` the module of its group):

| configuration | property | what the trace shows |
|---|---|---|
| `life_corrupt` | `LedgerNeverRises` | after an unreadable table, generation 1 is used again |
| `outbox_reset` | `ResetForgets` | what `affect_reset` cleared comes back with a restart |
| `farewell_text` | `ResourceIsHers` | a bind whose save failed, the new life's anthology written over the old one's (same name), a crash that brings the old sealed record back: it now points to the other life's text |

Other statements of the repository are weakened in the property that is checked, with the stronger form beside it in the module:

* `BindingLife`: a crash between ledger row and save charges one day twice (`AgingWithinDayCap` fails, `AgingBounded` allows one per
  crash); a restart that lowers P from the ledger does not record the epoch (`EpochRecorded` fails once there was a crash).
* `Heartbeat`: `dream_ready` is not told that the day is frozen (`FrozenDaySilent` fails). `session.py:1639-1672` reads the clock before it
  awaits the engine and decides with it after, so a word may be queued hours after the `now` of its beat. The properties say what holds
  whatever the engine takes: a contact word is handed over in quiet hours only if its slow beat had carried it into them before it
  was queued; a dream or concern is told on the day it was queued; one dream is told for a day of the record. That a *calendar* day hears one
  dream needs quiet hours that span midnight (`QuietEnd < QuietStart`, the default, and `heart_night`): with hours 1..2 of a day of
  three ticks a beat begun the day before queues its dream beside that of the new day.
* `ProcessLock`: `persistence.py:127-130` takes every `OSError` of the lock call for a lock that is held, and tells the user that another
  process owns the directory; `Fail` is that refusal without an owner, and `RefusedByTheLiving` is about lock calls that work.
* `FieldClock`: `integrators.py:53` adds ticks to a ts that `session.py:1298` reads in seconds, so with the default interval
  a regular beat soon catches up and no longer feels the engine (`RegularBeatFeels` fails; the lag is bounded).
* `Arbitration`: a recovering TRIM and a verdict of the fallback are not counted in the budget of the day (`ConservativeBudgetAll` fails).
* `Lineage`: velocity (A3) and provenance (A4, `theory/evolution/axioms.md`) hold only without rollbacks or breaks (`SlowDriftAlways` fails),
  and the default velocity never moves the one integer gene.
* `Voice`: `composer.py:177-180` calls the last resort structurally unreachable; a lexicon sentence that is itself forbidden reaches it.
* `Recall`: `session.py:566` says recall advances no state; it rehearses and saves, which `AskAgain` and `RecalledKept` bound. What was
  found is found again for every k, but not under `rrf`: its ranks are added, and a frequency stops growing (`scorers.py:45-46`). Of
  three entries used 9, 10 and 0 times, with relevance .3, .2 and .4 and 1, 3 and 2 days old, k = 2 finds the first two; rehearsed,
  they change places by frequency, and asked again k = 2 finds the first and the third. `AskAgain` says that some of the answer stays.
  An absence is counted to the *UTC* end of the *local* day (`facade.py:52-55`), hence off by one away from UTC (`Skews`, `NoteOfAbsence`).
* `Topics`: two merges of one night that share a topic are made one after the other, and the second may find its elder or its younger
  dead of the first. What then happens to the entries is named in the history (`buried`, `twice`), and
  it and a death of the process between the two files are all that `FiledOnce` and `NotBuried` except.
* `NightJob`: a job cut between its two files and redone in a later night, with more to summarise, leaves windows that overlap its own
  (`strays`); `SummarisedOnce` excepts these windows, besides torn episodes and a table written back from the cache, and not the job that is taken up in the same night.
* `DeepFinitude`: `ledger_ext.py:62-63` and `PlasticityLedger.append` swallow what their writes raise: the record goes on without the row. `DaysAreRows`
  counts these (`lost`), and only a kill that takes the record of such a day as well can make her younger (`DeepNeverYounger`).
* `Dsl`: `dsl.py:8` promises a round trip; a string of digits, an empty one and one with `#` do not make it (`RoundTripAlways` fails).
* `Bench`: the branch `runner.py:233` calls unreachable is reached by `agent_draft` and `agent_submit`.
* `Settings`: the two ports read the environment before the file (`FileBeforeEnvAlways` fails). `config.py:423` says a bad cell must not keep her
  from waking; a configured and evolved gene, or an infinite number, refuses the start (`AwakesAnyway` fails).
* `Book`: `chapters.py:121` tells "the words she still has" as the sum over all epochs; the property is about the rings, not that total.
* Four properties that held on the run were false for other constants, as their proofs showed, and are now stated as they are true. With
  `max_catchup_steps = 1` two intervals are still one step (`FieldLagBounded`); after a hundred swallowed words P stays at 0 (`TraceAddsUp`); the
  order parameter has no epoch after the last and announces that one again (`AnnouncedForward`); a row that is not written, or is the second of its
  day, may change the forecast by more than a day (`ForecastHonest`).
* `Hearing`: what the engine heard of a sealed life is still there for the next one of that session; only `affect_reset` empties it.

## 4. The proofs

TLAPS proves these for **every** value of the constants: any number of
sessions, processes, names, tokens, words, days, lives and crashes, any draft, text or detector.

| theorem | says | assumes |
|---|---|---|
| `BindingLifeProofs!LifeTypeCorrect` | `[]TypeOK`: in particular P stays in its range | nothing |
| `BindingLifeProofs!EpochIsRecorded` | `EpochRecordedUntilCrash` | nothing |
| `BindingLifeProofs!RowsAreExact`, `RestartsAgree` | `RestartAgrees`, and the invariant it rests on | no lost or torn row |
| `BindingLifeProofs!AgingIsBounded` | `AgingBounded` | no lost or torn row, a calendar that does not step back |
| `BindingLifeProofs!DurableImplementsAgingAborted` | `DurableSpec`, with abandoned handlers | no lost or torn row, no unreadable table |
| `BindingLifeProofs!LedgerMonotone` | `LedgerNeverRises`, with lost and torn rows | no abandoned handler, no unreadable table |
| `BindingLifeProofs!DurableImplementsAging` | `DurableSpec`, with lost and torn rows: the life a restart would read implements `Aging` | the same |
| `OutboxProofs!OutboxImplementsUtterances` | `ToldOnce`: the outbox implements `Utterances` | nothing |
| `OutboxProofs!OnlyHerWordsAreHanded` | `OnlyHerWords`, over any number of lives | nothing |
| `OutboxProofs!OutboxInvariant`, `OutboxTypeCorrect` | what both rest on; `[]TypeOK` | nothing |
| `HeartbeatProofs!HerWordsAreRationed` | `Restrained`, with slow and raising engines | nothing |
| `HeartbeatProofs!DreamsAreOfOneNight` | `DreamOfOneNight`, with slow and raising engines | nothing |
| `HeartbeatProofs!WordsKeepTheirTime` | `InTheirTime`, with slow and raising engines | nothing |
| `HeartbeatProofs!OneDreamADay` | `OneOfADay`, the first conjunct of `OneDream`, with slow and raising engines | nothing |
| `HeartbeatProofs!HeartbeatInvariant`, `HeartbeatTypeCorrect` | what they rest on; `[]TypeOK` | nothing |
| `SessionProofs!InterventionsAreSpaced`, `ConservativeKeepsItsBudget`, `EverySwallowIsRemembered`, `NarrowedSheSwallowsNothing`, `NoHarsherThanTheTable`, `OneRecoverWordADay`, `InterventionsSettleOnce`, `ArbitrationTypeCorrect`, `ArbitrationInvariant` | the properties of `Arbitration`, under every policy | nothing |
| `SessionProofs!SessionIsSpaced`, `SessionIsGentle`, `SessionRemembers`, `TheShadowIsKept`, `TheShadowStepsFairly` | `Spaced`, `Gentle`, `Remembered`, `ShadowKept`, `ShadowSteps` | nothing |
| `ProcessLockProofs!Mutex`, `LostUpdateFree`, `Refusal` | `MutualExclusion`, `NoLostUpdate`, `RefusedByTheLiving`, with lock calls that fail | nothing |
| `ProcessLockProofs!LoopsAreOrderly` | `Orderly`: nobody is left out of more than N/Cap rounds | nothing |
| `FarewellProofs!Irreversible`, `Consent`, `FarewellTypeCorrect` | `IrreversibleOnceTold`, `ConsentedSeal`, `[]TypeOK`, with failing exports and saves | nothing |
| `MindProofs!MindWishes` | `Wishes`: the lag of the field, the threshold of the core, dreams and falls, the slots of her words beside their rows, which may fail, be off or be cut from the save by a kill | nothing |
| `MindProofs!MindAged`, `MindNeverYounger` | `Aged`: each day in the ledger once, told forward, paid once, the book within the ledger; P does not rise but where a kill forgets a day whose row was lost | nothing |
| `MindProofs!MindForetold` | `ForecastHonest`, `LeftOutStaysOut` | nothing |
| `MindProofs!MindTools` | `Tools`: the lineage explains the overlay, the trace of a replay adds up, no setting hides one above it | nothing |
| `FarewellProofs!HerText` | `ResourceIsHers` | every save of the table succeeds (`farewell_text` shows it is needed) |

"Nothing" is: no more than the `ASSUME` of the module, which says what its constants are (naturals,
positive where the code clamps them, at least one name, finite sets of levels and detectors).

**BindingLife, with damaged ledgers.** `LedgerNeverRises` is not inductive: an appended P must be below the
row that is there. `IInv` adds, for each session, that memory is *ahead* of the table
(`Ahead`: the same life, no younger and not unsealed, or the life after a sealed one),
that an idle session is saved, that the row of a life is never below its P in memory,
and that generations the table does not know have no row below a full life. The
steps split into those that append and go on (`HeadKeeps`), those that only end a
handler (`TailKeeps`), the restart (`LoadKeeps`) and the stops; the refinement
then follows from what each of them does to `Effective`. An abandoned handler
breaks "idle means saved" and an unreadable table starts the generations
again, which is why both are assumed away. Neither assumption can be dropped: `life_corrupt` ends in a counterexample, and with `"abort"` a birth
whose handler was abandoned before its save, settled once and then lost by a crash leaves a row that the next birth raises.

**BindingLife, with abandoned handlers.** Every handler is shown to be a *move* of its session (`Moves`): it leaves
the years of its record alone, ages it by a settlement, hatches it or seals it, and writes the row that goes with that. A
rollover, a birth and a seal thus become one step each for the invariants: `EpochInv` (the epoch told is the epoch of P, and no later
life has a row), `ExactInv` (a life in memory *is* its row, the table is no younger than its row, a sealed record agrees with it,
and memory follows the table) and `YearsInv`, which counts: P has paid at most four halves for each day since birth and for each crash, and
one day less while today is not yet settled. A crash brings the unsettled block of an old day back, which is
exactly the day the count gains with it.

**Outbox.** `OInv`: an item has one owner and one form (`IdInv`), numbers are fresh (`FreshInv`), what was drained is on its way or told
and nowhere else, in no other session's queue or block either (`SpentInv`), and what waits is of the life that runs (`LifeInv`). The third is
what makes `Utterances` follow: a word that came back would be in a block after it was handed over, and every save that
takes a hand-over to disk writes the block without it. `OnlyHerWords` adds `SentInv`: what waits, in a queue or in a block, is in the
account of its record, in memory and on disk. `SentIsSaved` is false with a second session (`outbox_shared`) and stays with TLC.

**Heartbeat.** `HInv` says the same of two records, the one in memory and the one a crash would bring back: each accounts for *every* word
that was told or waits in it. `Rationed` gives each a slot, a time and a place in the unanswered row, `Dreamed` counts dreams, and
a record's count of beats is not above those of its night. A restart therefore needs no case of its own: it takes a record that was good.
`WordsKeepTheirTime` adds what each waiting word says of the instants left to it, from when it was `made`; for a word of a beat whose clock has
not moved since it began that rests on what the beat found when the quiet hours were read (`TimeInv`, `Aware`).

**Arbitration.** `ArbInv`: the record in memory and the saved one are each `Sound` (what is settled, and one more while one is pending, was made; what is counted for a day is within the total), memory is ahead (`Beyond`), every verdict of the history is counted in the saved record, and whatever its policy is on the gentle side
(`Gentle`). The part about the lattice is a case split over the table of the kernel and the modulated thresholds, for every draft and every learnt theta in -25..25.

**Session.** Its parts do not move together, so a step of one is a stutter of the others (`PartSteps`); the arbiter's theorems are
carried over operator by operator. `HearInv`: what outlived a reset was on its way when it ended, and is hers (`ForgetInv`); while no call has raised,
the engine is ahead of the shadow and of the cached surface, except between the two awaits of a reset (`AheadInv`); a turn held back from the
shadow is paid for by an echo of the agent (`EchoInv`). `ConInv`: the locals of a beat are the record it read and what it has done since, and a type
injected more than once has a fault to show for it (`Spent`). `DeepCore`: a fire has one prediction or one row, for each restart at most once more (`RowsInv`); two judgements in a row move a
tier (`JudgementIsEarned`). The quota of a window is bounded by unfolding the recursive sum of its rows once for each row (`Budgeted`, `Unfolded`, `WindowSlides`).

**Mind.** Its parts do not move together either. `WishInv`: while there was no kill, no dream is left untold when the night's mark is
set and two dreams have a call that raised to show for it (`DreamInv`); slots, rows and the words without a row agree while a beat has not
yet saved what it decided, and a kill there is counted (`WordInv`); a threshold that is armed or a phase that is low has seen the fall
since the last word (`FallInv`); the beats that count towards a night are all of it (`NightInv`). `FieldInv` bounds the lag of the field. `AgeInv`: the days lived, in memory and on
disk, differ from the settled days by the kills and the day under way (`RowsInv`); the reserve has no more in the fast pool than in
P (`PoolsInv`); what was paid for concerns has fired (`PaidInv`); the epoch last told is one P or the order parameter has reached (`ToldInv`). `BookInv`: a
row says no less P than the record and is of no later life (`LedgerInv`), the rings are as wide as the days since the life
began (`RingsInv`), the sheets still to be printed are the last ones and those printed are of the edition in
press, which is of a later life or knows more words than the one before (`PressInv`, `EditionInv`); a row that says how much also says how grave
(`WholeInv`). `LineInv`: lines are numbered upwards and the overlay is what the last line in force says, unless a write broke in
between. `BenchInv`: gaps are filled up to the clock, the proxy counts what the trace holds, and a farewell under way began after
the last reset. `SetInv`: a configuration in use is what `load` makes of file and environment.

**Recursive sums.** What a recursive definition computes is proved for a given function and set, and the induction is over a *set* of
numbers: the least number at which a statement about `f[n]` fails (`LeastNat`, from `NatLessThanWellFounded` and `WFMin`). The sums over finite sets of
the community modules, which pick an element by `CHOOSE`, are unfolded that way once (`GrownProofs`), and give the
sums over rows, rings and records.

**ProcessLock and Rotation.** `LockInv`: who is between lock and unlock holds the lock of the
inode it has open, and there is only one inode, because `release` never
removes the file. Mutual exclusion and the table of the owner follow. `RoundsInv`: who has waited `w` rounds has at least `w*Cap` places of
the list behind the cursor (`Distance`), however the list shrinks or grows between two rounds.

**Farewell.** `FInv`: tokens are numbered as they are handed out and only the
last one of a session is in flight (`TokensInv`); a call that was accepted holds
that token, of this life and run, and was in time (`CommitInv`); the table is
never ahead of memory (`DiskInv`, which is why a crash can undo a seal nobody was told
of, and never one that was told). `HerText` adds `TextInv`: without failing saves,
memory differs from the table only for the session of the call in progress, whose
saved record is still bound.

**Only model-checked.**

* Liveness (`WordsSettleOnce`, `LockFoundAgain`, `EveryoneVisited`): fairness and `ENABLED` are out of the prover's reach.
* `Session!TypeOK` and `BaselinesRight`: they speak of decayed weights (powers, divisions of products) and of medians of recursive histograms, beyond linear arithmetic.
  What the theorems of `Session` need of its types is proved as `HearTypes`, `ConTypes` and `DeepTypes`.
* `Mind!TypeOK` as one formula, and `Memory` with the two conjuncts of `MindSteps` that go with it (`DeadStaysDead`, `RecalledKept`): they speak of
  how lists of topics and of what was found are sorted. What the theorems of `Mind` need of its types is proved as `AgeTypes`, `BookTypes`, `LineTypes`, `BenchTypes` and so on.
* `SentIsSaved`, and the conjunct of `OneDream` about the calendar day (it is about the order of the quiet hours and of midnight).
* `Words`: `Dsl` is the one module with `RECURSIVE` operators, and `Voice` a gate over sentences that are given as data.
* `DurableSpec` when rows are lost *and* handlers are abandoned, in one behaviour, is left open.

## 5. Not modelled

* `server.py`: each tool calls one method of the manager. The WebUI, its event bus, drawings (`viz/`) and reports.
* The affect engines: external; an answer is a free choice. An engine that is absent altogether (every call of the bridge
  then answers nothing) and the sessions of further shadow hypotheses, which `reset_session` does not empty.
* Wording: phrases, prompts, the lexicon's content. A sentence matters only as what the gate, the shrinking pool
  or the parser tell apart.
* Numbers of the field's integration, of vectors and of clustering (`intrinsic/field`, `memory/l2_semantic/linalg_lite.py`): free choices
  of where they lead. The fitness and the metrics of the bench; training (`distill/trainer`).
* Export, archive and migration: `MemoryFacade.seal_export`, `shadow/migrations`, `arbiter/accounting/duel_corpus.py`.
* Keys of the configuration other than one of each kind. The heartbeat switched off runs a beat inside a poll: in
  `Heartbeat` it is a beat before it.
* fsync of directories and partial writes of `bindings.json`: `os.replace` is atomic, an
  unreadable file after a power cut is the fault `"corrupt"`.
* The notice of an epoch that a second one overwrites (`session.py:458`), and the day of a steward made a companion (`session.py:1920`).

## 6. Plan

Done: the default configuration (`Aging`, `BindingLife`, `Utterances`, `Outbox`, `Heartbeat`, `ProcessLock`, `Rotation`, `Farewell`,
`Arbitration`, `Concern`, `Hearing`), the deep shadow, intrinsic and finitude, evolution, replay and settings, with their proofs; memory and advice, model-checked.

Next, proofs: `NightJob` (`BehindTheCursor`), `Topics` (`ReplayAgrees`, which would follow from the sheet of the night) and `Recall`.

Then composition: `BindingLife`, `Outbox` and `Hearing` over one record. Abstract specifications worth adding: a *day*
(the slots and their order) that `Heartbeat`
implements, and a *verdict* that `Arbitration` implements.

## 7. Running it

```
tlc -workers 2 -config life_abort.cfg MCBindingLife
tlc -workers 2 -config mind.cfg MCMind
tlapm FarewellProofs.tla
```

`PROJECT.json` lists the runs, the mutants, the source lines of every
definition, the hazards and the theorems.
