------------------------------ MODULE OutboxProofs ------------------------------
(* The words of the outbox, for any number of sessions, words, lives and     *)
(* crashes: with engines that raise and closes that cancel, where a theorem  *)
(* does not say otherwise.                                                   *)
EXTENDS Outbox, TLAPS

(* The items that a session has, or that a restart would give it. *)
Held(s) == queue[s] \cup disk[s].block

(* An item has one owner, and one form. *)
IdInv ==
  \A s, t \in Sids : \A i \in Held(s), j \in Held(t) : i.id = j.id => s = t /\ i = j

(* Numbers are handed out in order. *)
FreshInv ==
  /\ \A s \in Sids : /\ \A i \in Held(s) : i.id <= created
                     /\ \A n \in hand[s] : n <= created
  /\ \A n \in Ids : told[n] > 0 => n <= created

(* What was drained is with the agent, or on its way, and nowhere else. *)
SpentInv ==
  /\ \A s, t \in Sids : \A i \in Held(s) : i.id \notin hand[t]
  /\ \A s \in Sids : \A i \in Held(s) : told[i.id] = 0
  /\ \A s \in Sids : \A n \in hand[s] : told[n] = 0
  /\ \A s, t \in Sids : s # t => hand[s] \cap hand[t] = {}
  /\ \A n \in Ids : told[n] <= 1

(* What waits is of the life it waits for, and a running process has the     *)
(* block of every session as it last saved it.                               *)
LifeInv ==
  \A s \in Sids :
    /\ \A i \in queue[s] \cup mem[s].block : i.gen = mem[s].gen
    /\ \A i \in disk[s].block : i.gen = disk[s].gen
    /\ pc[s] \in {"tick", "shadow"} => mem[s].gen > 0
    /\ up  => mem[s].block = disk[s].block /\ mem[s].status = disk[s].status
    /\ ~up => /\ mem[s] = NoRecord /\ queue[s] = {}
              /\ hand[s] = {} /\ pc[s] = "idle"

OInv == TypeOK /\ IdInv /\ FreshInv /\ SpentInv /\ LifeInv

(* What waits is in the account of its record, in memory and on disk. *)
SentInv ==
  \A s \in Sids :
    /\ IdsOf(queue[s]) \cup IdsOf(mem[s].block) \subseteq mem[s].sent
    /\ IdsOf(disk[s].block) \subseteq disk[s].sent

------------------------------------------------------------------------------
(* What a handler of s does to the words: it may add new ones of the life it *)
(* leaves, the others are where they were, with the agent, or gone.          *)
Block(s) == disk[s].block

HandlerMoves(s) ==
  /\ up /\ up' = up
  /\ created <= created'
  /\ \A t \in Sids \ {s} :
       /\ queue'[t] = queue[t] /\ mem'[t] = mem[t] /\ hand'[t] = hand[t] /\ pc'[t] = pc[t]
       /\ disk'[t] \in {disk[t], mem[t]}
  /\ \A i \in queue'[s] : i \in queue[s] \/ i.id > created
  /\ \A i \in queue'[s] : i.id <= created' /\ i.gen = mem'[s].gen
  /\ \A i, j \in queue'[s] : i.id = j.id /\ i.id > created => i = j
  /\ \A n \in Ids : n > created /\ n <= created' => n \in IdsOf(queue'[s])
  /\ mem'[s].block = disk'[s].block /\ mem'[s].status = disk'[s].status
  /\ Block(s)' \in {Block(s), queue'[s], {}}
  /\ Block(s)' = {} \/ disk[s].status = disk'[s].status \/ disk'[s].status = "sealed"
  /\ \A i \in Block(s)' : i.gen = mem'[s].gen /\ i.gen = disk'[s].gen
  /\ pc'[s] \in {"tick", "shadow"} => mem'[s].gen > 0

(* A poll takes words out of the queue, the reply reaches the agent, or      *)
(* neither.                                                                  *)
Untold(s) == told' = told /\ hand'[s] = hand[s]

Polled(s) ==
  /\ told' = told
  /\ hand'[s] \subseteq hand[s] \cup IdsOf(queue[s])
  /\ Block(s)' = queue'[s]
  /\ \A i \in queue'[s] : i \in queue[s] /\ i.id \notin hand'[s]

Replied(s) ==
  /\ queue'[s] = queue[s] /\ mem' = mem /\ disk' = disk
  /\ \A n \in Ids : told'[n] = IF n \in hand[s] THEN told[n] + 1 ELSE told[n]
  /\ hand'[s] = {}

Moves(s) == HandlerMoves(s) /\ (Untold(s) \/ Polled(s) \/ Replied(s))

LEMMA DivType ==
  ASSUME NEW a \in Nat, NEW d \in Nat \ {0}
  PROVE  /\ a \div d \in Nat /\ a \div d <= a
         /\ (a \div d) * d <= a /\ a < ((a \div d) + 1) * d
  BY SMT

LEMMA TodayType ==
  ASSUME TypeOK
  PROVE  Today \in Times /\ DayEnd \in Nat /\ now < DayEnd
  <1>1. now \in Nat /\ now <= MaxNow /\ DayLength \in Nat \ {0}
    BY BoundsAssumption DEF TypeOK
  <1>2. Today \in Nat /\ Today <= now /\ now < (Today + 1) * DayLength
    BY <1>1, DivType DEF Today
  <1>3. (Today + 1) * DayLength \in Nat
    BY <1>1, <1>2
  <1> QED
    BY <1>1, <1>2, <1>3, BoundsAssumption DEF Times, DayEnd

(* The factories make items. *)
LEMMA MakeType ==
  ASSUME TypeOK, NEW kind \in {"delayed", "proactive", "daily"}, NEW n \in Nat \ {0},
         NEW g \in 1..MaxGen, CanMake(n, kind)
  PROVE  Make(n, kind, g) \in Item /\ Make(n, kind, g).id = n /\ Make(n, kind, g).gen = g
         /\ n \in Ids
  <1>1. Expiry(kind) \in Nat /\ Expiry(kind) <= MaxNow
    BY TodayType, BoundsAssumption DEF TypeOK, CanMake, Expiry
  <1>2. kind = "delayed" => now + 1 \in Times
    BY <1>1, BoundsAssumption DEF TypeOK, Expiry, Times
  <1>3. Expiry(kind) \in Times /\ now \in Times /\ n \in Ids
    BY <1>1, BoundsAssumption DEF TypeOK, Times, Ids, CanMake
  <1> QED
    BY <1>2, <1>3 DEF Make, Item

LEMMA RolledType ==
  ASSUME TypeOK, NEW r \in Record, NEW epoch
  PROVE  /\ Rolled(r, epoch) \in Record
         /\ Rolled(r, epoch).gen = r.gen /\ Rolled(r, epoch).status = r.status
         /\ Rolled(r, epoch).block = r.block /\ Rolled(r, epoch).sent = r.sent
         /\ Rolled(r, epoch).until = r.until
  <1>1. Today \in Times
    BY TodayType
  <1>2. (r.flags \ {"dreamt"}) \cup (IF epoch THEN {"notice"} ELSE {}) \in SUBSET Flags
    BY DEF Record, Flags
  <1> QED
    BY <1>1, <1>2 DEF Rolled, Record

LEMMA NoRecordType ==
  /\ NoRecord \in Record /\ NoRecord.block = {} /\ NoRecord.sent = {} /\ NoRecord.gen = 0
  /\ NoRecord.status = "bound"
  BY BoundsAssumption DEF NoRecord, Record, Times

(* A new record of a life. *)
Born(g) == [NoRecord EXCEPT !.gen = g, !.day = Today]

LEMMA BornType ==
  ASSUME TypeOK, NEW g \in 1..MaxGen
  PROVE  /\ Born(g) \in Record /\ Born(g).block = {} /\ Born(g).sent = {}
         /\ Born(g).gen = g /\ Born(g).status = "bound"
  <1>1. Today \in Times /\ g \in 0..MaxGen
    BY TodayType, BoundsAssumption
  <1> QED
    BY <1>1, NoRecordType DEF Born, Record

------------------------------------------------------------------------------
(* The shapes the handlers share. *)

LEMMA ChangeType ==
  ASSUME TypeOK, NEW s \in Sids, NEW r \in Record, NEW q \in SUBSET Item, Change(s, r, q)
  PROVE  /\ mem' \in [Sids -> Record] /\ queue' \in [Sids -> SUBSET Item]
         /\ mem'[s] = r /\ queue'[s] = q
         /\ \A t \in Sids \ {s} : mem'[t] = mem[t] /\ queue'[t] = queue[t]
  BY DEF TypeOK, Change

LEMMA GotoType ==
  ASSUME TypeOK, NEW s \in Sids, NEW place \in {"idle", "submit", "tick", "shadow", "reset"},
         Goto(s, place)
  PROVE  /\ pc' \in [Sids -> {"idle", "submit", "tick", "shadow", "reset"}]
         /\ pc'[s] = place /\ \A t \in Sids \ {s} : pc'[t] = pc[t]
  BY DEF TypeOK, Goto

LEMMA PersistedType ==
  ASSUME NEW r \in Record, NEW q \in SUBSET Item
  PROVE  /\ Persisted(r, q) \in Record /\ Persisted(r, q).block = q
         /\ Persisted(r, q).gen = r.gen /\ Persisted(r, q).status = r.status
         /\ Persisted(r, q).sent = r.sent
  BY DEF Persisted, Record

(* Session s goes on with record r, its queue grown by words of its own     *)
(* life, saved or not.                                                       *)
Grown(s, r, new) ==
  /\ up /\ UNCHANGED <<up, told, hand>>
  /\ r.gen = mem[s].gen /\ r.status = mem[s].status
  /\ Change(s, r, queue[s] \cup new)
  /\ \/ SaveAll /\ r.block = queue[s] \cup new
     \/ UNCHANGED disk /\ r.block = mem[s].block
     \/ SaveAll /\ r.block = mem[s].block
  /\ created' \in Nat /\ created <= created'
  /\ \A i \in new : i.id > created /\ i.id <= created' /\ i.gen = mem[s].gen
  /\ \A i, j \in new : i.id = j.id => i = j
  /\ \A n \in Ids : n > created /\ n <= created' => n \in IdsOf(new)
  /\ \A t \in Sids \ {s} : pc'[t] = pc[t]
  /\ pc'[s] \in {"tick", "shadow"} => mem[s].gen > 0

LEMMA GrownMoves ==
  ASSUME OInv, NEW s \in Sids, NEW r \in Record, NEW new \in SUBSET Item, Grown(s, r, new)
  PROVE  Moves(s)
  <1> USE DEF Grown
  <1> DEFINE q == queue[s] \cup new
  <1>1. q \in SUBSET Item
    BY DEF OInv, TypeOK
  <1>2. /\ mem'[s] = r /\ queue'[s] = q
        /\ \A t \in Sids \ {s} : mem'[t] = mem[t] /\ queue'[t] = queue[t]
    BY <1>1, ChangeType DEF OInv
  <1>3. \A i \in queue[s] : i.id <= created /\ i.gen = mem[s].gen /\ i.id \in Nat
    BY BoundsAssumption DEF OInv, FreshInv, Held, LifeInv, TypeOK, Item, Ids
  <1>4. \A i \in new : i.id \in Nat
    BY BoundsAssumption DEF Item, Ids
  <1>5. created \in Nat
    BY BoundsAssumption DEF OInv, TypeOK
  <1>6. mem[s].block = disk[s].block /\ mem[s].status = disk[s].status
    BY DEF OInv, LifeInv
  <1>7. /\ \A i \in mem[s].block : i.gen = mem[s].gen
        /\ \A i \in disk[s].block : i.gen = disk[s].gen
    BY DEF OInv, LifeInv
  <1>8. /\ \A i \in q : i \in queue[s] \/ i.id > created
        /\ \A i \in q : i.id <= created' /\ i.gen = mem[s].gen
        /\ \A i, j \in q : i.id = j.id /\ i.id > created => i = j
    BY <1>3, <1>4, <1>5
  <1>9. \A n \in Ids : n > created /\ n <= created' => n \in IdsOf(q)
    BY DEF IdsOf
  <1>10. /\ mem'[s].block = disk'[s].block /\ mem'[s].status = disk'[s].status
         /\ disk'[s].status = disk[s].status /\ disk'[s].block \in {disk[s].block, q}
         /\ \A i \in disk'[s].block : i.gen = mem[s].gen /\ i.gen = disk'[s].gen
         /\ \A t \in Sids \ {s} : disk'[t] \in {disk[t], mem[t]}
    <2>1. CASE SaveAll /\ r.block = q
      BY <1>2, <1>6, <1>8, <2>1 DEF SaveAll
    <2>2. CASE UNCHANGED disk /\ r.block = mem[s].block
      BY <1>2, <1>6, <1>7, <2>2
    <2>3. CASE SaveAll /\ r.block = mem[s].block
      BY <1>2, <1>6, <1>7, <2>3 DEF SaveAll
    <2> QED
      BY <2>1, <2>2, <2>3
  <1> HIDE DEF q
  <1>11. HandlerMoves(s)
    BY <1>2, <1>8, <1>9, <1>10 DEF HandlerMoves, Block
  <1> QED
    BY <1>11 DEF Moves, Untold

(* What a handler keeps as it is. *)
Keeps == /\ told' = told /\ left' \subseteq Ids /\ reset' \subseteq left'
         /\ now' = now /\ crashes' = crashes

LEMMA SmallKeeps ==
  ASSUME TypeOK, UNCHANGED <<told, left, reset, now, crashes>>
  PROVE  Keeps
  BY DEF TypeOK, Keeps

LEMMA SaveType ==
  ASSUME TypeOK, mem' \in [Sids -> Record], SaveAll \/ UNCHANGED disk
  PROVE  disk' \in [Sids -> Record]
  BY DEF TypeOK, SaveAll

(* The types after a handler, from those of the parts. *)
LEMMA TypeKeeps ==
  ASSUME TypeOK, Keeps, UNCHANGED <<hand, up>>,
         queue' \in [Sids -> SUBSET Item], mem' \in [Sids -> Record],
         SaveAll \/ UNCHANGED disk, created' \in 0..MaxItems,
         pc' \in [Sids -> {"idle", "submit", "tick", "shadow", "reset"}]
  PROVE  TypeOK'
  <1>1. disk' \in [Sids -> Record]
    BY SaveType
  <1> QED
    BY <1>1 DEF TypeOK, Keeps

Keep(s) == TypeOK' /\ Moves(s)

(* The record and queue of s, when nothing is said of them. *)
LEMMA Records ==
  ASSUME OInv, NEW s \in Sids
  PROVE  /\ mem[s] \in Record /\ queue[s] \in SUBSET Item /\ disk[s] \in Record
         /\ created \in Nat /\ created <= MaxItems /\ now \in Nat /\ now <= MaxNow
         /\ mem[s].gen \in 0..MaxGen /\ mem[s].block \in SUBSET Item
  BY BoundsAssumption DEF OInv, TypeOK, Record

LEMMA Counters ==
  ASSUME OInv
  PROVE  created \in Nat /\ created <= MaxItems /\ Ids \subseteq Nat
  BY BoundsAssumption DEF OInv, TypeOK, Ids

LEMMA HeartbeatStartKeeps ==
  ASSUME OInv, NEW s \in Sids, NEW epoch \in BOOLEAN, HeartbeatStart(s, epoch)
  PROVE  Keep(s)
  <1> DEFINE r == Rolled(mem[s], epoch)
  <1>1. /\ r \in Record /\ r.gen = mem[s].gen /\ r.status = mem[s].status
        /\ r.block = mem[s].block
    BY Records, RolledType DEF OInv
  <1>2. Change(s, r, queue[s] \cup {})
    BY DEF HeartbeatStart, Change, OInv, TypeOK
  <1>3. mem[s].gen > 0
    BY DEF HeartbeatStart, Enter, Bound
  <1>4. /\ pc' \in [Sids -> {"idle", "submit", "tick", "shadow", "reset"}]
        /\ pc'[s] = "tick" /\ \A t \in Sids \ {s} : pc'[t] = pc[t]
    BY GotoType DEF HeartbeatStart, OInv
  <1>5. UNCHANGED <<disk, told, hand, up, created, left, reset, now, crashes>> /\ up
    BY DEF HeartbeatStart, Enter
  <1> HIDE DEF r
  <1>6. Moves(s)
    <2>1. Grown(s, r, {})
      BY <1>1, <1>2, <1>3, <1>4, <1>5, Records DEF Grown, Ids
    <2> QED
      BY <1>1, <2>1, GrownMoves
  <1>7. TypeOK'
    <2>1. mem' \in [Sids -> Record] /\ queue' \in [Sids -> SUBSET Item]
      BY <1>1, <1>2, Records, ChangeType DEF OInv
    <2> QED
      BY <1>4, <1>5, <2>1, SmallKeeps, TypeKeeps DEF OInv, TypeOK
  <1> QED
    BY <1>6, <1>7 DEF Keep

(* A handler whose step is Grown, and the rest of the state as it says.      *)
LEMMA GrownKeeps ==
  ASSUME OInv, NEW s \in Sids, NEW r \in Record, NEW new \in SUBSET Item, Grown(s, r, new),
         UNCHANGED <<left, reset, now, crashes>>, created' <= MaxItems,
         pc' \in [Sids -> {"idle", "submit", "tick", "shadow", "reset"}]
  PROVE  Keep(s)
  <1>1. queue[s] \cup new \in SUBSET Item
    BY Records
  <1>2. mem' \in [Sids -> Record] /\ queue' \in [Sids -> SUBSET Item]
    BY <1>1, ChangeType DEF OInv, Grown
  <1>3. created' \in 0..MaxItems
    BY BoundsAssumption, Records DEF Grown
  <1>4. Keeps
    BY SmallKeeps DEF OInv, Grown
  <1>5. TypeOK'
    BY <1>2, <1>3, <1>4, TypeKeeps DEF OInv, Grown
  <1> QED
    BY <1>5, GrownMoves DEF Keep

(* One word more, or none. *)
LEMMA MadeType ==
  ASSUME OInv, NEW s \in Sids, mem[s].gen > 0, NEW kind \in {"delayed", "proactive", "daily"},
         NEW n \in Nat \ {0}, CanMake(n, kind)
  PROVE  /\ Make(n, kind, mem[s].gen) \in Item
         /\ Make(n, kind, mem[s].gen).id = n /\ Make(n, kind, mem[s].gen).gen = mem[s].gen
         /\ n \in Ids
  <1>1. mem[s].gen \in 1..MaxGen
    BY Records, BoundsAssumption
  <1> QED
    BY <1>1, MakeType DEF OInv

LEMMA DreamStepKeeps ==
  ASSUME OInv, NEW s \in Sids, NEW armed \in BOOLEAN, DreamStep(s, armed)
  PROVE  Keep(s)
  <1> DEFINE r     == [mem[s] EXCEPT !.flags = @ \cup (IF armed THEN {"dream"} ELSE {})]
             id    == created + 1
             ready == "dream" \in r.flags /\ "dreamt" \notin r.flags /\ CanMake(id, "daily")
             r2    == IF ready THEN [r EXCEPT !.flags = (@ \ {"dream"}) \cup {"dreamt"},
                                              !.sent = @ \cup {id}]
                      ELSE r
             new   == IF ready THEN {Make(id, "daily", r.gen)} ELSE {}
             r3    == IF Silenced(r) THEN Persisted(r2, queue[s] \cup new) ELSE r2
  <1>1. /\ r \in Record /\ r.gen = mem[s].gen /\ r.status = mem[s].status
        /\ r.block = mem[s].block
    BY Records DEF Record, Flags
  <1>2. mem[s].gen > 0 /\ up /\ pc[s] = "tick"
    BY DEF DreamStep, OInv, LifeInv
  <1>3. ready => /\ Make(id, "daily", r.gen) \in Item /\ Make(id, "daily", r.gen).id = id
                 /\ Make(id, "daily", r.gen).gen = mem[s].gen /\ id \in Ids
    BY <1>1, <1>2, Records, MadeType
  <1>4. r2 \in Record /\ r2.gen = mem[s].gen /\ r2.status = mem[s].status /\ r2.block = mem[s].block
    <2>1. CASE ready
      <3>1. (r.flags \ {"dream"}) \cup {"dreamt"} \in SUBSET Flags /\ r.sent \cup {id} \in SUBSET Ids
        BY <1>1, <1>3, <2>1 DEF Record, Flags
      <3> HIDE DEF r, id, ready
      <3> QED
        BY <1>1, <2>1, <3>1 DEF Record
    <2>2. CASE ~ready
      BY <1>1, <2>2
    <2> QED
      BY <2>1, <2>2
  <1>5. new \in SUBSET Item /\ \A i \in new : ready /\ i = Make(id, "daily", r.gen)
    BY <1>3
  <1>6. /\ created' = IF ready THEN id ELSE created
        /\ UNCHANGED <<hand, told, left, reset, up, now, crashes>>
        /\ IF Silenced(r)
           THEN Change(s, r3, queue[s] \cup new) /\ SaveAll /\ Goto(s, "idle")
           ELSE Change(s, r3, queue[s] \cup new) /\ UNCHANGED disk /\ Goto(s, "shadow")
    <2>1. queue[s] \cup new
            = IF ready THEN queue[s] \cup {Make(id, "daily", r.gen)} ELSE queue[s]
      OBVIOUS
    <2> QED
      BY <2>1 DEF DreamStep
  <1>7. queue[s] \cup new \in SUBSET Item
    BY <1>5, Records
  <1>8. /\ r3 \in Record /\ r3.gen = mem[s].gen /\ r3.status = mem[s].status
        /\ r3.block = IF Silenced(r) THEN queue[s] \cup new ELSE mem[s].block
    <2> HIDE DEF r, r2, new
    <2>1. CASE Silenced(r)
      BY <1>4, <1>7, <2>1, PersistedType
    <2>2. CASE ~Silenced(r)
      BY <1>4, <2>2
    <2> QED
      BY <2>1, <2>2
  <1>9. \A n \in Ids : n > created /\ n <= created' => ready /\ n = id
    BY <1>6, Records DEF Ids
  <1>10. ready => id \in IdsOf(new)
    BY <1>3 DEF IdsOf
  <1>11. /\ created' \in Nat /\ created <= created' /\ created' <= MaxItems
         /\ \A i \in new : i.id > created /\ i.id <= created' /\ i.gen = mem[s].gen
    BY <1>3, <1>5, <1>6, Records, BoundsAssumption DEF Ids
  <1> HIDE DEF r, id, ready, r2, new, r3
  <1>12. /\ pc' \in [Sids -> {"idle", "submit", "tick", "shadow", "reset"}]
         /\ \A t \in Sids \ {s} : pc'[t] = pc[t]
    BY <1>6, GotoType DEF OInv
  <1>13. Grown(s, r3, new)
    BY <1>2, <1>5, <1>6, <1>8, <1>9, <1>10, <1>11, <1>12 DEF Grown
  <1> QED
    BY <1>5, <1>6, <1>8, <1>11, <1>12, <1>13, GrownKeeps

LEMMA BeatDoneKeeps ==
  ASSUME OInv, NEW s \in Sids, NEW noticed \in BOOLEAN, NEW word \in {"none", "proactive", "daily"},
         BeatDone(s, noticed, word)
  PROVE  Keep(s)
  <1> DEFINE n     == IF noticed THEN created + 1 ELSE created
             last  == IF word = "none" THEN n ELSE n + 1
             items == {Make(i, "daily", mem[s].gen) : i \in (created + 1)..n}
                      \cup {Make(i, word, mem[s].gen) : i \in (n + 1)..last}
             q     == queue[s] \cup items
             r     == [mem[s] EXCEPT !.flags = IF noticed THEN @ \ {"notice"} ELSE @,
                                     !.sent = @ \cup IdsOf(items)]
  <1>1. mem[s].gen > 0 /\ up /\ pc[s] = "shadow"
    BY DEF BeatDone, OInv, LifeInv
  <1>2. /\ n \in Nat /\ last \in Nat /\ created <= n /\ n <= last /\ last <= MaxItems
        /\ noticed => CanMake(created + 1, "daily")
        /\ word # "none" => CanMake(last, word)
    <2>1. /\ noticed => CanMake(created + 1, "daily")
          /\ word # "none" => CanMake(last, word)
      BY DEF BeatDone
    <2> QED
      BY <2>1, Records DEF CanMake
  <1>3. \A i \in (created + 1)..n : /\ Make(i, "daily", mem[s].gen) \in Item
                                    /\ Make(i, "daily", mem[s].gen).id = i
                                    /\ Make(i, "daily", mem[s].gen).gen = mem[s].gen
    <2>1. SUFFICES ASSUME NEW i \in (created + 1)..n
                   PROVE  i = created + 1 /\ CanMake(i, "daily") /\ i \in Nat \ {0}
      BY <1>1, MadeType
    <2> QED
      BY <1>2, Records
  <1>4. \A i \in (n + 1)..last : /\ Make(i, word, mem[s].gen) \in Item
                                 /\ Make(i, word, mem[s].gen).id = i
                                 /\ Make(i, word, mem[s].gen).gen = mem[s].gen
    <2>1. SUFFICES ASSUME NEW i \in (n + 1)..last
                   PROVE  i = last /\ word # "none" /\ CanMake(i, word) /\ i \in Nat \ {0}
      BY <1>1, MadeType
    <2> QED
      BY <1>2
  <1>5. items \in SUBSET Item /\ q \in SUBSET Item
    BY <1>3, <1>4, Records
  <1>6. \A i \in items : i.id > created /\ i.id <= last /\ i.gen = mem[s].gen
    BY <1>2, <1>3, <1>4, Records
  <1>7. \A i, j \in items : i.id = j.id => i = j
    <2> SUFFICES ASSUME NEW i \in items, NEW j \in items, i.id = j.id PROVE i = j
      OBVIOUS
    <2>1. \/ i.id \in (created + 1)..n /\ i = Make(i.id, "daily", mem[s].gen)
          \/ i.id \in (n + 1)..last /\ i = Make(i.id, word, mem[s].gen)
      BY <1>3, <1>4
    <2>2. \/ j.id \in (created + 1)..n /\ j = Make(j.id, "daily", mem[s].gen)
          \/ j.id \in (n + 1)..last /\ j = Make(j.id, word, mem[s].gen)
      BY <1>3, <1>4
    <2> QED
      BY <2>1, <2>2, <1>2, Records
  <1>8. \A i \in Ids : i > created /\ i <= last => i \in IdsOf(items)
    <2> SUFFICES ASSUME NEW i \in Ids, i > created, i <= last PROVE i \in IdsOf(items)
      OBVIOUS
    <2>1. i \in (created + 1)..n \/ i \in (n + 1)..last
      BY <1>2, Records DEF Ids
    <2> QED
      BY <2>1, <1>3, <1>4 DEF IdsOf
  <1>9. IdsOf(items) \subseteq Ids
    BY <1>5 DEF IdsOf, Item
  <1>10. /\ Change(s, Persisted(r, q), q) /\ SaveAll /\ created' = last /\ Goto(s, "idle")
         /\ UNCHANGED <<hand, told, left, reset, up, now, crashes>>
    BY DEF BeatDone
  <1> HIDE DEF n, last, items
  <1>11. r \in Record /\ r.gen = mem[s].gen /\ r.status = mem[s].status
    <2>1. r.flags \in SUBSET Flags /\ r.sent \in SUBSET Ids
      BY <1>9, Records DEF Record
    <2> QED
      BY <1>9, Records DEF Record
  <1> HIDE DEF r
  <1>12. /\ Persisted(r, q) \in Record /\ Persisted(r, q).block = q
         /\ Persisted(r, q).gen = mem[s].gen /\ Persisted(r, q).status = mem[s].status
    BY <1>5, <1>11, PersistedType
  <1>13. /\ pc' \in [Sids -> {"idle", "submit", "tick", "shadow", "reset"}]
         /\ \A t \in Sids \ {s} : pc'[t] = pc[t]
    BY <1>10, GotoType DEF OInv
  <1>14. Grown(s, Persisted(r, q), items)
    <2>1. /\ up /\ UNCHANGED <<up, told, hand>>
          /\ Persisted(r, q).gen = mem[s].gen /\ Persisted(r, q).status = mem[s].status
          /\ Change(s, Persisted(r, q), queue[s] \cup items)
          /\ SaveAll /\ Persisted(r, q).block = queue[s] \cup items
      BY <1>1, <1>10, <1>12
    <2>2. created' \in Nat /\ created <= created'
      BY <1>2, <1>10, Records
    <2>3. /\ \A i \in items : i.id > created /\ i.id <= created' /\ i.gen = mem[s].gen
          /\ \A i \in Ids : i > created /\ i <= created' => i \in IdsOf(items)
      BY <1>6, <1>8, <1>10
    <2>4. pc'[s] \in {"tick", "shadow"} => mem[s].gen > 0
      BY <1>1
    <2> QED
      BY <1>7, <1>13, <2>1, <2>2, <2>3, <2>4 DEF Grown
  <1> QED
    BY <1>2, <1>5, <1>10, <1>12, <1>13, <1>14, GrownKeeps

LEMMA ArbitrateKeeps ==
  ASSUME OInv, NEW s \in Sids, NEW delayed \in BOOLEAN, NEW epoch \in BOOLEAN,
         Arbitrate(s, delayed, epoch)
  PROVE  Keep(s)
  <1> DEFINE id    == created + 1
             items == IF delayed THEN {Make(id, "delayed", mem[s].gen)} ELSE {}
             q     == queue[s] \cup items
             r     == [Rolled(mem[s], epoch) EXCEPT !.sent = @ \cup IdsOf(items)]
  <1>1. mem[s].gen > 0 /\ up
    BY DEF Arbitrate, Enter, Bound
  <1>2. delayed => CanMake(id, "delayed") /\ id <= MaxItems
    BY DEF Arbitrate, CanMake
  <1>3. delayed => /\ Make(id, "delayed", mem[s].gen) \in Item
                   /\ Make(id, "delayed", mem[s].gen).id = id
                   /\ Make(id, "delayed", mem[s].gen).gen = mem[s].gen
    BY <1>1, <1>2, MadeType, Records
  <1>4. /\ Change(s, Persisted(r, q), q) /\ SaveAll
        /\ created' = IF delayed THEN id ELSE created
        /\ UNCHANGED <<hand, told, left, reset, pc, up, now, crashes>>
    BY DEF Arbitrate
  <1>5. items \in SUBSET Item /\ q \in SUBSET Item
    BY <1>3, Records
  <1>6. /\ \A i \in items : i.id = id /\ delayed /\ i = Make(id, "delayed", mem[s].gen)
                             /\ i.gen = mem[s].gen
        /\ delayed => id \in IdsOf(items)
    BY <1>3 DEF IdsOf
  <1>7. /\ Rolled(mem[s], epoch) \in Record /\ Rolled(mem[s], epoch).gen = mem[s].gen
        /\ Rolled(mem[s], epoch).status = mem[s].status
    BY Records, RolledType DEF OInv
  <1>8. IdsOf(items) \subseteq Ids
    BY <1>5 DEF IdsOf, Item
  <1> HIDE DEF items
  <1>9. r \in Record /\ r.gen = mem[s].gen /\ r.status = mem[s].status
    BY <1>7, <1>8 DEF Record
  <1> HIDE DEF r
  <1>10. /\ Persisted(r, q) \in Record /\ Persisted(r, q).block = q
         /\ Persisted(r, q).gen = mem[s].gen /\ Persisted(r, q).status = mem[s].status
    BY <1>5, <1>9, PersistedType
  <1>11. created' \in Nat /\ created <= created' /\ created' <= MaxItems
    BY <1>2, <1>4, Records
  <1>12. /\ pc' \in [Sids -> {"idle", "submit", "tick", "shadow", "reset"}]
         /\ \A t \in Sids \ {s} : pc'[t] = pc[t]
    BY <1>4 DEF OInv, TypeOK
  <1>13. \A n \in Ids : n > created /\ n <= created' => delayed /\ n = id
    BY <1>4, Records DEF Ids
  <1>14. Grown(s, Persisted(r, q), items)
    <2>1. /\ up /\ UNCHANGED <<up, told, hand>>
          /\ Persisted(r, q).gen = mem[s].gen /\ Persisted(r, q).status = mem[s].status
          /\ Change(s, Persisted(r, q), queue[s] \cup items)
          /\ SaveAll /\ Persisted(r, q).block = queue[s] \cup items
      BY <1>1, <1>4, <1>10
    <2>2. /\ \A i \in items : i.id > created /\ i.id <= created' /\ i.gen = mem[s].gen
          /\ \A i, j \in items : i.id = j.id => i = j
          /\ \A n \in Ids : n > created /\ n <= created' => n \in IdsOf(items)
      BY <1>4, <1>6, <1>13, Records
    <2>3. pc'[s] \in {"tick", "shadow"} => mem[s].gen > 0
      BY <1>1
    <2> QED
      BY <1>11, <1>12, <2>1, <2>2, <2>3 DEF Grown
  <1> QED
    BY <1>4, <1>5, <1>10, <1>11, <1>12, <1>14, GrownKeeps

------------------------------------------------------------------------------
(* Handlers that queue nothing. *)
Quiet(s, r) ==
  /\ up /\ UNCHANGED <<hand, told, left, reset, created, up, now, crashes>>
  /\ r.gen = mem[s].gen /\ r.status = mem[s].status
  /\ mem' = [mem EXCEPT ![s] = r] /\ queue' = queue
  /\ \/ SaveAll /\ r.block = queue[s]
     \/ UNCHANGED disk /\ r.block = mem[s].block
     \/ SaveAll /\ r.block = mem[s].block
  /\ pc' \in [Sids -> {"idle", "submit", "tick", "shadow", "reset"}]
  /\ \A t \in Sids \ {s} : pc'[t] = pc[t]
  /\ pc'[s] \in {"tick", "shadow"} => mem[s].gen > 0

LEMMA QuietKeeps ==
  ASSUME OInv, NEW s \in Sids, NEW r \in Record, Quiet(s, r)
  PROVE  Keep(s)
  <1>1. Change(s, r, queue[s] \cup {})
    BY DEF Quiet, Change, OInv, TypeOK
  <1>2. Grown(s, r, {})
    BY <1>1, Records DEF Quiet, Grown, Ids
  <1> QED
    BY <1>2, Records, GrownKeeps DEF Quiet

LEMMA SubmitDoneKeeps ==
  ASSUME OInv, NEW s \in Sids, SubmitDone(s)
  PROVE  Keep(s)
  <1> DEFINE r == Persisted(mem[s], queue[s])
  <1>1. r \in Record /\ r.block = queue[s] /\ r.gen = mem[s].gen /\ r.status = mem[s].status
    BY Records, PersistedType
  <1> HIDE DEF r
  <1>2. /\ pc' \in [Sids -> {"idle", "submit", "tick", "shadow", "reset"}]
        /\ pc'[s] = "idle" /\ \A t \in Sids \ {s} : pc'[t] = pc[t]
    BY GotoType DEF SubmitDone, OInv
  <1>3. Quiet(s, r)
    BY <1>1, <1>2 DEF Quiet, SubmitDone, Change, r, OInv, TypeOK
  <1> QED
    BY <1>1, <1>3, QuietKeeps

LEMMA PersistOnlyKeeps ==
  ASSUME OInv, NEW s \in Sids, NEW rolls \in BOOLEAN, NEW epoch \in BOOLEAN,
         PersistOnly(s, rolls, epoch)
  PROVE  Keep(s)
  <1> DEFINE r0 == IF rolls THEN Rolled(mem[s], epoch) ELSE mem[s]
             r  == Persisted(r0, queue[s])
  <1>1. r0 \in Record /\ r0.gen = mem[s].gen /\ r0.status = mem[s].status
    BY Records, RolledType DEF OInv
  <1>2. /\ mem' = [mem EXCEPT ![s] = r] /\ queue' = [queue EXCEPT ![s] = queue[s]] /\ SaveAll
        /\ up /\ pc[s] = "idle"
        /\ UNCHANGED <<hand, told, left, reset, created, pc, up, now, crashes>>
    BY DEF PersistOnly, Change, Enter
  <1> HIDE DEF r0
  <1>3. r \in Record /\ r.block = queue[s] /\ r.gen = mem[s].gen /\ r.status = mem[s].status
    BY <1>1, Records, PersistedType
  <1> HIDE DEF r
  <1>4. Quiet(s, r)
    BY <1>2, <1>3 DEF Quiet, OInv, TypeOK
  <1> QED
    BY <1>3, <1>4, QuietKeeps

LEMMA SilenceKeeps ==
  ASSUME OInv, NEW s \in Sids, NEW until \in 0..MaxNow, Silence(s, until)
  PROVE  Keep(s)
  <1> DEFINE r == [mem[s] EXCEPT !.until = until]
  <1>1. /\ r \in Record /\ r.block = mem[s].block
        /\ r.gen = mem[s].gen /\ r.status = mem[s].status
    BY Records DEF Record, Times
  <1>2. /\ mem' = [mem EXCEPT ![s] = r] /\ SaveAll /\ up /\ pc[s] = "idle"
        /\ UNCHANGED <<queue, hand, told, left, reset, created, pc, up, now, crashes>>
    BY DEF Silence, Enter
  <1> HIDE DEF r
  <1>3. Quiet(s, r)
    BY <1>1, <1>2 DEF Quiet, OInv, TypeOK
  <1> QED
    BY <1>1, <1>3, QuietKeeps

LEMMA ResetStartKeeps ==
  ASSUME OInv, NEW s \in Sids, ResetStart(s)
  PROVE  Keep(s)
  <1>1. /\ pc' \in [Sids -> {"idle", "submit", "tick", "shadow", "reset"}]
        /\ pc'[s] = "reset" /\ \A t \in Sids \ {s} : pc'[t] = pc[t]
    BY GotoType DEF ResetStart, OInv
  <1>2. Quiet(s, mem[s])
    BY <1>1 DEF Quiet, ResetStart, Enter, OInv, TypeOK
  <1> QED
    BY <1>2, Records, QuietKeeps

LEMMA AbortKeeps ==
  ASSUME OInv, NEW s \in Sids, Abort(s)
  PROVE  Keep(s)
  <1>1. /\ pc' \in [Sids -> {"idle", "submit", "tick", "shadow", "reset"}]
        /\ pc'[s] = "idle" /\ \A t \in Sids \ {s} : pc'[t] = pc[t]
    BY GotoType DEF Abort, OInv
  <1>2. Quiet(s, mem[s])
    BY <1>1 DEF Quiet, Abort, OInv, TypeOK
  <1> QED
    BY <1>2, Records, QuietKeeps

LEMMA ImpulseKeeps ==
  ASSUME OInv, NEW s \in Sids, Impulse(s)
  PROVE  Keep(s)
  <1> DEFINE q == queue[s] \ Drained(s)
             r == Persisted(mem[s], q)
  <1>1. /\ Change(s, r, q) /\ SaveAll /\ up
        /\ hand' = [hand EXCEPT ![s] = @ \cup IdsOf(Due(s))]
        /\ left' = left \cup IdsOf(Drained(s))
        /\ UNCHANGED <<told, reset, created, pc, up, now, crashes>>
    BY DEF Impulse
  <1>2. q \in SUBSET Item /\ Due(s) \subseteq Drained(s) /\ Drained(s) \subseteq queue[s]
    BY Records DEF Drained, Due
  <1>3. r \in Record /\ r.block = q /\ r.gen = mem[s].gen /\ r.status = mem[s].status
    BY <1>2, Records, PersistedType
  <1>4. \A i \in q : i \in queue[s] /\ i \notin Due(s)
    BY <1>2
  <1> HIDE DEF q, r
  <1>5. /\ mem' \in [Sids -> Record] /\ queue' \in [Sids -> SUBSET Item]
        /\ mem'[s] = r /\ queue'[s] = q
        /\ \A t \in Sids \ {s} : mem'[t] = mem[t] /\ queue'[t] = queue[t]
    BY <1>1, <1>2, <1>3, ChangeType DEF OInv
  <1>6. IdsOf(Due(s)) \subseteq IdsOf(queue[s]) /\ IdsOf(queue[s]) \subseteq Ids
        /\ IdsOf(Drained(s)) \subseteq Ids
    BY <1>2, Records DEF IdsOf, Item
  <1>7. /\ hand'[s] = hand[s] \cup IdsOf(Due(s)) /\ \A t \in Sids \ {s} : hand'[t] = hand[t]
        /\ hand' \in [Sids -> SUBSET Ids]
    BY <1>1, <1>6 DEF OInv, TypeOK
  <1>8. \A i \in q : i.id \notin hand'[s]
    <2> SUFFICES ASSUME NEW i \in q, i.id \in IdsOf(Due(s)) PROVE FALSE
      BY <1>4, <1>7 DEF OInv, SpentInv, Held
    <2>1. PICK j \in Due(s) : i.id = j.id
      BY DEF IdsOf
    <2> QED
      BY <1>2, <1>4, <2>1 DEF OInv, IdInv, Held
  <1>9. TypeOK'
    <2>1. disk' \in [Sids -> Record]
      BY <1>1, <1>5, SaveType DEF OInv
    <2> QED
      BY <1>1, <1>5, <1>6, <1>7, <2>1 DEF OInv, TypeOK
  <1>10. /\ disk'[s] = r /\ \A t \in Sids \ {s} : disk'[t] = mem[t]
    BY <1>1, <1>5 DEF SaveAll
  <1>11. mem[s].status = disk[s].status
    BY <1>1 DEF OInv, LifeInv
  <1>12. \A i \in q : i.id <= created /\ i.id \in Nat /\ i.gen = mem[s].gen
    BY <1>4, Records, BoundsAssumption DEF OInv, FreshInv, Held, LifeInv, Item, Ids
  <1>13. HandlerMoves(s)
    <2>1. pc'[s] \in {"tick", "shadow"} => mem[s].gen > 0
      BY <1>1 DEF OInv, LifeInv
    <2>2. \A n \in Ids : ~ (n > created /\ n <= created')
      BY <1>1, Records DEF Ids
    <2>3. \A i, j \in q : ~ (i.id = j.id /\ i.id > created)
      BY <1>12, Records
    <2> QED
      BY <1>1, <1>3, <1>4, <1>5, <1>7, <1>10, <1>11, <1>12, <2>1, <2>2, <2>3, Records
      DEF HandlerMoves, Block
  <1>14. Polled(s)
    BY <1>1, <1>3, <1>4, <1>5, <1>6, <1>7, <1>8, <1>10 DEF Polled, Block
  <1> QED
    BY <1>9, <1>13, <1>14 DEF Keep, Moves

LEMMA ReplyKeeps ==
  ASSUME OInv, NEW s \in Sids, Reply(s)
  PROVE  Keep(s)
  <1>1. /\ up /\ UNCHANGED <<queue, mem, disk, left, reset, created, pc, up, now, crashes>>
        /\ told' = [i \in Ids |-> IF i \in hand[s] /\ told[i] < 2 THEN told[i] + 1 ELSE told[i]]
        /\ hand' = [hand EXCEPT ![s] = {}]
    BY DEF Reply
  <1>2. \A n \in hand[s] : n \in Ids /\ told[n] = 0
    BY DEF OInv, TypeOK, SpentInv
  <1>3. /\ hand' \in [Sids -> SUBSET Ids] /\ hand'[s] = {}
        /\ \A t \in Sids \ {s} : hand'[t] = hand[t]
    BY <1>1 DEF OInv, TypeOK
  <1>4. \A n \in Ids : told'[n] = IF n \in hand[s] THEN told[n] + 1 ELSE told[n]
    BY <1>1, <1>2 DEF OInv, TypeOK
  <1>5. TypeOK'
    <2>1. told' \in [Ids -> 0..2]
      BY <1>1, <1>2 DEF OInv, TypeOK
    <2> QED
      BY <1>1, <1>3, <2>1 DEF OInv, TypeOK
  <1>6. HandlerMoves(s)
    <2>1. /\ \A i \in queue[s] : i.id <= created /\ i.gen = mem[s].gen /\ i.id \in Nat
          /\ mem[s].block = disk[s].block /\ mem[s].status = disk[s].status
          /\ \A i \in mem[s].block : i.gen = mem[s].gen
          /\ \A i \in disk[s].block : i.gen = disk[s].gen
          /\ pc[s] \in {"tick", "shadow"} => mem[s].gen > 0
      BY <1>1, Records, BoundsAssumption DEF OInv, FreshInv, Held, LifeInv, Item, Ids
    <2>2. \A n \in Ids : ~ (n > created /\ n <= created')
      BY <1>1, Records DEF Ids
    <2>3. \A i, j \in queue[s] : ~ (i.id = j.id /\ i.id > created)
      BY <2>1, Records
    <2> QED
      BY <1>1, <1>3, <2>1, <2>2, <2>3, Records DEF HandlerMoves, Block
  <1>7. Replied(s)
    BY <1>1, <1>3, <1>4 DEF Replied
  <1> QED
    BY <1>5, <1>6, <1>7 DEF Keep, Moves

(* A handler that leaves no queue: the life goes on, is sealed, or is a new  *)
(* one with nothing saved.                                                   *)
Emptied(s, r) ==
  /\ up /\ UNCHANGED <<hand, told, created, up, now, crashes>>
  /\ \/ left' = left \cup IdsOf(queue[s]) /\ reset' \in {reset, reset \cup IdsOf(queue[s])}
     \/ UNCHANGED <<left, reset>>
  /\ Change(s, r, {})
  /\ \/ SaveAll /\ r.block = {}
     \/ SaveAll /\ r.block = mem[s].block /\ r.gen = mem[s].gen /\ r.status = "sealed"
     \/ UNCHANGED disk /\ r.block = mem[s].block /\ r.gen = mem[s].gen /\ r.status = mem[s].status
     \/ UNCHANGED disk /\ r.block = {} /\ mem[s].block = {} /\ r.status = mem[s].status
  /\ pc' \in [Sids -> {"idle", "submit", "tick", "shadow", "reset"}]
  /\ \A t \in Sids \ {s} : pc'[t] = pc[t]
  /\ pc'[s] \notin {"tick", "shadow"}

LEMMA EmptiedKeeps ==
  ASSUME OInv, NEW s \in Sids, NEW r \in Record, Emptied(s, r)
  PROVE  Keep(s)
  <1>1. /\ mem' \in [Sids -> Record] /\ queue' \in [Sids -> SUBSET Item]
        /\ mem'[s] = r /\ queue'[s] = {}
        /\ \A t \in Sids \ {s} : mem'[t] = mem[t] /\ queue'[t] = queue[t]
    BY ChangeType DEF OInv, Emptied
  <1>2. /\ mem[s].block = disk[s].block /\ mem[s].status = disk[s].status
        /\ \A i \in mem[s].block : i.gen = mem[s].gen
        /\ \A i \in disk[s].block : i.gen = disk[s].gen
    BY DEF OInv, LifeInv, Emptied
  <1>3. TypeOK'
    <2>1. disk' \in [Sids -> Record]
      BY <1>1, SaveType DEF OInv, Emptied
    <2>2. IdsOf(queue[s]) \subseteq Ids
      BY Records DEF IdsOf, Item
    <2> QED
      BY <1>1, <2>1, <2>2 DEF OInv, TypeOK, Emptied
  <1>4. /\ disk'[s].block = r.block /\ disk'[s].status = r.status
        /\ r.block \in {disk[s].block, {}}
        /\ r.block = {} \/ r.status = disk[s].status \/ r.status = "sealed"
        /\ \A i \in r.block : i.gen = r.gen /\ i.gen = disk'[s].gen
        /\ \A t \in Sids \ {s} : disk'[t] \in {disk[t], mem[t]}
    <2>1. CASE SaveAll
      BY <1>1, <1>2, <2>1 DEF SaveAll, Emptied
    <2>2. CASE ~SaveAll
      BY <1>1, <1>2, <2>2 DEF Emptied
    <2> QED
      BY <2>1, <2>2
  <1>5. \A n \in Ids : ~ (n > created /\ n <= created')
    BY Records DEF Ids, Emptied
  <1>6. HandlerMoves(s)
    BY <1>1, <1>4, <1>5, Records DEF HandlerMoves, Block, Emptied
  <1> QED
    BY <1>3, <1>6 DEF Keep, Moves, Untold, Emptied

LEMMA ResetDoneKeeps ==
  ASSUME OInv, NEW s \in Sids, ResetDone(s)
  PROVE  Keep(s)
  <1>1. /\ pc' \in [Sids -> {"idle", "submit", "tick", "shadow", "reset"}]
        /\ pc'[s] = "idle" /\ \A t \in Sids \ {s} : pc'[t] = pc[t]
    BY GotoType DEF ResetDone, OInv
  <1>2. Emptied(s, mem[s])
    BY <1>1 DEF Emptied, ResetDone, Change, OInv, TypeOK
  <1> QED
    BY <1>2, Records, EmptiedKeeps

LEMMA SealKeeps ==
  ASSUME OInv, NEW s \in Sids, Seal(s)
  PROVE  Keep(s)
  <1> DEFINE r == [mem[s] EXCEPT !.status = "sealed"]
  <1>1. /\ r \in Record /\ r.block = mem[s].block /\ r.gen = mem[s].gen /\ r.status = "sealed"
    BY Records DEF Record
  <1>2. mem' = [mem EXCEPT ![s] = r]
    BY DEF Seal
  <1> HIDE DEF r
  <1>3. Emptied(s, r)
    BY <1>1, <1>2 DEF Emptied, Seal, Enter, Change, OInv, TypeOK
  <1> QED
    BY <1>1, <1>3, EmptiedKeeps

LEMMA BindNewKeeps ==
  ASSUME OInv, NEW s \in Sids, BindNew(s)
  PROVE  Keep(s)
  <1>1. mem[s].gen + 1 \in 1..MaxGen
    BY Records, BoundsAssumption DEF BindNew
  <1> DEFINE r == Born(mem[s].gen + 1)
  <1>2. r \in Record /\ r.block = {}
    BY <1>1, BornType DEF OInv
  <1>3. Change(s, r, {}) /\ SaveAll /\ up /\ pc[s] = "idle"
        /\ UNCHANGED <<hand, told, left, reset, created, pc, up, now, crashes>>
    BY DEF BindNew, Born
  <1> HIDE DEF r
  <1>4. Emptied(s, r)
    BY <1>2, <1>3 DEF Emptied, OInv, TypeOK
  <1> QED
    BY <1>2, <1>4, EmptiedKeeps

LEMMA SubmitStartKeeps ==
  ASSUME OInv, NEW s \in Sids, NEW epoch \in BOOLEAN, SubmitStart(s, epoch)
  PROVE  Keep(s)
  <1>1. /\ pc' \in [Sids -> {"idle", "submit", "tick", "shadow", "reset"}]
        /\ pc'[s] = "submit" /\ \A t \in Sids \ {s} : pc'[t] = pc[t]
    BY GotoType DEF SubmitStart, OInv
  <1>2. up /\ mem[s].status = "bound"
        /\ UNCHANGED <<queue, disk, hand, told, left, reset, created, up, now, crashes>>
    BY DEF SubmitStart
  <1>3. CASE Bound(mem[s])
    <2> DEFINE r == Rolled(mem[s], epoch)
    <2>1. /\ r \in Record /\ r.gen = mem[s].gen /\ r.status = mem[s].status
          /\ r.block = mem[s].block
      BY Records, RolledType DEF OInv
    <2>2. mem' = [mem EXCEPT ![s] = r]
      BY <1>3 DEF SubmitStart
    <2> HIDE DEF r
    <2>3. Quiet(s, r)
      BY <1>1, <1>2, <2>1, <2>2 DEF Quiet
    <2> QED
      BY <2>1, <2>3, QuietKeeps
  <1>4. CASE ~Bound(mem[s])
    <2> DEFINE r == Born(1)
    <2>1. r \in Record /\ r.block = {} /\ r.status = "bound"
      BY BornType, BoundsAssumption DEF OInv
    <2>2. mem' = [mem EXCEPT ![s] = r]
      BY <1>4 DEF SubmitStart, Born
    <2>3. mem[s].gen = 0
      BY <1>2, <1>4, Records DEF Bound
    <2>4. queue[s] = {} /\ mem[s].block = {}
      BY <2>3, Records, BoundsAssumption DEF OInv, LifeInv, Item
    <2> HIDE DEF r
    <2>5. Change(s, r, {})
      BY <1>2, <2>2, <2>4 DEF Change, OInv, TypeOK
    <2>6. Emptied(s, r)
      BY <1>1, <1>2, <2>1, <2>4, <2>5 DEF Emptied
    <2> QED
      BY <2>1, <2>6, EmptiedKeeps
  <1> QED
    BY <1>3, <1>4

LEMMA HandlerKeeps ==
  ASSUME OInv, NEW s \in Sids, Handler(s)
  PROVE  Keep(s)
  BY HeartbeatStartKeeps, DreamStepKeeps, BeatDoneKeeps, ArbitrateKeeps, ImpulseKeeps, ReplyKeeps,
     SubmitStartKeeps, SubmitDoneKeeps, PersistOnlyKeeps, SilenceKeeps, ResetStartKeeps,
     ResetDoneKeeps, SealKeeps, BindNewKeeps, AbortKeeps
  DEF Handler, Beat

------------------------------------------------------------------------------
(* What the moves of a handler keep. *)

LEMMA HeldType ==
  ASSUME OInv, NEW t \in Sids
  PROVE  /\ Held(t) \subseteq Item
         /\ \A i \in Held(t) : i.id \in Ids /\ i.id \in Nat /\ i.id <= created /\ i.gen > 0
  <1>1. Held(t) \subseteq Item
    BY Records DEF Held, Record
  <1> QED
    BY <1>1, BoundsAssumption DEF OInv, FreshInv, Item, Ids

LEMMA MovesHeld ==
  ASSUME OInv, NEW s \in Sids, Moves(s)
  PROVE  /\ \A i \in Held(s)' : i \in Held(s) \/ (i.id > created /\ i \in queue'[s])
         /\ \A t \in Sids \ {s} : Held(t)' \subseteq Held(t)
         /\ created' \in Int => \A t \in Sids : \A i \in Held(t)' : i.id <= created'
  <1>1. \A t \in Sids \ {s} : queue'[t] = queue[t] /\ disk'[t].block = disk[t].block
    BY DEF Moves, HandlerMoves, OInv, LifeInv
  <1>2. Held(s)' = queue'[s] \cup disk'[s].block
    BY DEF Held
  <1>3. /\ \A i \in queue'[s] : i \in queue[s] \/ i.id > created
        /\ \A i \in queue'[s] : i.id <= created'
        /\ disk'[s].block \in {disk[s].block, queue'[s], {}}
    BY DEF Moves, HandlerMoves, Block
  <1>4. created <= created'
    BY DEF Moves, HandlerMoves
  <1>5. created \in Nat /\ \A t \in Sids : \A i \in Held(t) : i.id <= created /\ i.id \in Nat
    BY Records, HeldType
  <1> QED
    BY <1>1, <1>2, <1>3, <1>4, <1>5 DEF Held

LEMMA MovesIds ==
  ASSUME OInv, NEW s \in Sids, Keep(s)
  PROVE  IdInv'
  <1> SUFFICES ASSUME NEW t \in Sids, NEW u \in Sids, NEW i \in Held(t)', NEW j \in Held(u)',
                      i.id = j.id
               PROVE  t = u /\ i = j
    BY DEF IdInv
  <1>1. /\ i \in Held(t) \/ (t = s /\ i.id > created /\ i \in queue'[s])
        /\ j \in Held(u) \/ (u = s /\ j.id > created /\ j \in queue'[s])
    BY MovesHeld DEF Keep
  <1>2. i \in Held(t) => i.id <= created /\ i.id \in Nat
    BY HeldType
  <1>3. j \in Held(u) => j.id <= created /\ j.id \in Nat
    BY HeldType
  <1>4. CASE i \in Held(t) /\ j \in Held(u)
    BY <1>4 DEF OInv, IdInv
  <1>5. CASE t = s /\ u = s /\ i.id > created /\ i \in queue'[s] /\ j \in queue'[s]
    BY <1>5 DEF Keep, Moves, HandlerMoves
  <1> QED
    BY <1>1, <1>2, <1>3, <1>4, <1>5, Records

LEMMA MovesFresh ==
  ASSUME OInv, NEW s \in Sids, Keep(s)
  PROVE  FreshInv'
  <1>1. created \in Nat /\ created' \in Nat /\ created <= created'
    BY Records, BoundsAssumption DEF Keep, TypeOK, Moves, HandlerMoves
  <1>2. \A t \in Sids : \A i \in Held(t)' : i.id <= created'
    BY <1>1, MovesHeld DEF Keep
  <1>3. \A t \in Sids : \A n \in hand[t] : n <= created /\ n \in Nat
    BY BoundsAssumption DEF OInv, FreshInv, TypeOK, Ids
  <1>4. \A i \in queue[s] : i.id <= created /\ i.id \in Nat
    BY HeldType DEF Held
  <1>5. \A t \in Sids : \A n \in hand'[t] : n <= created'
    BY <1>1, <1>3, <1>4 DEF Keep, Moves, HandlerMoves, Untold, Polled, Replied, IdsOf
  <1>6. \A n \in Ids : told'[n] > 0 => n <= created'
    <2>1. \A n \in Ids : told[n] > 0 => n <= created
      BY DEF OInv, FreshInv
    <2>2. \A n \in Ids : told'[n] > 0 => told[n] > 0 \/ n \in hand[s]
      BY DEF Keep, Moves, Untold, Polled, Replied
    <2> QED
      BY <1>1, <1>3, <2>1, <2>2 DEF Ids
  <1> QED
    BY <1>2, <1>5, <1>6 DEF FreshInv

LEMMA MovesSpent ==
  ASSUME OInv, NEW s \in Sids, Keep(s)
  PROVE  SpentInv'
  <1> USE DEF Keep
  <1>1. \A t \in Sids : \A i \in Held(t)' :
           i \in Held(t) \/ (t = s /\ i.id > created /\ i \in queue'[s])
    BY MovesHeld
  <1>2. \A t \in Sids \ {s} : hand'[t] = hand[t]
    BY DEF Moves, HandlerMoves
  <1>3. created \in Nat /\ \A t \in Sids : \A n \in hand[t] : n <= created /\ n \in Nat
    BY Records, BoundsAssumption DEF OInv, FreshInv, TypeOK, Ids
  <1>4. \A t \in Sids : \A i \in Held(t) : i.id <= created /\ i.id \in Nat /\ i.id \in Ids
    BY HeldType
  <1>5. \A i \in queue[s] : i \in Held(s)
    BY DEF Held
  <1>6. /\ \A t, u \in Sids : \A i \in Held(t) : i.id \notin hand[u]
        /\ \A t \in Sids : \A i \in Held(t) : told[i.id] = 0
        /\ \A t \in Sids : \A n \in hand[t] : told[n] = 0
        /\ \A t, u \in Sids : t # u => hand[t] \cap hand[u] = {}
        /\ \A n \in Ids : told[n] <= 1 /\ told[n] \in 0..2
    BY DEF OInv, SpentInv, TypeOK
  <1>7. \A t \in Sids : \A i \in Held(t)' : i.id \in Ids
    BY DEF TypeOK, Held, Record, Item
  <1>8. \A n \in Ids : n > created => told[n] = 0
    BY <1>3 DEF OInv, FreshInv, TypeOK, Ids
  <1>9. \A t, u \in Sids : \A i \in Held(t)' : u # s => i.id \notin hand'[u]
    BY <1>1, <1>2, <1>3, <1>4, <1>6
  <1>10. CASE Untold(s)
    <2>1. told' = told /\ hand'[s] = hand[s]
      BY <1>10 DEF Untold
    <2>2. \A t \in Sids : \A i \in Held(t)' : i.id \notin hand'[s] /\ told'[i.id] = 0
      BY <1>1, <1>3, <1>4, <1>6, <1>7, <1>8, <2>1
    <2> QED
      BY <1>2, <1>6, <1>9, <2>1, <2>2 DEF SpentInv
  <1>11. CASE Polled(s)
    <2>1. /\ told' = told /\ hand'[s] \subseteq hand[s] \cup IdsOf(queue[s])
          /\ disk'[s].block = queue'[s]
          /\ \A i \in queue'[s] : i \in queue[s] /\ i.id \notin hand'[s]
      BY <1>11 DEF Polled, Block
    <2>2. \A n \in hand'[s] : n \in hand[s] \/ \E i \in Held(s) : i.id = n
      BY <1>5, <2>1 DEF IdsOf
    <2>3. \A i \in Held(s)' : i.id \notin hand'[s]
      BY <2>1 DEF Held
    <2>4. \A t \in Sids \ {s} : \A i \in Held(t)' : i.id \notin hand'[s]
      <3> SUFFICES ASSUME NEW t \in Sids \ {s}, NEW i \in Held(t)', i.id \in hand'[s]
                   PROVE  FALSE
        OBVIOUS
      <3>1. i \in Held(t)
        BY <1>1
      <3> QED
        BY <1>6, <2>2, <3>1 DEF OInv, IdInv
    <2>5. \A t \in Sids : \A i \in Held(t)' : told'[i.id] = 0
      BY <1>1, <1>6, <1>7, <1>8, <2>1
    <2>6. \A n \in hand'[s] : told'[n] = 0
      BY <1>6, <2>1, <2>2
    <2>7. \A t \in Sids \ {s} : hand'[s] \cap hand'[t] = {}
      BY <1>2, <1>6, <2>2
    <2> QED
      BY <1>2, <1>6, <1>9, <2>1, <2>3, <2>4, <2>5, <2>6, <2>7 DEF SpentInv
  <1>12. CASE Replied(s)
    <2>1. /\ \A n \in Ids : told'[n] = IF n \in hand[s] THEN told[n] + 1 ELSE told[n]
          /\ hand'[s] = {} /\ \A t \in Sids : Held(t)' = Held(t)
      BY <1>12 DEF Replied, Moves, HandlerMoves, Held
    <2>2. \A t \in Sids : \A i \in Held(t)' : told'[i.id] = 0
      BY <1>4, <1>6, <2>1
    <2>3. \A t \in Sids : hand'[t] \subseteq hand[t]
      BY <1>2, <2>1
    <2>4. \A t \in Sids : \A n \in hand'[t] : told'[n] = 0
      <3> SUFFICES ASSUME NEW t \in Sids \ {s}, NEW n \in hand[t] PROVE told'[n] = 0
        BY <1>2, <2>1
      <3>1. n \in Ids /\ n \notin hand[s]
        BY <1>6 DEF OInv, TypeOK
      <3> QED
        BY <1>6, <2>1, <3>1
    <2>5. \A n \in Ids : told'[n] <= 1
      BY <1>6, <2>1
    <2> QED
      BY <1>2, <1>6, <1>9, <2>1, <2>2, <2>3, <2>4, <2>5 DEF SpentInv
  <1> QED
    BY <1>10, <1>11, <1>12 DEF Moves

LEMMA MovesLife ==
  ASSUME OInv, NEW s \in Sids, Keep(s)
  PROVE  LifeInv'
  <1> USE DEF Keep
  <1> SUFFICES ASSUME NEW t \in Sids
               PROVE  /\ \A i \in queue'[t] \cup mem'[t].block : i.gen = mem'[t].gen
                      /\ \A i \in disk'[t].block : i.gen = disk'[t].gen
                      /\ pc'[t] \in {"tick", "shadow"} => mem'[t].gen > 0
                      /\ mem'[t].block = disk'[t].block /\ mem'[t].status = disk'[t].status
                      /\ up'
    BY DEF LifeInv
  <1>1. up /\ up'
    BY DEF Moves, HandlerMoves
  <1>2. CASE t = s
    BY <1>1, <1>2 DEF Moves, HandlerMoves, Block
  <1>3. CASE t # s
    <2>1. /\ queue'[t] = queue[t] /\ mem'[t] = mem[t] /\ pc'[t] = pc[t]
          /\ disk'[t] \in {disk[t], mem[t]}
      BY <1>3 DEF Moves, HandlerMoves
    <2> QED
      BY <1>1, <2>1 DEF OInv, LifeInv
  <1> QED
    BY <1>2, <1>3

LEMMA HandlerInv ==
  ASSUME OInv, NEW s \in Sids, Handler(s)
  PROVE  OInv'
  <1>1. Keep(s)
    BY HandlerKeeps
  <1> QED
    BY <1>1, MovesIds, MovesFresh, MovesSpent, MovesLife DEF OInv, Keep

------------------------------------------------------------------------------
(* The process stops and starts, and time goes on: no word appears.          *)
Fewer ==
  /\ told' = told /\ created' = created
  /\ \A t \in Sids : Held(t)' \subseteq Held(t) /\ hand'[t] \subseteq hand[t]

LEMMA FewerInv ==
  ASSUME OInv, Fewer
  PROVE  IdInv' /\ FreshInv' /\ SpentInv'
  <1> USE DEF OInv, Fewer
  <1>1. IdInv'
    BY DEF IdInv
  <1>2. FreshInv'
    BY DEF FreshInv
  <1>3. SpentInv'
    BY DEF SpentInv
  <1> QED
    BY <1>1, <1>2, <1>3

LEMMA StoppedType ==
  ASSUME OInv, Stopped
  PROVE  /\ queue' \in [Sids -> SUBSET Item] /\ mem' \in [Sids -> Record]
         /\ hand' \in [Sids -> SUBSET Ids]
         /\ pc' \in [Sids -> {"idle", "submit", "tick", "shadow", "reset"}]
         /\ up' = FALSE
         /\ \A t \in Sids : /\ queue'[t] = {} /\ mem'[t] = NoRecord
                            /\ hand'[t] = {} /\ pc'[t] = "idle"
  BY NoRecordType DEF Stopped

LEMMA LoadInv ==
  ASSUME OInv, Load
  PROVE  OInv'
  <1> USE DEF Load
  <1>1. \A t \in Sids : /\ disk[t] \in Record /\ queue'[t] \subseteq disk[t].block
                        /\ queue'[t] \in SUBSET Item
                        /\ mem'[t] = disk[t] /\ disk'[t] = disk[t] /\ pc'[t] = "idle"
    BY Records DEF Hydrated, OInv, LifeInv, Record
  <1>2. TypeOK'
    <2>1. queue' \in [Sids -> SUBSET Item]
      BY <1>1
    <2> QED
      BY <2>1 DEF OInv, TypeOK
  <1>3. Fewer
    BY <1>1 DEF Fewer, Held
  <1>4. LifeInv'
    BY <1>1 DEF OInv, LifeInv
  <1> QED
    BY <1>2, <1>3, <1>4, FewerInv DEF OInv

LEMMA StopInv ==
  ASSUME OInv, Close \/ Crash
  PROVE  OInv'
  <1>1. /\ Stopped /\ up /\ UNCHANGED <<told, left, reset, created, now>>
        /\ disk' \in {disk, mem} /\ crashes' \in 0..MaxCrashes
    BY BoundsAssumption DEF OInv, TypeOK, Close, Crash
  <1>2. TypeOK'
    BY <1>1, StoppedType DEF OInv, TypeOK
  <1>3. \A t \in Sids : mem[t].block = disk[t].block
    BY <1>1 DEF OInv, LifeInv
  <1>4. Fewer
    BY <1>1, <1>3, StoppedType DEF Fewer, Held
  <1>5. \A t \in Sids : \A i \in disk'[t].block : i.gen = disk'[t].gen
    BY <1>1 DEF OInv, LifeInv
  <1>6. LifeInv'
    BY <1>1, <1>5, StoppedType, NoRecordType DEF LifeInv
  <1> QED
    BY <1>2, <1>4, <1>6, FewerInv DEF OInv

LEMMA IdleInv ==
  ASSUME OInv, Tick \/ UNCHANGED vars
  PROVE  OInv'
  <1>1. UNCHANGED <<queue, mem, disk, hand, told, left, reset, created, pc, up, crashes>>
    BY DEF Tick, vars
  <1>2. TypeOK'
    BY <1>1, BoundsAssumption DEF OInv, TypeOK, Tick, vars
  <1>3. IdInv' /\ FreshInv' /\ SpentInv' /\ LifeInv'
    BY <1>1 DEF OInv, IdInv, FreshInv, SpentInv, LifeInv, Held
  <1> QED
    BY <1>2, <1>3 DEF OInv

LEMMA InitInv ==
  ASSUME Init
  PROVE  OInv
  <1>1. TypeOK
    BY NoRecordType, BoundsAssumption DEF Init, TypeOK
  <1>2. \A t \in Sids : Held(t) = {} /\ hand[t] = {} /\ mem[t] = NoRecord /\ disk[t] = NoRecord
                        /\ queue[t] = {} /\ pc[t] = "idle"
    BY NoRecordType DEF Init, Held
  <1>3. \A n \in Ids : told[n] = 0
    BY DEF Init
  <1>4. IdInv /\ SpentInv
    BY <1>2, <1>3 DEF IdInv, SpentInv
  <1>5. FreshInv
    BY <1>2, <1>3 DEF FreshInv
  <1>6. LifeInv
    BY <1>2, NoRecordType DEF LifeInv, Init
  <1> QED
    BY <1>1, <1>4, <1>5, <1>6 DEF OInv

LEMMA NextInv ==
  ASSUME OInv, [Next]_vars
  PROVE  OInv'
  BY HandlerInv, LoadInv, StopInv, IdleInv DEF Next

(* Every word has one owner and one form, is held by its life alone, and     *)
(* once drained is nowhere else, whatever aborts, cancels and crashes.       *)
THEOREM OutboxInvariant == Spec => []OInv
  BY InitInv, NextInv, PTL DEF Spec

(* The state keeps its types.  The session behind the words: outbox.py and   *)
(* the records of binding.py.                                                *)
THEOREM OutboxTypeCorrect == Spec => []TypeOK
  <1>1. OInv => TypeOK
    BY DEF OInv
  <1> QED
    BY <1>1, OutboxInvariant, PTL

------------------------------------------------------------------------------
(* The outbox implements Utterances: what a step does to the word n.         *)
Fate(n) ==
  /\ created <= created'
  /\ told'[n] = told[n] \/ (Waits(n) /\ told[n] = 0 /\ told'[n] = 1)
  /\ Waits(n)' => Waits(n) \/ (created < n /\ n <= created')
  /\ created < n /\ n <= created' => Waits(n)' /\ told'[n] = 0

(* A word that is still to come is neither told nor waiting. *)
LEMMA NotYet ==
  ASSUME OInv, NEW n \in Ids, n > created
  PROVE  told[n] = 0 /\ ~Waits(n)
  <1>1. n \in Nat /\ created \in Nat /\ told[n] \in 0..2
    BY Counters DEF OInv, TypeOK
  <1>2. \A s \in Sids : \A i \in queue[s] \cup disk[s].block : i.id # n
    BY <1>1, HeldType DEF Held
  <1>3. ASSUME NEW s \in Sids, n \in hand[s] PROVE FALSE
    <2>1. n <= created
      BY <1>3 DEF OInv, FreshInv
    <2> QED
      BY <1>1, <2>1
  <1> QED
    BY <1>1, <1>2, <1>3 DEF OInv, FreshInv, Waits, IdsOf

(* An item on the disk is of a session that was hatched. *)
LEMMA BlockBorn ==
  ASSUME OInv, NEW s \in Sids, NEW i \in disk[s].block
  PROVE  disk[s].gen > 0
  <1>1. i \in Item /\ i.gen = disk[s].gen
    BY Records DEF OInv, LifeInv, Record
  <1> QED
    BY <1>1, BoundsAssumption DEF Item

(* What waits in the memory of s, or in its saved record, after a step that  *)
(* saved it as it was, waited before.                                        *)
LEMMA SameBlock ==
  ASSUME OInv, NEW s \in Sids, NEW n, disk'[s].block = disk[s].block,
         disk'[s].status = disk[s].status,
         Bound(disk'[s]), n \in IdsOf(disk'[s].block)
  PROVE  Waits(n)
  <1>1. PICK i \in disk[s].block : i.id = n
    BY DEF IdsOf
  <1>2. Bound(disk[s])
    BY BlockBorn DEF Bound
  <1> QED
    BY <1>1, <1>2 DEF Waits, IdsOf

LEMMA MovesFate ==
  ASSUME OInv, NEW s \in Sids, Keep(s), NEW n \in Ids
  PROVE  Fate(n)
  <1> USE DEF Keep
  <1>1. created \in Nat /\ created' \in Nat /\ created <= created' /\ n \in Nat
    BY Records, BoundsAssumption DEF TypeOK, Ids, Moves, HandlerMoves
  <1>2. told'[n] = told[n] \/ (n \in hand[s] /\ told[n] = 0 /\ told'[n] = 1)
    BY DEF Moves, Untold, Polled, Replied, OInv, SpentInv
  <1>3. n \in hand[s] => Waits(n)
    BY DEF Waits
  <1>4. n > created /\ n <= created' => Waits(n)' /\ told'[n] = 0
    <2> SUFFICES ASSUME n > created, n <= created' PROVE Waits(n)' /\ told'[n] = 0
      OBVIOUS
    <2>1. n \in IdsOf(queue'[s])
      BY DEF Moves, HandlerMoves
    <2>2. told'[n] = 0
      BY <1>2, <1>3, NotYet
    <2> QED
      BY <2>1, <2>2 DEF Waits, IdsOf
  <1>5. ASSUME NEW t \in Sids, n \in hand'[t]
        PROVE  Waits(n)
    <2>1. n \in hand[t] \/ (t = s /\ n \in IdsOf(queue[s]))
      BY <1>5 DEF Moves, HandlerMoves, Untold, Polled, Replied
    <2> QED
      BY <2>1 DEF Waits
  <1>6. ASSUME NEW t \in Sids, n \in IdsOf(queue'[t])
        PROVE  Waits(n) \/ (created < n /\ n <= created')
    <2>1. PICK i \in queue'[t] : i.id = n
      BY <1>6 DEF IdsOf
    <2>2. i \in queue[t] \/ (created < n /\ n <= created')
      BY <2>1 DEF Moves, HandlerMoves
    <2> QED
      BY <2>1, <2>2 DEF Waits, IdsOf
  <1>7. ASSUME NEW t \in Sids, Bound(disk'[t]), n \in IdsOf(disk'[t].block)
        PROVE  Waits(n) \/ (created < n /\ n <= created')
    <2>1. CASE disk'[t].block = disk[t].block /\ disk'[t].status = disk[t].status
      BY <1>7, <2>1, SameBlock
    <2>2. CASE t # s
      <3>1. disk'[t].block = disk[t].block /\ disk'[t].status = disk[t].status
        BY <2>2 DEF Moves, HandlerMoves, OInv, LifeInv
      <3> QED
        BY <2>1, <3>1
    <2>3. CASE t = s /\ disk'[s].block = queue'[s]
      BY <1>6, <1>7, <2>3
    <2>4. disk'[s].status = "bound" \/ t # s
      BY <1>7 DEF Bound
    <2>5. disk'[s].block # {} \/ t # s
      BY <1>7 DEF IdsOf
    <2> QED
      BY <2>1, <2>2, <2>3, <2>4, <2>5 DEF Moves, HandlerMoves, Block
  <1>8. Waits(n)' => Waits(n) \/ (created < n /\ n <= created')
    BY <1>5, <1>6, <1>7 DEF Waits, IdsOf, Bound
  <1> QED
    BY <1>1, <1>2, <1>3, <1>4, <1>8 DEF Fate

LEMMA ProcessFate ==
  ASSUME OInv, Load \/ Close \/ Crash, NEW n \in Ids
  PROVE  Fate(n)
  <1>1. told' = told /\ created' = created /\ created \in Nat /\ n \in Nat
    BY Counters DEF Load, Close, Crash
  <1>2. \A t \in Sids : /\ hand'[t] \subseteq hand[t]
                        /\ disk'[t].block = disk[t].block /\ disk'[t].status = disk[t].status
    BY StoppedType DEF Load, Close, Crash, OInv, LifeInv
  <1>3. \A t \in Sids : n \in IdsOf(queue'[t]) => Waits(n)
    <2>1. CASE Load
      BY <2>1 DEF Load, Hydrated, Waits, IdsOf
    <2>2. CASE Close \/ Crash
      BY <2>2, StoppedType DEF Close, Crash, IdsOf
    <2> QED
      BY <2>1, <2>2
  <1>4. \A t \in Sids : Bound(disk'[t]) /\ n \in IdsOf(disk'[t].block) => Waits(n)
    BY <1>2, SameBlock
  <1>5. \A t \in Sids : n \in hand'[t] => Waits(n)
    BY <1>2 DEF Waits
  <1>6. Waits(n)' => Waits(n)
    BY <1>3, <1>4, <1>5 DEF Waits, IdsOf, Bound
  <1> QED
    BY <1>1, <1>6 DEF Fate

LEMMA NextFate ==
  ASSUME OInv, Next, NEW n \in Ids
  PROVE  Fate(n)
  <1>1. CASE \E s \in Sids : Handler(s)
    BY <1>1, HandlerKeeps, MovesFate
  <1>2. CASE Load \/ Close \/ Crash
    BY <1>2, ProcessFate
  <1>3. CASE Tick
    <2>1. told' = told /\ created' = created /\ created \in Nat /\ n \in Nat
      BY <1>3, Counters DEF Tick
    <2>2. Waits(n)' = Waits(n)
      BY <1>3 DEF Tick, Waits, IdsOf, Bound
    <2> QED
      BY <2>1, <2>2 DEF Fate
  <1> QED
    BY <1>1, <1>2, <1>3 DEF Next

LEMMA FateStep ==
  ASSUME OInv, OInv', \A n \in Ids : Fate(n)
  PROVE  Words!Next
  <1>1. ASSUME NEW n \in Ids
        PROVE  /\ Utterance(n) \in Words!States /\ Utterance(n)' \in Words!States
               /\ \/ Utterance(n)' = Utterance(n) /\ told'[n] = told[n]
                  \/ Utterance(n) = "none" /\ Utterance(n)' = "waiting" /\ told'[n] = told[n]
                  \/ Utterance(n) = "waiting" /\ Utterance(n)' = "told" /\ told'[n] = told[n] + 1
                  \/ Utterance(n) = "waiting" /\ Utterance(n)' = "gone" /\ told'[n] = told[n]
    <2>1. /\ n \in Nat /\ created \in Nat /\ created' \in Nat
          /\ told[n] \in 0..2 /\ told'[n] \in 0..2
      BY BoundsAssumption DEF Ids, OInv, TypeOK
    <2>2. n > created => told[n] = 0 /\ ~Waits(n)
      BY NotYet
    <2>3. n > created' => told'[n] = 0 /\ ~Waits(n)'
      <3>1. (n > created => told[n] = 0 /\ ~Waits(n))'
        BY NotYet, PTL
      <3> QED
        BY <3>1
    <2>4. Fate(n)
      OBVIOUS
    <2> DEFINE w == Waits(n)
               v == Waits(n)'
    <2>5. Utterance(n) = CASE told[n] > 0 -> "told"
                           [] told[n] = 0 /\ w -> "waiting"
                           [] told[n] = 0 /\ ~w /\ n <= created -> "gone"
                           [] n > created -> "none"
      BY DEF Utterance
    <2>6. Utterance(n)' = CASE told'[n] > 0 -> "told"
                            [] told'[n] = 0 /\ v -> "waiting"
                            [] told'[n] = 0 /\ ~v /\ n <= created' -> "gone"
                            [] n > created' -> "none"
      BY DEF Utterance
    <2> HIDE DEF w, v
    <2>7. /\ told'[n] = told[n] \/ (w /\ told[n] = 0 /\ told'[n] = 1)
          /\ v => w \/ (created < n /\ n <= created')
          /\ created < n /\ n <= created' => v /\ told'[n] = 0
          /\ created <= created'
      BY <2>4 DEF Fate, w, v
    <2>8. /\ n > created => told[n] = 0 /\ ~w
          /\ n > created' => told'[n] = 0 /\ ~v
      BY <2>2, <2>3 DEF w, v
    <2> QED
      BY <2>1, <2>5, <2>6, <2>7, <2>8 DEF Words!States
  <1>2. told' \in [Ids -> Nat]
    BY DEF OInv, TypeOK
  <1>3. \A n \in Ids : Words!Stay(n) \/ Words!Want(n) \/ Words!Tell(n) \/ Words!Vanish(n)
    BY <1>1 DEF Words!Stay, Words!Want, Words!Tell, Words!Vanish
  <1> QED
    BY <1>1, <1>2, <1>3 DEF Words!Next

(* The outbox tells each word at most once, and never one that is gone,      *)
(* across aborted handlers, cancelled closes, crashes, restarts and lives:   *)
(* outbox.py with the records it is saved in implements Utterances.          *)
THEOREM OutboxImplementsUtterances == Spec => ToldOnce
  <1>1. Init => Words!Init
    <2> SUFFICES ASSUME Init PROVE Words!Init
      OBVIOUS
    <2>1. \A n \in Ids : told[n] = 0 /\ n > created /\ ~(n <= created)
      BY BoundsAssumption DEF Init, Ids
    <2>2. \A n \in Ids : ~Waits(n)
      BY InitInv, NotYet, <2>1
    <2>3. \A n \in Ids : Utterance(n) = "none"
      BY <2>1, <2>2 DEF Utterance
    <2> QED
      BY <2>3 DEF Words!Init, Init
  <1>2. OInv /\ [Next]_vars => [Words!Next]_(Words!vars)
    <2> SUFFICES ASSUME OInv, [Next]_vars PROVE [Words!Next]_(Words!vars)
      OBVIOUS
    <2>1. CASE Next
      BY <2>1, NextInv, NextFate, FateStep
    <2>2. CASE UNCHANGED vars
      BY <2>2 DEF vars, Words!vars, Utterance, Waits, IdsOf, Bound
    <2> QED
      BY <2>1, <2>2
  <1> QED
    BY <1>1, <1>2, OutboxInvariant, PTL DEF Spec, ToldOnce, Words!Spec

(* What a handler of s leaves waiting is accounted for. *)
Charged(s) ==
  /\ IdsOf(queue'[s]) \cup IdsOf(mem'[s].block) \subseteq mem'[s].sent
  /\ disk' = mem' \/ disk' = disk

LEMMA SavedCharged ==
  ASSUME OInv, NEW s \in Sids, NEW r \in Record, NEW q \in SUBSET Item,
         Change(s, Persisted(r, q), q), SaveAll, IdsOf(q) \subseteq r.sent
  PROVE  Charged(s)
  <1>1. Persisted(r, q).block = q /\ Persisted(r, q).sent = r.sent
    BY PersistedType
  <1>2. mem'[s] = Persisted(r, q) /\ queue'[s] = q /\ disk' = mem'
    BY DEF Change, SaveAll, OInv, TypeOK
  <1> QED
    BY <1>1, <1>2 DEF Charged

LEMMA DreamStepCharged ==
  ASSUME OInv, SentInv, NEW s \in Sids, NEW armed \in BOOLEAN, DreamStep(s, armed)
  PROVE  Charged(s)
  <1> DEFINE r     == [mem[s] EXCEPT !.flags = @ \cup (IF armed THEN {"dream"} ELSE {})]
             id    == created + 1
             ready == "dream" \in r.flags /\ "dreamt" \notin r.flags /\ CanMake(id, "daily")
             r2    == IF ready THEN [r EXCEPT !.flags = (@ \ {"dream"}) \cup {"dreamt"},
                                              !.sent = @ \cup {id}]
                      ELSE r
             q2    == IF ready THEN queue[s] \cup {Make(id, "daily", r.gen)} ELSE queue[s]
  <1>1. IF Silenced(r)
        THEN Change(s, Persisted(r2, q2), q2) /\ SaveAll /\ Goto(s, "idle")
        ELSE Change(s, r2, q2) /\ UNCHANGED disk /\ Goto(s, "shadow")
    BY DEF DreamStep
  <1>2. mem[s] \in Record /\ r \in Record /\ r.sent = mem[s].sent
        /\ r.gen = mem[s].gen /\ r.block = mem[s].block /\ mem[s].gen > 0
    BY Records DEF Record, Flags, DreamStep, OInv, LifeInv
  <1>3. ready => id \in Ids /\ Make(id, "daily", r.gen) \in Item /\ Make(id, "daily", r.gen).id = id
    BY <1>2, Records, MakeType, BoundsAssumption DEF OInv, Record
  <1>4. r2 \in Record /\ r2.block = mem[s].block
        /\ r2.sent = IF ready THEN mem[s].sent \cup {id} ELSE mem[s].sent
    <2> HIDE DEF r, ready, id
    <2> QED
      BY <1>2, <1>3 DEF Record, Flags
  <1>5. q2 \in SUBSET Item
    BY <1>3, Records
  <1>6. IdsOf(q2) \cup IdsOf(mem[s].block) \subseteq r2.sent
    <2> HIDE DEF r, r2, id, ready
    <2> QED
      BY <1>3, <1>4 DEF SentInv, IdsOf
  <1> HIDE DEF r, r2, q2, id, ready
  <1>7. CASE Silenced(r)
    BY <1>1, <1>4, <1>5, <1>6, <1>7, SavedCharged
  <1>8. CASE ~Silenced(r)
    <2>1. mem'[s] = r2 /\ queue'[s] = q2 /\ disk' = disk
      BY <1>1, <1>8 DEF Change, OInv, TypeOK
    <2> QED
      BY <1>4, <1>6, <2>1 DEF Charged
  <1> QED
    BY <1>7, <1>8

LEMMA BeatDoneCharged ==
  ASSUME OInv, SentInv, NEW s \in Sids, NEW noticed \in BOOLEAN,
         NEW word \in {"none", "proactive", "daily"}, BeatDone(s, noticed, word)
  PROVE  Charged(s)
  <1> DEFINE n     == IF noticed THEN created + 1 ELSE created
             last  == IF word = "none" THEN n ELSE n + 1
             items == {Make(i, "daily", mem[s].gen) : i \in (created + 1)..n}
                      \cup {Make(i, word, mem[s].gen) : i \in (n + 1)..last}
             q     == queue[s] \cup items
             r     == [mem[s] EXCEPT !.flags = IF noticed THEN @ \ {"notice"} ELSE @,
                                     !.sent = @ \cup IdsOf(items)]
  <1>1. /\ Change(s, Persisted(r, q), q) /\ SaveAll
        /\ noticed => CanMake(created + 1, "daily")
        /\ word # "none" => CanMake(last, word)
    BY DEF BeatDone
  <1>2. items \subseteq Item
    <2>1. /\ n \in Nat /\ last \in Nat /\ created <= n /\ n <= created + 1 /\ n <= last
          /\ last <= n + 1 /\ created \in Nat
          /\ mem[s].gen \in 1..MaxGen
      BY Records, BoundsAssumption DEF BeatDone, OInv, LifeInv, Record
    <2>2. /\ n # created => noticed /\ n = created + 1
          /\ last # n => word # "none" /\ last = n + 1
      OBVIOUS
    <2> HIDE DEF n, last
    <2>3. ASSUME NEW i \in (created + 1)..n PROVE Make(i, "daily", mem[s].gen) \in Item
      <3>1. i = created + 1 /\ i \in Nat \ {0} /\ CanMake(i, "daily")
        BY <1>1, <2>1, <2>2
      <3> QED
        BY <2>1, <3>1, MakeType DEF OInv
    <2>4. ASSUME NEW i \in (n + 1)..last PROVE Make(i, word, mem[s].gen) \in Item
      <3>1. i = last /\ i \in Nat \ {0} /\ CanMake(i, word) /\ word # "none"
        BY <1>1, <2>1, <2>2
      <3> QED
        BY <2>1, <3>1, MakeType DEF OInv
    <2> QED
      BY <2>3, <2>4
  <1> HIDE DEF n, last, items
  <1>3. r \in Record /\ r.sent = mem[s].sent \cup IdsOf(items)
    <2>1. IdsOf(items) \subseteq Ids
      BY <1>2 DEF IdsOf, Item
    <2> QED
      BY <2>1, Records DEF Record, Flags
  <1>4. q \in SUBSET Item /\ IdsOf(q) \subseteq r.sent
    BY <1>2, <1>3, Records DEF SentInv, IdsOf
  <1> HIDE DEF q, r
  <1> QED
    BY <1>1, <1>3, <1>4, SavedCharged

LEMMA ArbitrateCharged ==
  ASSUME OInv, SentInv, NEW s \in Sids, NEW delayed \in BOOLEAN, NEW epoch \in BOOLEAN,
         Arbitrate(s, delayed, epoch)
  PROVE  Charged(s)
  <1> DEFINE id    == created + 1
             items == IF delayed THEN {Make(id, "delayed", mem[s].gen)} ELSE {}
             q     == queue[s] \cup items
             r     == [Rolled(mem[s], epoch) EXCEPT !.sent = @ \cup IdsOf(items)]
  <1>1. /\ Change(s, Persisted(r, q), q) /\ SaveAll
        /\ delayed => CanMake(id, "delayed")
        /\ mem[s].gen > 0
    BY DEF Arbitrate, Enter, Bound
  <1>2. Rolled(mem[s], epoch) \in Record /\ Rolled(mem[s], epoch).sent = mem[s].sent
    BY Records, RolledType DEF OInv
  <1>3. items \subseteq Item
    BY <1>1, Records, MadeType
  <1> HIDE DEF items, id
  <1>4. r \in Record /\ r.sent = mem[s].sent \cup IdsOf(items)
    <2>1. IdsOf(items) \subseteq Ids
      BY <1>3 DEF IdsOf, Item
    <2> QED
      BY <1>2, <2>1 DEF Record
  <1>5. q \in SUBSET Item /\ IdsOf(q) \subseteq r.sent
    BY <1>3, <1>4, Records DEF SentInv, IdsOf
  <1> HIDE DEF q, r
  <1> QED
    BY <1>1, <1>4, <1>5, SavedCharged

LEMMA PlainCharged ==
  ASSUME OInv, SentInv, NEW s \in Sids,
         SubmitDone(s) \/ Impulse(s) \/ \E rolls, epoch \in BOOLEAN : PersistOnly(s, rolls, epoch)
  PROVE  Charged(s)
  <1>1. IdsOf(queue[s]) \subseteq mem[s].sent
    BY DEF SentInv
  <1>2. CASE SubmitDone(s)
    BY <1>1, <1>2, Records, SavedCharged DEF SubmitDone
  <1>3. CASE Impulse(s)
    <2> DEFINE q == queue[s] \ Drained(s)
    <2>1. Change(s, Persisted(mem[s], q), q) /\ SaveAll
      BY <1>3 DEF Impulse
    <2>2. q \in SUBSET Item /\ IdsOf(q) \subseteq mem[s].sent
      BY <1>1, Records DEF IdsOf
    <2> HIDE DEF q
    <2> QED
      BY <2>1, <2>2, Records, SavedCharged
  <1>4. ASSUME NEW rolls \in BOOLEAN, NEW epoch \in BOOLEAN, PersistOnly(s, rolls, epoch)
        PROVE  Charged(s)
    <2> DEFINE r == IF rolls THEN Rolled(mem[s], epoch) ELSE mem[s]
    <2>1. Change(s, Persisted(r, queue[s]), queue[s]) /\ SaveAll
      BY <1>4 DEF PersistOnly
    <2>2. r \in Record /\ r.sent = mem[s].sent
      BY Records, RolledType DEF OInv
    <2> HIDE DEF r
    <2> QED
      BY <1>1, <2>1, <2>2, Records, SavedCharged
  <1> QED
    BY <1>2, <1>3, <1>4

(* These add no word and give none back. *)
LEMMA StillCharged ==
  ASSUME OInv, SentInv, NEW s \in Sids,
         \/ \E epoch \in BOOLEAN : HeartbeatStart(s, epoch)
         \/ \E until \in 0..MaxNow : Silence(s, until)
         \/ Reply(s) \/ ResetStart(s) \/ ResetDone(s) \/ Abort(s)
  PROVE  Charged(s)
  <1>1. IdsOf(queue[s]) \cup IdsOf(mem[s].block) \subseteq mem[s].sent
    BY DEF SentInv
  <1>2. ASSUME NEW epoch \in BOOLEAN, HeartbeatStart(s, epoch) PROVE Charged(s)
    <2>1. mem'[s] = Rolled(mem[s], epoch) /\ UNCHANGED <<queue, disk>>
      BY <1>2 DEF HeartbeatStart, OInv, TypeOK
    <2> QED
      BY <1>1, <2>1, Records, RolledType DEF Charged, OInv
  <1>3. ASSUME NEW until \in 0..MaxNow, Silence(s, until) PROVE Charged(s)
    <2>1. mem'[s].block = mem[s].block /\ mem'[s].sent = mem[s].sent
      BY <1>3, Records DEF Silence, OInv, TypeOK, Record
    <2>2. queue' = queue /\ disk' = mem'
      BY <1>3 DEF Silence, SaveAll
    <2> QED
      BY <1>1, <2>1, <2>2 DEF Charged
  <1>4. CASE Reply(s) \/ ResetStart(s) \/ Abort(s)
    <2>1. UNCHANGED <<queue, mem, disk>>
      BY <1>4 DEF Reply, ResetStart, Abort
    <2> QED
      BY <1>1, <2>1 DEF Charged
  <1>5. CASE ResetDone(s)
    <2>1. UNCHANGED <<mem, disk>> /\ queue'[s] = {}
      BY <1>5 DEF ResetDone, OInv, TypeOK
    <2> QED
      BY <1>1, <2>1 DEF Charged, IdsOf
  <1> QED
    BY <1>2, <1>3, <1>4, <1>5

(* A new life accounts for nothing and has nothing waiting, an ended one     *)
(* keeps its block.                                                          *)
LEMMA LifeCharged ==
  ASSUME OInv, SentInv, NEW s \in Sids,
         Seal(s) \/ BindNew(s) \/ \E epoch \in BOOLEAN : SubmitStart(s, epoch)
  PROVE  Charged(s)
  <1>1. CASE Seal(s)
    <2>1. mem'[s].block = mem[s].block /\ mem'[s].sent = mem[s].sent
      BY <1>1, Records DEF Seal, OInv, TypeOK, Record
    <2>2. queue'[s] = {} /\ disk' = mem'
      BY <1>1 DEF Seal, SaveAll, OInv, TypeOK
    <2> QED
      BY <2>1, <2>2 DEF Charged, SentInv, IdsOf
  <1>2. CASE BindNew(s)
    <2>1. mem[s].gen + 1 \in 1..MaxGen
      BY <1>2, Records, BoundsAssumption DEF BindNew
    <2>2. mem'[s] = Born(mem[s].gen + 1) /\ queue'[s] = {} /\ disk' = mem'
      BY <1>2 DEF BindNew, Change, SaveAll, Born, OInv, TypeOK
    <2> QED
      BY <2>1, <2>2, BornType DEF Charged, OInv, IdsOf
  <1>3. ASSUME NEW epoch \in BOOLEAN, SubmitStart(s, epoch) PROVE Charged(s)
    <2>1. UNCHANGED <<queue, disk>>
      BY <1>3 DEF SubmitStart
    <2>2. CASE Bound(mem[s])
      <3>1. mem'[s] = Rolled(mem[s], epoch)
        BY <1>3, <2>2 DEF SubmitStart, OInv, TypeOK
      <3> QED
        BY <2>1, <3>1, Records, RolledType DEF Charged, OInv, SentInv
    <2>3. CASE ~Bound(mem[s])
      <3>1. mem'[s] = Born(1)
        BY <1>3, <2>3 DEF SubmitStart, Born, OInv, TypeOK
      <3>2. mem'[s].block = {}
        BY <3>1, BornType, BoundsAssumption DEF OInv
      <3>3. queue[s] = {}
        BY <1>3, <2>3, Records DEF SubmitStart, Bound, OInv, LifeInv, Record, Item
      <3> QED
        BY <2>1, <3>2, <3>3 DEF Charged, IdsOf
    <2> QED
      BY <2>2, <2>3
  <1> QED
    BY <1>1, <1>2, <1>3

LEMMA SentStep ==
  ASSUME OInv, SentInv, [Next]_vars
  PROVE  SentInv'
  <1>1. CASE \E s \in Sids : Handler(s)
    <2>1. PICK s \in Sids : Handler(s)
      BY <1>1
    <2>2. Charged(s)
      BY <2>1, DreamStepCharged, BeatDoneCharged, ArbitrateCharged, PlainCharged, StillCharged,
         LifeCharged DEF Handler, Beat
    <2>3. \A t \in Sids \ {s} : queue'[t] = queue[t] /\ mem'[t] = mem[t]
      BY <2>1, HandlerKeeps DEF Keep, Moves, HandlerMoves
    <2>4. \A t \in Sids : IdsOf(queue'[t]) \cup IdsOf(mem'[t].block) \subseteq mem'[t].sent
      BY <2>2, <2>3 DEF Charged, SentInv
    <2> QED
      BY <2>2, <2>4 DEF Charged, SentInv, IdsOf
  <1>2. CASE Load
    BY <1>2 DEF Load, Hydrated, SentInv, IdsOf
  <1>3. CASE Close \/ Crash
    <2>1. /\ mem' = [s \in Sids |-> NoRecord] /\ queue' = [s \in Sids |-> {}]
          /\ disk' = mem \/ disk' = disk
      BY <1>3 DEF Close, Crash, Stopped
    <2> QED
      BY <2>1 DEF SentInv, IdsOf, NoRecord
  <1>4. CASE Tick \/ UNCHANGED vars
    BY <1>4 DEF Tick, vars, SentInv, IdsOf
  <1> QED
    BY <1>1, <1>2, <1>3, <1>4 DEF Next

(* The agent is only handed words of the life that runs, each of them in its *)
(* account: nothing a sealed life left behind, whatever sessions save for    *)
(* each other, raise, are cancelled or die (Outbox.drain_due, bind).         *)
THEOREM OnlyHerWordsAreHanded == Spec => OnlyHerWords
  <1> DEFINE Handed == \A s \in Sids : \A i \in queue[s] :
                         i.id \in hand'[s] \ hand[s]
                           => Bound(mem[s]) /\ i.gen = mem[s].gen /\ i.id \in mem[s].sent
  <1>1. Init => SentInv
    BY NoRecordType DEF Init, SentInv, IdsOf, NoRecord
  <1>2. OInv /\ SentInv /\ [Next]_vars => [Handed]_vars
    <2> SUFFICES ASSUME OInv, SentInv, Next,
                        NEW s \in Sids, NEW i \in queue[s], i.id \in hand'[s] \ hand[s]
                 PROVE  Bound(mem[s]) /\ i.gen = mem[s].gen /\ i.id \in mem[s].sent
      OBVIOUS
    <2>1. Impulse(s)
      <3>1. CASE \E t \in Sids : Handler(t)
        <4>1. PICK t \in Sids : Handler(t)
          BY <3>1
        <4>2. t = s
          BY <4>1, HandlerKeeps DEF Keep, Moves, HandlerMoves
        <4>3. hand' # hand /\ ~(hand' = [hand EXCEPT ![s] = {}])
          BY DEF OInv, TypeOK
        <4> QED
          BY <4>1, <4>2, <4>3
          DEF Handler, Beat, HeartbeatStart, DreamStep, BeatDone, Arbitrate, Reply, SubmitStart,
              SubmitDone, PersistOnly, Silence, ResetStart, ResetDone, Seal, BindNew, Abort
      <3>2. CASE Load \/ Close \/ Crash \/ Tick
        BY <3>2, StoppedType DEF Load, Close, Crash, Tick
      <3> QED
        BY <3>1, <3>2 DEF Next
    <2>2. ~Blocked(s)
      BY <2>1 DEF Impulse, Due, IdsOf, OInv, TypeOK
    <2> QED
      BY <2>2 DEF Blocked, OInv, LifeInv, SentInv, IdsOf
  <1>3. OInv /\ SentInv /\ [Next]_vars => SentInv'
    BY SentStep
  <1> QED
    BY <1>1, <1>2, <1>3, OutboxInvariant, PTL DEF Spec, OnlyHerWords
==============================================================================
