-------------------------- MODULE BindingLifeProofs --------------------------
(* Theorems about BindingLife, for every set of sessions, lifespan and       *)
(* bound.  The first half assumes that no handler is abandoned at an await   *)
(* and that bindings.json stays readable; ledger rows may be lost at any     *)
(* time, and the process may be killed at any time.  The second half drops   *)
(* the first two assumptions and, but where a theorem says otherwise, makes  *)
(* the third: the ledger keeps every row.                                    *)
EXTENDS BindingLife, TLAPS

(* What ties a session's record in memory to its record on disk: the same    *)
(* generation, no younger, or the generation after a sealed one.             *)
Ahead(m, d) == \/ m.gen = d.gen /\ m.p <= d.p /\ m.born = d.born
                  /\ (d.status = "sealed" => m.status = "sealed")
               \/ m.gen = d.gen + 1 /\ (d.gen = 0 \/ d.status = "sealed")

WellFormed(r) == /\ r.status = "sealed" => Born(r)
                 /\ ~Born(r) => r.p = P0

SessionInv(s) ==
  /\ ~up => pc[s] = "idle"
  /\ up /\ pc[s] = "idle" => disk[s] = mem[s]
  /\ WellFormed(mem[s]) /\ WellFormed(disk[s])
  /\ \A g \in 1..MaxGen : g > disk[s].gen => ledger[s][g] >= P0
  /\ up /\ Born(mem[s]) => mem[s].p <= ledger[s][mem[s].gen]
  /\ disk[s].status = "sealed" => disk[s].p <= ledger[s][disk[s].gen]
  /\ up => Ahead(mem[s], disk[s])

IInv == TypeOK /\ \A s \in Sids : SessionInv(s)

------------------------------------------------------------------------------
(* The operators the handlers are built from. *)

(* P0 is a natural number, and a lost or missing row lies above it. *)
LEMMA P0Type == P0 \in Nat /\ NoRow \in Nat /\ P0 < NoRow /\ P0 > 0
  BY LifespanAssumption DEF P0, NoRow

LEMMA EpochType == \A p \in 0..P0 : EpochOf(p) \in Epochs
  BY P0Type DEF EpochOf, Epochs

LEMMA SettledBounds ==
  ASSUME NEW r \in Record
  PROVE  Settled(r) \in 0..P0 /\ Settled(r) <= r.p /\ r.p <= Settled(r) + 4
  <1>1. r.high \in 0..2 /\ r.p \in 0..P0
    BY DEF Record
  <1>2. Spend(r.high) \in 2..4
    BY <1>1 DEF Spend
  <1> QED
    BY <1>1, <1>2, P0Type DEF Settled, SettleDay

LEMMA RolledProperties ==
  ASSUME NEW r \in Record, today \in Days
  PROVE  /\ Rolled(r) \in Record
         /\ Rolled(r).gen = r.gen /\ Rolled(r).status = r.status
         /\ Rolled(r).born = r.born
         /\ Rolled(r).p <= r.p
  <1>1. CASE r.day = today
    BY <1>1, P0Type DEF Rolled, Record
  <1>2. CASE r.day # today
    <2> DEFINE q == Settled(r)
               moved == EpochOf(q) # EpochOf(r.p)
               e == IF moved THEN EpochOf(q) ELSE r.epoch
               n == IF moved THEN EpochOf(q) ELSE r.notice
               h == 0
               m == {}
    <2>1. q \in 0..P0 /\ q <= r.p
      BY SettledBounds
    <2>2. e \in Epochs /\ n \in Epochs /\ h \in 0..2 /\ m \in SUBSET Marks
      BY <2>1, EpochType DEF Record
    <2>3. Rolled(r) = [r EXCEPT !.p = q, !.day = today, !.marks = m, !.high = h,
                         !.epoch = e, !.notice = n]
      BY <1>2 DEF Rolled
    <2> HIDE DEF q, e, n, h, m, moved
    <2>4. Rolled(r) \in Record
      BY <2>1, <2>2, <2>3, P0Type DEF Record
    <2>5. /\ Rolled(r).gen = r.gen /\ Rolled(r).status = r.status
          /\ Rolled(r).born = r.born /\ Rolled(r).p = q
      BY <2>3 DEF Record
    <2> QED
      BY <2>1, <2>4, <2>5
  <1> QED
    BY <1>1, <1>2

LEMMA HatchedProperties ==
  ASSUME NEW gen \in 0..MaxGen, NEW mode \in Modes, today \in Days
  PROVE  /\ Hatched(gen, mode) \in Record
         /\ Hatched(gen, mode).gen = gen /\ Hatched(gen, mode).p = P0
         /\ Hatched(gen, mode).status = "bound"
  BY P0Type DEF Hatched, Record, Epochs

LEMMA NoRecordProperties ==
  NoRecord \in Record /\ NoRecord.gen = 0 /\ NoRecord.p = P0 /\ NoRecord.status = "bound"
  BY P0Type, ModeAssumption, BoundsAssumption DEF NoRecord, Record, Epochs, Days

(* A row that is no younger than its predecessors only lowers the ledger.    *)
LEMMA AppendProperties ==
  ASSUME TypeOK, NEW s \in Sids, NEW g \in 1..MaxGen, NEW p \in 0..P0,
         Append(s, g, p), p <= ledger[s][g]
  PROVE  /\ ledger' \in [Sids -> [1..MaxGen -> 0..NoRow]]
         /\ tail' \in {"clean", "torn"}
         /\ \A t \in Sids : \A h \in 1..MaxGen : ledger'[t][h] <= ledger[t][h]
         /\ \A t \in Sids : \A h \in 1..MaxGen :
              t # s \/ h # g => ledger'[t][h] = ledger[t][h]
         /\ \A t \in Sids \ {s} : ledger'[t] = ledger[t]
         /\ ledger'[s][g] >= p
  <1>1. CASE UNCHANGED ledger /\ tail' \in {"clean", "torn"}
    <2>1. \A t \in Sids : \A h \in 1..MaxGen : ledger[t][h] \in 0..NoRow
      BY DEF TypeOK
    <2> QED
      BY <1>1, <2>1, P0Type DEF TypeOK
  <1>2. CASE tail = "clean" /\ ledger' = [ledger EXCEPT ![s][g] = p] /\ UNCHANGED tail
    <2>1. p \in 0..NoRow
      BY P0Type
    <2>2. ledger[s] \in [1..MaxGen -> 0..NoRow]
      BY DEF TypeOK
    <2>3. ledger' = [ledger EXCEPT ![s] = [ledger[s] EXCEPT ![g] = p]]
      BY <1>2
    <2>4. [ledger[s] EXCEPT ![g] = p] \in [1..MaxGen -> 0..NoRow]
      BY <2>1, <2>2
    <2>5. ledger' \in [Sids -> [1..MaxGen -> 0..NoRow]]
      BY <2>3, <2>4 DEF TypeOK
    <2>6. \A t \in Sids : t # s => ledger'[t] = ledger[t]
      BY <2>3 DEF TypeOK
    <2>7. /\ \A h \in 1..MaxGen : h # g => ledger'[s][h] = ledger[s][h]
          /\ ledger'[s][g] = p
      BY <2>2, <2>3 DEF TypeOK
    <2>8. \A t \in Sids : \A h \in 1..MaxGen : ledger[t][h] \in 0..NoRow
      BY DEF TypeOK
    <2>9. \A t \in Sids : \A h \in 1..MaxGen : ledger'[t][h] <= ledger[t][h]
      BY <2>6, <2>7, <2>8
    <2>10. \A t \in Sids : \A h \in 1..MaxGen :
             t # s \/ h # g => ledger'[t][h] = ledger[t][h]
      BY <2>6, <2>7
    <2> QED
      BY <1>2, <2>5, <2>6, <2>7, <2>9, <2>10
  <1> QED
    BY <1>1, <1>2 DEF Append, TypeOK

(* Effective is the smaller of the record's P and its row. *)
LEMMA EffectiveBounds ==
  ASSUME TypeOK, NEW s \in Sids, NEW r \in Record
  PROVE  /\ Effective(s, r) \in 0..P0
         /\ Effective(s, r) <= r.p
         /\ Born(r) => Effective(s, r) <= ledger[s][r.gen]
         /\ Born(r) /\ r.p <= ledger[s][r.gen] => Effective(s, r) = r.p
         /\ ~Born(r) => Effective(s, r) = r.p
  <1>1. r.p \in 0..P0 /\ r.gen \in 0..MaxGen
    BY DEF Record
  <1>2. Born(r) => ledger[s][r.gen] \in 0..NoRow
    BY <1>1, BoundsAssumption DEF TypeOK, Born
  <1> QED
    BY <1>1, <1>2, P0Type DEF Effective

------------------------------------------------------------------------------
(* The shapes of steps: every handler step changes one session's record and  *)
(* leaves the disk alone or writes the whole table.                          *)

(* A session that is not moved, whether or not the table is saved.           *)
LEMMA OtherSession ==
  ASSUME TypeOK, NEW t \in Sids, SessionInv(t), up, up',
         mem'[t] = mem[t], pc'[t] = pc[t], ledger'[t] = ledger[t],
         disk'[t] = disk[t] \/ disk'[t] = mem[t]
  PROVE  SessionInv(t)'
  <1>1. mem[t] \in Record /\ disk[t] \in Record
    BY DEF TypeOK
  <1>2. /\ mem[t].gen \in 0..MaxGen /\ disk[t].gen \in 0..MaxGen
        /\ mem[t].p \in 0..P0 /\ disk[t].p \in 0..P0
    BY <1>1 DEF Record
  <1>3. CASE disk'[t] = disk[t]
    BY <1>3 DEF SessionInv
  <1>4. CASE disk'[t] = mem[t]
    <2>1. up /\ Born(mem[t]) => mem[t].p <= ledger[t][mem[t].gen]
      BY DEF SessionInv
    <2>2. WellFormed(mem[t]) /\ Ahead(mem[t], disk[t])
      BY DEF SessionInv
    <2>3. disk[t].gen <= mem[t].gen
      BY <1>2, <2>2 DEF Ahead
    <2>4. \A g \in 1..MaxGen : g > mem[t].gen => ledger[t][g] >= P0
      BY <1>2, <2>3 DEF SessionInv
    <2>5. Ahead(mem[t], mem[t])
      BY <1>2 DEF Ahead
    <2>6. mem[t].status = "sealed" => mem[t].p <= ledger[t][mem[t].gen]
      BY <2>1, <2>2 DEF WellFormed
    <2> QED
      BY <1>4, <2>1, <2>2, <2>4, <2>5, <2>6 DEF SessionInv
  <1> QED
    BY <1>3, <1>4

(* The first step of a handler: the disk still holds the record the handler  *)
(* found, and the new record is ahead of it by one rollover, seal or life.   *)
LEMMA HeadStep ==
  ASSUME IInv, NEW s \in Sids, NEW r \in Record,
         NEW place \in Awaiting \cup {"saving"},
         up, pc[s] = "idle", UNCHANGED <<disk, up, today, crashes>>,
         mem' = [mem EXCEPT ![s] = r], pc' = [pc EXCEPT ![s] = place],
         ledger' \in [Sids -> [1..MaxGen -> 0..NoRow]],
         tail' \in {"clean", "torn"},
         \A t \in Sids \ {s} : ledger'[t] = ledger[t],
         Born(r), r.p <= ledger'[s][r.gen], Ahead(r, mem[s]),
         \A g \in 1..MaxGen : g > mem[s].gen => ledger'[s][g] >= P0,
         mem[s].status = "sealed" => mem[s].p <= ledger'[s][mem[s].gen]
  PROVE  IInv'
  <1>1. TypeOK'
    BY DEF IInv, TypeOK, Awaiting
  <1>2. ASSUME NEW t \in Sids \ {s}
        PROVE  SessionInv(t)'
    <2>1. mem'[t] = mem[t] /\ pc'[t] = pc[t] /\ ledger'[t] = ledger[t] /\ up'
      BY DEF IInv, TypeOK
    <2> QED
      BY <2>1, OtherSession DEF IInv
  <1>3. SessionInv(s)'
    <2>1. mem'[s] = r /\ pc'[s] = place /\ disk'[s] = mem[s] /\ up'
      BY DEF IInv, TypeOK, SessionInv
    <2>2. place # "idle"
      BY DEF Awaiting
    <2>3. WellFormed(r) /\ WellFormed(mem[s])
      BY DEF IInv, SessionInv, WellFormed
    <2> QED
      BY <2>1, <2>2, <2>3 DEF SessionInv
  <1> QED
    BY <1>1, <1>2, <1>3 DEF IInv

(* A later step of a handler: it no longer moves P, generation or status.    *)
LEMMA TailStep ==
  ASSUME IInv, NEW s \in Sids, NEW r \in Record,
         NEW place \in Awaiting \cup {"idle", "saving"},
         up, UNCHANGED <<ledger, tail, up, today, crashes>>,
         mem' = [mem EXCEPT ![s] = r], pc' = [pc EXCEPT ![s] = place],
         r.gen = mem[s].gen, r.p = mem[s].p, r.born = mem[s].born,
         r.status = mem[s].status,
         disk' = mem' \/ (disk' = disk /\ place # "idle")
  PROVE  IInv'
  <1>1. TypeOK'
    <2>1. mem' \in [Sids -> Record] /\ pc' \in [Sids -> Awaiting \cup {"idle", "saving"}]
      BY DEF IInv, TypeOK
    <2> QED
      BY <2>1 DEF IInv, TypeOK
  <1>2. ASSUME NEW t \in Sids \ {s}
        PROVE  SessionInv(t)'
    <2>1. /\ mem'[t] = mem[t] /\ pc'[t] = pc[t] /\ ledger'[t] = ledger[t] /\ up'
          /\ disk'[t] = disk[t] \/ disk'[t] = mem[t]
      BY DEF IInv, TypeOK
    <2> QED
      BY <2>1, OtherSession DEF IInv
  <1>3. SessionInv(s)'
    <2>1. mem'[s] = r /\ pc'[s] = place /\ up'
      BY DEF IInv, TypeOK
    <2>2. /\ mem[s].gen \in 0..MaxGen /\ disk[s].gen \in 0..MaxGen
          /\ mem[s].p \in 0..P0 /\ disk[s].p \in 0..P0
      BY DEF IInv, TypeOK, Record
    <2>3. SessionInv(s)
      BY DEF IInv
    <2>4. WellFormed(r) /\ (Born(r) => r.p <= ledger[s][r.gen])
      BY <2>3 DEF SessionInv, WellFormed, Born
    <2>5. CASE disk' = mem'
      <3>1. disk'[s] = r
        BY <2>1, <2>5
      <3>2. disk[s].gen <= r.gen
        BY <2>2, <2>3 DEF SessionInv, Ahead
      <3>3. \A g \in 1..MaxGen : g > r.gen => ledger[s][g] >= P0
        BY <2>2, <2>3, <3>2 DEF SessionInv
      <3>4. Ahead(r, r)
        BY <2>2 DEF Ahead
      <3>5. r.status = "sealed" => r.p <= ledger[s][r.gen]
        BY <2>4 DEF WellFormed
      <3> QED
        BY <2>1, <2>4, <3>1, <3>3, <3>4, <3>5 DEF SessionInv
    <2>6. CASE disk' = disk /\ place # "idle"
      <3>1. Ahead(r, disk[s])
        BY <2>3 DEF SessionInv, Ahead
      <3> QED
        BY <2>1, <2>3, <2>4, <2>6, <3>1 DEF SessionInv
    <2> QED
      BY <2>5, <2>6
  <1> QED
    BY <1>1, <1>2, <1>3 DEF IInv

------------------------------------------------------------------------------
(* The ledger rows the first steps write. *)

Falls == \A t \in Sids : \A g \in 1..MaxGen : ledger'[t][g] <= ledger[t][g]

(* What HeadStep asks of the ledger when session s goes on with record r.    *)
RowsFit(s, r) ==
  /\ ledger' \in [Sids -> [1..MaxGen -> 0..NoRow]]
  /\ tail' \in {"clean", "torn"}
  /\ \A t \in Sids \ {s} : ledger'[t] = ledger[t]
  /\ r.p <= ledger'[s][r.gen]
  /\ \A g \in 1..MaxGen : g > mem[s].gen => ledger'[s][g] >= P0
  /\ mem[s].status = "sealed" => mem[s].p <= ledger'[s][mem[s].gen]

(* A row that is no younger than the generation's last one fits.             *)
LEMMA RowFits ==
  ASSUME IInv, NEW s \in Sids, Enter(s), NEW r \in Record, Born(r),
         r.p <= ledger[s][r.gen],
         Append(s, r.gen, r.p),
         \/ r.gen = mem[s].gen /\ mem[s].status = "bound"
         \/ r.gen = mem[s].gen + 1 /\ r.p = P0
  PROVE  RowsFit(s, r) /\ Falls
  <1>1. r.gen \in 1..MaxGen /\ r.p \in 0..P0 /\ mem[s].gen \in 0..MaxGen
    BY BoundsAssumption DEF Record, Born, IInv, TypeOK
  <1>2. /\ ledger' \in [Sids -> [1..MaxGen -> 0..NoRow]]
        /\ tail' \in {"clean", "torn"}
        /\ \A t \in Sids : \A h \in 1..MaxGen : ledger'[t][h] <= ledger[t][h]
        /\ \A t \in Sids : \A h \in 1..MaxGen :
             t # s \/ h # r.gen => ledger'[t][h] = ledger[t][h]
        /\ \A t \in Sids \ {s} : ledger'[t] = ledger[t]
        /\ ledger'[s][r.gen] >= r.p
    BY <1>1, AppendProperties DEF IInv
  <1>4. /\ disk[s] = mem[s] /\ WellFormed(mem[s])
        /\ \A g \in 1..MaxGen : g > mem[s].gen => ledger[s][g] >= P0
        /\ mem[s].status = "sealed" => mem[s].p <= ledger[s][mem[s].gen]
    BY DEF IInv, SessionInv, Enter
  <1>5. \A g \in 1..MaxGen : g > mem[s].gen => ledger'[s][g] >= P0
    BY <1>1, <1>2, <1>4
  <1>6. mem[s].status = "sealed" => mem[s].p <= ledger'[s][mem[s].gen]
    BY <1>1, <1>2, <1>4 DEF WellFormed, Born
  <1>7. r.p <= ledger'[s][r.gen]
    BY <1>1, <1>2, P0Type
  <1> QED
    BY <1>2, <1>5, <1>6, <1>7 DEF RowsFit, Falls

(* The row of a rollover. *)
LEMMA RollRow ==
  ASSUME IInv, NEW s \in Sids, Enter(s), Bound(mem[s]),
         AppendIfFell(s, mem[s], Rolled(mem[s]))
  PROVE  /\ RowsFit(s, Rolled(mem[s])) /\ Falls
         /\ Rolled(mem[s]) \in Record
         /\ Born(Rolled(mem[s])) /\ Ahead(Rolled(mem[s]), mem[s])
  <1> DEFINE r == Rolled(mem[s])
  <1>1. mem[s] \in Record /\ today \in Days
    BY DEF IInv, TypeOK
  <1>2. /\ r \in Record /\ r.gen = mem[s].gen /\ r.status = mem[s].status
        /\ r.born = mem[s].born /\ r.p <= mem[s].p
    BY <1>1, RolledProperties
  <1>3. Born(r) /\ Ahead(r, mem[s])
    BY <1>2 DEF Bound, Born, Ahead
  <1>4. /\ disk[s] = mem[s] /\ mem[s].p <= ledger[s][mem[s].gen]
        /\ \A g \in 1..MaxGen : g > mem[s].gen => ledger[s][g] >= P0
    BY DEF IInv, SessionInv, Enter, Bound
  <1>5. mem[s].gen \in 1..MaxGen /\ mem[s].p \in 0..P0 /\ r.p \in 0..P0
    BY <1>1, <1>2, BoundsAssumption DEF Record, Bound, Born
  <1>6. ledger[s][mem[s].gen] \in 0..NoRow
    BY <1>5 DEF IInv, TypeOK
  <1>7. r.p <= ledger[s][r.gen]
    BY <1>2, <1>4, <1>5, <1>6, P0Type
  <1>8. CASE Append(s, r.gen, r.p)
    <2>1. mem[s].status = "bound"
      BY DEF Bound
    <2> HIDE DEF r
    <2>2. RowsFit(s, r) /\ Falls
      BY <1>2, <1>3, <1>7, <1>8, <2>1, RowFits
    <2> QED
      BY <1>2, <1>3, <2>2 DEF r
  <1>9. CASE UNCHANGED <<ledger, tail>>
    <2>1. Falls
      <3>1. \A t \in Sids : \A g \in 1..MaxGen : ledger[t][g] \in 0..NoRow
        BY DEF IInv, TypeOK
      <3> QED
        BY <1>9, <3>1, P0Type DEF Falls
    <2>2. mem[s].status = "bound"
      BY DEF Bound
    <2> QED
      BY <1>2, <1>3, <1>4, <1>7, <1>9, <2>1, <2>2 DEF RowsFit, IInv, TypeOK
  <1> QED
    BY <1>2, <1>8, <1>9 DEF AppendIfFell

(* The row of a new life. *)
LEMMA HatchRow ==
  ASSUME IInv, NEW s \in Sids, Enter(s), ~Bound(mem[s]), mem[s].gen < MaxGen,
         NEW mode \in Modes, Append(s, mem[s].gen + 1, P0)
  PROVE  LET r == Hatched(mem[s].gen + 1, mode)
         IN RowsFit(s, r) /\ Falls /\ r \in Record /\ Born(r) /\ Ahead(r, mem[s])
  <1> DEFINE r == Hatched(mem[s].gen + 1, mode)
  <1>1. mem[s] \in Record /\ today \in Days
    BY DEF IInv, TypeOK
  <1>2. mem[s].gen \in 0..MaxGen /\ mem[s].gen + 1 \in 1..MaxGen
    BY <1>1, BoundsAssumption DEF Record
  <1>3. r \in Record /\ r.gen = mem[s].gen + 1 /\ r.p = P0 /\ r.status = "bound"
    BY <1>1, <1>2, HatchedProperties, BoundsAssumption
  <1>4. Born(r) /\ Ahead(r, mem[s])
    <2>1. mem[s].gen = 0 \/ mem[s].status = "sealed"
      BY <1>1, <1>2 DEF Bound, Born, Record
    <2> QED
      BY <1>2, <1>3, <2>1 DEF Born, Ahead
  <1>5. r.p <= ledger[s][r.gen]
    <2>1. ledger[s][mem[s].gen + 1] >= P0
      BY <1>2 DEF IInv, SessionInv, Enter
    <2>2. ledger[s][mem[s].gen + 1] \in 0..NoRow
      BY <1>2 DEF IInv, TypeOK
    <2> QED
      BY <1>3, <2>1, <2>2, P0Type
  <1>6. Append(s, r.gen, r.p)
    BY <1>3
  <1> HIDE DEF r
  <1>7. RowsFit(s, r) /\ Falls
    BY <1>3, <1>4, <1>5, <1>6, RowFits
  <1> QED
    BY <1>3, <1>4, <1>7 DEF r

------------------------------------------------------------------------------
(* IInv is inductive: every step keeps it, lets no ledger row rise, and      *)
(* moves the disk only to a table that is no younger.                        *)

(* What a step may do to the saved record of a session.                      *)
DiskMoves(t) ==
  \/ disk'[t] = disk[t]
  \/ /\ Ahead(disk'[t], disk[t])
     /\ Born(disk'[t]) => disk'[t].p <= ledger'[t][disk'[t].gen]

StepKeeps == IInv' /\ Falls /\ \A t \in Sids : DiskMoves(t)

LEMMA FallsWhenUnchanged ==
  ASSUME TypeOK, UNCHANGED ledger
  PROVE  Falls
  <1>1. \A t \in Sids : \A g \in 1..MaxGen : ledger[t][g] \in 0..NoRow
    BY DEF TypeOK
  <1> QED
    BY <1>1, P0Type DEF Falls

LEMMA InitInv == Init => IInv
  <1> SUFFICES ASSUME Init PROVE IInv
    OBVIOUS
  <1>1. TypeOK
    <2>1. NoRow \in 0..NoRow
      BY P0Type
    <2>2. 1 \in Days /\ 0 \in 0..MaxCrashes
      BY BoundsAssumption DEF Days
    <2> QED
      BY <2>1, <2>2, NoRecordProperties DEF Init, TypeOK
  <1>2. ASSUME NEW s \in Sids
        PROVE  SessionInv(s)
    <2>1. mem[s] = NoRecord /\ disk[s] = NoRecord /\ up /\ pc[s] = "idle"
      BY DEF Init
    <2>2. \A g \in 1..MaxGen : ledger[s][g] = NoRow
      BY DEF Init
    <2>3. WellFormed(NoRecord) /\ Ahead(NoRecord, NoRecord) /\ ~Born(NoRecord)
      BY NoRecordProperties, P0Type DEF WellFormed, Ahead, Born
    <2> QED
      BY <2>1, <2>2, <2>3, NoRecordProperties, P0Type DEF SessionInv
  <1> QED
    BY <1>1, <1>2 DEF IInv

(* A first step that appended rows which fit. *)
LEMMA HeadKeeps ==
  ASSUME IInv, NEW s \in Sids, Enter(s), NEW r \in Record,
         NEW place \in Awaiting \cup {"saving"},
         UNCHANGED <<disk, up, today, crashes>>,
         Update(s, r), Goto(s, place),
         RowsFit(s, r), Falls, Born(r), Ahead(r, mem[s])
  PROVE  StepKeeps
  <1>1. IInv'
    BY HeadStep DEF Enter, Update, Goto, RowsFit
  <1>2. \A t \in Sids : DiskMoves(t)
    BY DEF DiskMoves
  <1> QED
    BY <1>1, <1>2 DEF StepKeeps

(* A later step, with or without the save of the whole table. *)
LEMMA TailKeeps ==
  ASSUME IInv, NEW s \in Sids, NEW r \in Record,
         NEW place \in Awaiting \cup {"idle", "saving"},
         up, UNCHANGED <<ledger, tail, up, today, crashes>>,
         Update(s, r), Goto(s, place),
         r.gen = mem[s].gen, r.p = mem[s].p, r.born = mem[s].born,
         r.status = mem[s].status,
         disk' = mem' \/ (disk' = disk /\ place # "idle")
  PROVE  StepKeeps
  <1>1. IInv'
    BY TailStep DEF Update, Goto
  <1>2. ASSUME NEW t \in Sids
        PROVE  DiskMoves(t)
    <2>1. CASE disk' = disk
      BY <2>1 DEF DiskMoves
    <2>2. CASE disk' = mem'
      <3>1. /\ mem'[t].gen = mem[t].gen /\ mem'[t].p = mem[t].p
            /\ mem'[t].born = mem[t].born /\ mem'[t].status = mem[t].status
        BY DEF Update, IInv, TypeOK
      <3>2. Ahead(mem[t], disk[t]) /\ (Born(mem[t]) => mem[t].p <= ledger[t][mem[t].gen])
        BY DEF IInv, SessionInv
      <3> QED
        BY <2>2, <3>1, <3>2 DEF DiskMoves, Ahead, Born
    <2> QED
      BY <2>1, <2>2
  <1> QED
    BY <1>1, <1>2, FallsWhenUnchanged DEF StepKeeps, IInv

LEMMA SeenProperties ==
  ASSUME NEW r \in Record, NEW active \in BOOLEAN
  PROVE  /\ Seen(r, active) \in Record
         /\ Seen(r, active).gen = r.gen /\ Seen(r, active).p = r.p
         /\ Seen(r, active).born = r.born /\ Seen(r, active).status = r.status
  <1> DEFINE m == r.marks \cup {"active_seen"}
  <1>1. m \in SUBSET Marks
    BY DEF Record, Marks
  <1>2. Seen(r, active) = r \/ Seen(r, active) = [r EXCEPT !.marks = m]
    BY DEF Seen
  <1> HIDE DEF m
  <1> QED
    BY <1>1, <1>2 DEF Record

LEMMA SubmitKeeps ==
  ASSUME IInv, NEW s \in Sids, NEW speaker \in {"user", "agent"}, Submit(s, speaker)
  PROVE  StepKeeps
  <1> DEFINE r == IF Born(mem[s]) THEN Rolled(mem[s]) ELSE Hatched(1, DefaultMode)
             m == r.marks \cup {"interacted"}
             place == IF speaker = "user" THEN "submit" ELSE "saving"
             q == IF speaker = "user" THEN [r EXCEPT !.marks = m] ELSE r
  <1>1. Enter(s) /\ UNCHANGED <<disk, up, today, crashes>> /\ mem[s].status = "bound"
    BY DEF Submit
  <1>2. RowsFit(s, r) /\ Falls /\ r \in Record /\ Born(r) /\ Ahead(r, mem[s])
    <2>1. CASE Born(mem[s])
      BY <1>1, <2>1, RollRow DEF Submit, Bound
    <2>2. CASE ~Born(mem[s])
      <3>1. mem[s].gen = 0
        BY <2>2, BoundsAssumption DEF IInv, TypeOK, Record, Born
      <3>2. 0 < MaxGen /\ Append(s, 0 + 1, P0)
        BY <2>2, BoundsAssumption DEF Submit
      <3>3. r = Hatched(mem[s].gen + 1, DefaultMode)
        BY <2>2, <3>1
      <3> HIDE DEF r
      <3> QED
        BY <1>1, <2>2, <3>1, <3>2, <3>3, HatchRow, ModeAssumption DEF Bound
    <2> QED
      BY <2>1, <2>2
  <1>3. Update(s, q) /\ Goto(s, place)
    BY DEF Submit, Update, Goto
  <1> HIDE DEF r
  <1>4. m \in SUBSET Marks
    BY <1>2 DEF Record, Marks
  <1> HIDE DEF m
  <1>5. /\ q \in Record /\ q.gen = r.gen /\ q.p = r.p /\ q.born = r.born
        /\ q.status = r.status
    BY <1>2, <1>4 DEF Record
  <1>6. place \in Awaiting \cup {"saving"}
    BY DEF Awaiting
  <1> HIDE DEF q, place
  <1>7. RowsFit(s, q) /\ Born(q) /\ Ahead(q, mem[s])
    BY <1>2, <1>5 DEF RowsFit, Born, Ahead
  <1> QED
    BY <1>1, <1>2, <1>3, <1>5, <1>6, <1>7, HeadKeeps

LEMMA ArbitrateKeeps ==
  ASSUME IInv, NEW s \in Sids, NEW swallow \in BOOLEAN, Arbitrate(s, swallow)
  PROVE  StepKeeps
  <1> DEFINE r == Rolled(mem[s])
             h == IF swallow THEN Raised(r.high) ELSE r.high
             q == [r EXCEPT !.high = h]
  <1>1. Enter(s) /\ UNCHANGED <<disk, up, today, crashes>> /\ Bound(mem[s])
    BY DEF Arbitrate
  <1>2. RowsFit(s, r) /\ Falls /\ r \in Record /\ Born(r) /\ Ahead(r, mem[s])
    BY <1>1, RollRow DEF Arbitrate
  <1>3. Update(s, q) /\ Goto(s, "saving")
    BY DEF Arbitrate
  <1> HIDE DEF r
  <1>4. h \in 0..2
    BY <1>2 DEF Record, Raised
  <1> HIDE DEF h
  <1>5. /\ q \in Record /\ q.gen = r.gen /\ q.p = r.p /\ q.born = r.born
        /\ q.status = r.status
    BY <1>2, <1>4 DEF Record
  <1> HIDE DEF q
  <1>6. RowsFit(s, q) /\ Born(q) /\ Ahead(q, mem[s])
    BY <1>2, <1>5 DEF RowsFit, Born, Ahead
  <1> QED
    BY <1>1, <1>2, <1>3, <1>5, <1>6, HeadKeeps

LEMMA HeartbeatStartKeeps ==
  ASSUME IInv, NEW s \in Sids, HeartbeatStart(s)
  PROVE  StepKeeps
  <1>1. Enter(s) /\ UNCHANGED <<disk, up, today, crashes>> /\ Bound(mem[s])
    BY DEF HeartbeatStart
  <1>2. /\ RowsFit(s, Rolled(mem[s])) /\ Falls /\ Rolled(mem[s]) \in Record
        /\ Born(Rolled(mem[s])) /\ Ahead(Rolled(mem[s]), mem[s])
    BY <1>1, RollRow DEF HeartbeatStart
  <1>3. Update(s, Rolled(mem[s])) /\ Goto(s, "tick") /\ "tick" \in Awaiting
    BY DEF HeartbeatStart, Awaiting
  <1> QED
    BY <1>1, <1>2, <1>3, HeadKeeps

LEMMA BindNewKeeps ==
  ASSUME IInv, NEW s \in Sids, NEW mode \in Modes, BindNew(s, mode)
  PROVE  StepKeeps
  <1> DEFINE r == Hatched(mem[s].gen + 1, mode)
  <1>1. Enter(s) /\ UNCHANGED <<disk, up, today, crashes>>
    BY DEF BindNew
  <1>2. RowsFit(s, r) /\ Falls /\ r \in Record /\ Born(r) /\ Ahead(r, mem[s])
    BY <1>1, HatchRow DEF BindNew
  <1>3. Update(s, r) /\ Goto(s, "saving")
    BY DEF BindNew
  <1> HIDE DEF r
  <1> QED
    BY <1>1, <1>2, <1>3, HeadKeeps

LEMMA SealKeeps ==
  ASSUME IInv, NEW s \in Sids, Seal(s)
  PROVE  StepKeeps
  <1> DEFINE r == [mem[s] EXCEPT !.status = "sealed"]
  <1>1. Enter(s) /\ UNCHANGED <<disk, up, today, crashes>> /\ Bound(mem[s])
    BY DEF Seal
  <1>2. Update(s, r) /\ Goto(s, "saving") /\ Append(s, mem[s].gen, mem[s].p)
    BY DEF Seal
  <1>3. /\ r \in Record /\ r.gen = mem[s].gen /\ r.p = mem[s].p
        /\ r.born = mem[s].born /\ r.status = "sealed"
    BY DEF IInv, TypeOK, Record
  <1> HIDE DEF r
  <1>4. r.p <= ledger[s][r.gen]
    BY <1>1, <1>3 DEF IInv, SessionInv, Enter, Bound
  <1>5. Born(r) /\ mem[s].status = "bound"
    BY <1>1, <1>3 DEF Bound, Born
  <1>6. r.p \in 0..P0
    BY <1>3 DEF Record
  <1>7. Ahead(r, mem[s])
    BY <1>3, <1>6 DEF Ahead
  <1>8. RowsFit(s, r) /\ Falls
    BY <1>1, <1>2, <1>3, <1>4, <1>5, RowFits
  <1> QED
    BY <1>1, <1>2, <1>3, <1>5, <1>7, <1>8, HeadKeeps

(* The steps after the ledger row. *)
LEMMA LaterStepsKeep ==
  ASSUME IInv, NEW s \in Sids,
         \/ \E active, fed \in BOOLEAN : SubmitAnswered(s, active, fed)
         \/ ShadowFed(s)
         \/ \E active, silenced \in BOOLEAN : HeartbeatTicked(s, active, silenced)
         \/ \E concern, quiet \in BOOLEAN : HeartbeatDone(s, concern, quiet)
         \/ \E mode \in Modes : BindExisting(s, mode)
         \/ SaveOnly(s)
         \/ Save(s)
  PROVE  StepKeeps
  <1>1. mem[s] \in Record
    BY DEF IInv, TypeOK
  <1>2. ASSUME NEW active \in BOOLEAN, NEW fed \in BOOLEAN, SubmitAnswered(s, active, fed)
        PROVE  StepKeeps
    <2> DEFINE place == IF fed THEN "feed" ELSE "idle"
    <2>1. Goto(s, place) /\ Update(s, Seen(mem[s], active))
          /\ (disk' = mem' \/ (disk' = disk /\ place # "idle"))
      BY <1>2 DEF SubmitAnswered, SaveAll
    <2>2. place \in Awaiting \cup {"idle", "saving"}
      BY DEF Awaiting
    <2>3. up /\ UNCHANGED <<ledger, tail, up, today, crashes>>
      BY <1>2 DEF SubmitAnswered
    <2> HIDE DEF place
    <2> QED
      BY <1>1, <2>1, <2>2, <2>3, SeenProperties, TailKeeps
  <1>3. ASSUME NEW active \in BOOLEAN, NEW silenced \in BOOLEAN,
               HeartbeatTicked(s, active, silenced)
        PROVE  StepKeeps
    <2> DEFINE place == IF silenced THEN "idle" ELSE "shadow"
    <2>1. Goto(s, place) /\ Update(s, Seen(mem[s], active))
          /\ (disk' = mem' \/ (disk' = disk /\ place # "idle"))
      BY <1>3 DEF HeartbeatTicked, SaveAll
    <2>2. place \in Awaiting \cup {"idle", "saving"}
      BY DEF Awaiting
    <2>3. up /\ UNCHANGED <<ledger, tail, up, today, crashes>>
      BY <1>3 DEF HeartbeatTicked
    <2> HIDE DEF place
    <2> QED
      BY <1>1, <2>1, <2>2, <2>3, SeenProperties, TailKeeps
  <1>4. ASSUME NEW concern \in BOOLEAN, NEW quiet \in BOOLEAN,
               HeartbeatDone(s, concern, quiet)
        PROVE  StepKeeps
    <2> DEFINE h == IF concern THEN Raised(mem[s].high) ELSE mem[s].high
               z == 0
               n == IF quiet THEN mem[s].notice ELSE z
               r == [mem[s] EXCEPT !.high = h, !.notice = n]
    <2>1. Goto(s, "idle") /\ Update(s, r) /\ disk' = mem'
      BY <1>4 DEF HeartbeatDone, SaveAll
    <2>2. h \in 0..2 /\ n \in Epochs
      BY <1>1 DEF Record, Raised, Epochs
    <2>3. up /\ UNCHANGED <<ledger, tail, up, today, crashes>>
      BY <1>4 DEF HeartbeatDone
    <2> HIDE DEF h, n, z
    <2>4. /\ r \in Record /\ r.gen = mem[s].gen /\ r.p = mem[s].p
          /\ r.born = mem[s].born /\ r.status = mem[s].status
      BY <1>1, <2>2 DEF Record
    <2> HIDE DEF r
    <2> QED
      BY <2>1, <2>3, <2>4, TailKeeps
  <1>5. ASSUME NEW mode \in Modes, BindExisting(s, mode)
        PROVE  StepKeeps
    <2> DEFINE k == IF mode = "companion" THEN mode ELSE mem[s].mode
               r == [mem[s] EXCEPT !.mode = k]
    <2>1. pc[s] = "idle" /\ UNCHANGED pc /\ Update(s, r) /\ disk' = mem'
      BY <1>5 DEF BindExisting, Enter, SaveAll
    <2>2. Goto(s, "idle")
      BY <2>1 DEF Goto, IInv, TypeOK
    <2>3. k \in Modes
      BY <1>1 DEF Record
    <2>4. up /\ UNCHANGED <<ledger, tail, up, today, crashes>>
      BY <1>5 DEF BindExisting, Enter
    <2> HIDE DEF k
    <2>5. /\ r \in Record /\ r.gen = mem[s].gen /\ r.p = mem[s].p
          /\ r.born = mem[s].born /\ r.status = mem[s].status
      BY <1>1, <2>3 DEF Record
    <2> HIDE DEF r
    <2> QED
      BY <2>1, <2>2, <2>4, <2>5, TailKeeps
  <1>6. ASSUME ShadowFed(s) \/ SaveOnly(s) \/ Save(s)
        PROVE  StepKeeps
    <2>1. Goto(s, "idle")
      BY <1>6 DEF ShadowFed, SaveOnly, Save, Enter, Goto, IInv, TypeOK
    <2>2. Update(s, mem[s]) /\ disk' = mem'
      BY <1>6 DEF ShadowFed, SaveOnly, Save, Update, SaveAll, IInv, TypeOK
    <2>3. up /\ UNCHANGED <<ledger, tail, up, today, crashes>>
      BY <1>6 DEF ShadowFed, SaveOnly, Save, Enter
    <2> QED
      BY <1>1, <2>1, <2>2, <2>3, TailKeeps
  <1> QED
    BY <1>2, <1>3, <1>4, <1>5, <1>6

(* A restart: each bound record takes the older of its P and its row. *)
LEMMA LoadKeeps ==
  ASSUME IInv, Load
  PROVE  StepKeeps
  <1> DEFINE r(s) == [disk[s] EXCEPT !.p = Effective(s, disk[s])]
  <1>1. /\ ~up /\ up' /\ disk' = mem' /\ UNCHANGED <<ledger, tail, pc, today, crashes>>
        /\ mem' = [s \in Sids |-> IF Bound(disk[s]) THEN r(s) ELSE disk[s]]
    BY DEF Load, SaveAll
  <1>2. ASSUME NEW s \in Sids
        PROVE  /\ mem'[s] \in Record /\ mem'[s].gen = disk[s].gen
               /\ mem'[s].born = disk[s].born /\ mem'[s].status = disk[s].status
               /\ mem'[s].p <= disk[s].p
               /\ Born(disk[s]) => mem'[s].p <= ledger[s][disk[s].gen]
               /\ ~Born(disk[s]) => mem'[s].p = disk[s].p
    <2>1. disk[s] \in Record /\ SessionInv(s)
      BY DEF IInv, TypeOK
    <2>2. disk[s].p \in 0..P0
      BY <2>1 DEF Record
    <2>3. /\ Effective(s, disk[s]) \in 0..P0 /\ Effective(s, disk[s]) <= disk[s].p
          /\ Born(disk[s]) => Effective(s, disk[s]) <= ledger[s][disk[s].gen]
      BY <2>1, EffectiveBounds DEF IInv
    <2>4. CASE Bound(disk[s])
      <3>1. mem'[s] = r(s)
        BY <1>1, <2>4
      <3> DEFINE e == Effective(s, disk[s])
      <3>2. mem'[s] = [disk[s] EXCEPT !.p = e]
        BY <3>1
      <3> HIDE DEF e
      <3>3. e \in 0..P0 /\ e <= disk[s].p /\ (Born(disk[s]) => e <= ledger[s][disk[s].gen])
        BY <2>3 DEF e
      <3> QED
        BY <2>1, <2>4, <3>2, <3>3 DEF Record, Bound
    <2>5. CASE ~Bound(disk[s])
      <3>1. mem'[s] = disk[s]
        BY <1>1, <2>5
      <3>2. Born(disk[s]) => disk[s].status = "sealed"
        BY <2>1, <2>5 DEF Bound, Record
      <3> QED
        BY <2>1, <2>2, <3>1, <3>2 DEF SessionInv
    <2> QED
      BY <2>4, <2>5
  <1>3. TypeOK'
    BY <1>1, <1>2 DEF IInv, TypeOK
  <1>4. ASSUME NEW s \in Sids
        PROVE  SessionInv(s)' /\ DiskMoves(s)
    <2>1. SessionInv(s) /\ disk[s] \in Record /\ pc[s] = "idle"
      BY <1>1 DEF IInv, TypeOK, SessionInv
    <2>2. disk[s].gen \in 0..MaxGen /\ disk[s].p \in 0..P0 /\ mem'[s].p \in 0..P0
      BY <1>2, <2>1 DEF Record
    <2>3. Ahead(mem'[s], disk[s]) /\ Ahead(mem'[s], mem'[s]) /\ WellFormed(mem'[s])
      BY <1>2, <2>1, <2>2 DEF Ahead, SessionInv, WellFormed, Born
    <2>4. mem'[s].status = "sealed" => Born(disk[s])
      BY <1>2, <2>1 DEF SessionInv, WellFormed
    <2>5. Born(mem'[s]) => mem'[s].p <= ledger[s][mem'[s].gen]
      BY <1>2 DEF Born
    <2>6. \A g \in 1..MaxGen : g > mem'[s].gen => ledger[s][g] >= P0
      BY <1>2, <2>1 DEF SessionInv
    <2>7. disk'[s] = mem'[s] /\ up' /\ ledger' = ledger
      BY <1>1
    <2>8. mem'[s].status = "sealed" => mem'[s].p <= ledger[s][mem'[s].gen]
      BY <2>4, <2>5, <1>2 DEF Born
    <2> QED
      BY <1>1, <2>1, <2>3, <2>5, <2>6, <2>7, <2>8 DEF SessionInv, DiskMoves
  <1> QED
    BY <1>1, <1>3, <1>4, FallsWhenUnchanged DEF StepKeeps, IInv

(* A shutdown saves the table; a crash loses what was not saved.             *)
LEMMA StopKeeps ==
  ASSUME IInv, "corrupt" \notin Faults,
         Close \/ \E torn, corrupt \in BOOLEAN : Crash(torn, corrupt)
  PROVE  StepKeeps
  <1>1. /\ up /\ up' = FALSE /\ UNCHANGED <<ledger, today>> /\ (disk' = mem \/ disk' = disk)
        /\ mem' = [s \in Sids |-> NoRecord] /\ pc' = [s \in Sids |-> "idle"]
    BY DEF Close, Crash
  <1>2. TypeOK'
    <2>1. tail' \in {"clean", "torn"} /\ crashes' \in 0..MaxCrashes
      <3>1. tail \in {"clean", "torn"} /\ crashes \in 0..MaxCrashes
        BY DEF IInv, TypeOK
      <3>2. CASE Close
        BY <3>1, <3>2 DEF Close
      <3>3. ASSUME NEW torn \in BOOLEAN, NEW corrupt \in BOOLEAN, Crash(torn, corrupt)
            PROVE  tail' \in {"clean", "torn"} /\ crashes' \in 0..MaxCrashes
        <4>1. crashes < MaxCrashes /\ crashes' = crashes + 1
          BY <3>3 DEF Crash
        <4>2. tail' = "torn" \/ tail' = tail
          BY <3>3 DEF Crash
        <4> QED
          BY <3>1, <4>1, <4>2, BoundsAssumption
      <3> QED
        BY <3>2, <3>3
    <2>2. disk' \in [Sids -> Record] /\ mem' \in [Sids -> Record]
      BY <1>1, NoRecordProperties DEF IInv, TypeOK
    <2> QED
      BY <1>1, <2>1, <2>2 DEF IInv, TypeOK
  <1>3. ASSUME NEW s \in Sids
        PROVE  SessionInv(s)' /\ DiskMoves(s)
    <2>1. SessionInv(s) /\ mem[s] \in Record /\ disk[s] \in Record
      BY DEF IInv, TypeOK
    <2>2. mem[s].gen \in 0..MaxGen /\ disk[s].gen \in 0..MaxGen
      BY <2>1 DEF Record
    <2>3. mem'[s] = NoRecord /\ pc'[s] = "idle" /\ (disk'[s] = mem[s] \/ disk'[s] = disk[s])
      BY <1>1
    <2>4. WellFormed(mem'[s])
      BY <2>3, NoRecordProperties DEF WellFormed, Born
    <2>5. CASE disk'[s] = disk[s]
      BY <1>1, <2>1, <2>3, <2>4, <2>5 DEF SessionInv, DiskMoves
    <2>6. CASE disk'[s] = mem[s]
      <3>1. /\ WellFormed(mem[s]) /\ Ahead(mem[s], disk[s])
            /\ Born(mem[s]) => mem[s].p <= ledger[s][mem[s].gen]
        BY <1>1, <2>1 DEF SessionInv
      <3>2. disk[s].gen <= mem[s].gen
        BY <2>2, <3>1 DEF Ahead
      <3>3. \A g \in 1..MaxGen : g > mem[s].gen => ledger[s][g] >= P0
        BY <2>1, <2>2, <3>2 DEF SessionInv
      <3>4. mem[s].status = "sealed" => mem[s].p <= ledger[s][mem[s].gen]
        BY <3>1 DEF WellFormed
      <3> QED
        BY <1>1, <2>3, <2>4, <2>6, <3>1, <3>3, <3>4 DEF SessionInv, DiskMoves
    <2> QED
      BY <2>3, <2>5, <2>6
  <1> QED
    BY <1>1, <1>2, <1>3, FallsWhenUnchanged DEF StepKeeps, IInv

LEMMA QuietStepKeeps ==
  ASSUME IInv, UNCHANGED vars \/ \E d \in Days : DayTurns(d)
  PROVE  StepKeeps
  <1>1. UNCHANGED <<mem, disk, ledger, tail, pc, up, crashes>> /\ today' \in Days
    BY DEF vars, DayTurns, IInv, TypeOK
  <1>2. TypeOK'
    BY <1>1 DEF IInv, TypeOK
  <1>3. \A s \in Sids : SessionInv(s)' /\ DiskMoves(s)
    BY <1>1 DEF IInv, SessionInv, DiskMoves
  <1> QED
    BY <1>1, <1>2, <1>3, FallsWhenUnchanged DEF StepKeeps, IInv

LEMMA NextKeeps ==
  ASSUME IInv, [Next]_vars, "abort" \notin Faults, "corrupt" \notin Faults
  PROVE  StepKeeps
  <1>1. CASE \E s \in Sids : Handler(s)
    <2>1. PICK s \in Sids : Handler(s)
      BY <1>1
    <2>2. ~Abort(s)
      BY DEF Abort
    <2> QED
      BY <2>1, <2>2, SubmitKeeps, ArbitrateKeeps, HeartbeatStartKeeps, BindNewKeeps,
         SealKeeps, LaterStepsKeep DEF Handler
  <1>2. CASE Load
    BY <1>2, LoadKeeps
  <1>3. CASE Close \/ \E torn, corrupt \in BOOLEAN : Crash(torn, corrupt)
    BY <1>3, StopKeeps
  <1>4. CASE UNCHANGED vars \/ \E d \in Days : DayTurns(d)
    BY <1>4, QuietStepKeeps
  <1> QED
    BY <1>1, <1>2, <1>3, <1>4 DEF Next

(* The inductive invariant. *)
THEOREM Invariance ==
  ASSUME "abort" \notin Faults, "corrupt" \notin Faults
  PROVE  Spec => []IInv
  <1>1. Init => IInv
    BY InitInv
  <1>2. IInv /\ [Next]_vars => IInv'
    BY NextKeeps DEF StepKeeps
  <1> QED
    BY <1>1, <1>2, PTL DEF Spec

(* PlasticityLedger: the rows of one generation never rise, however many     *)
(* rows were lost or torn and however often the process was killed.          *)
THEOREM LedgerMonotone ==
  ASSUME "abort" \notin Faults, "corrupt" \notin Faults
  PROVE  Spec => LedgerNeverRises
  <1>1. IInv /\ [Next]_vars
          => [\A s \in Sids : \A g \in 1..MaxGen : ledger'[s][g] <= ledger[s][g]]_vars
    BY NextKeeps DEF StepKeeps, Falls
  <1> QED
    BY <1>1, Invariance, PTL DEF Spec, LedgerNeverRises

------------------------------------------------------------------------------
(* The refinement: what a restart would read only ages, or is reborn.        *)

LEMMA DurableStep ==
  ASSUME IInv, StepKeeps
  PROVE  Durable!Next
  <1>1. ASSUME NEW s \in Sids
        PROVE  /\ durableLife[s] \in Durable!Lives /\ durableLife'[s] \in Durable!Lives
               /\ \/ Durable!Older(durableLife[s], durableLife'[s])
                  \/ Durable!Reborn(durableLife[s], durableLife'[s])
    <2> DEFINE d == disk[s]
               e == disk'[s]
    <2>1. TypeOK /\ TypeOK' /\ d \in Record /\ e \in Record
      BY DEF StepKeeps, IInv, TypeOK
    <2>2. d.p \in 0..P0 /\ e.p \in 0..P0 /\ d.gen \in 0..MaxGen /\ e.gen \in 0..MaxGen
      BY <2>1 DEF Record
    <2>3. Born(d) => ledger'[s][d.gen] <= ledger[s][d.gen]
      BY <2>2, BoundsAssumption DEF StepKeeps, Falls, Born
    <2>4. Born(d) => ledger[s][d.gen] \in 0..NoRow /\ ledger'[s][d.gen] \in 0..NoRow
      BY <2>1, <2>2, BoundsAssumption DEF TypeOK, Born
    <2>5. Born(e) => ledger'[s][e.gen] \in 0..NoRow
      BY <2>1, <2>2, BoundsAssumption DEF TypeOK, Born
    <2>6. WellFormed(d) /\ WellFormed(e)
      BY DEF StepKeeps, IInv, SessionInv
    <2>7. DiskMoves(s)
      BY DEF StepKeeps
    <2> DEFINE x == Effective(s, d)
    <2>8. x = IF Born(d) /\ ledger[s][d.gen] < d.p THEN ledger[s][d.gen] ELSE d.p
      BY DEF Effective
    <2>9. Effective(s, d)' = IF Born(e) /\ ledger'[s][e.gen] < e.p
                             THEN ledger'[s][e.gen] ELSE e.p
      BY DEF Effective, Born
    <2>10. durableLife[s] = [gen |-> d.gen, p |-> x, status |-> d.status]
      BY DEF durableLife
    <2>11. durableLife'[s] = [gen |-> e.gen, p |-> Effective(s, d)', status |-> e.status]
      BY DEF durableLife
    <2> DEFINE z == Effective(s, d)'
    <2> HIDE DEF x, z
    <2>12. x \in 0..P0 /\ z \in 0..P0
      BY <2>2, <2>4, <2>5, <2>8, <2>9, P0Type DEF z
    <2>13. durableLife[s] \in Durable!Lives /\ durableLife'[s] \in Durable!Lives
      BY <2>1, <2>2, <2>10, <2>11, <2>12 DEF Durable!Lives, Record, z
    <2>14. CASE e = d
      <3>1. z <= x
        BY <2>2, <2>3, <2>4, <2>8, <2>9, <2>14 DEF z
      <3> QED
        BY <2>10, <2>11, <2>13, <2>14, <3>1 DEF Durable!Older, z
    <2>15. CASE Ahead(e, d) /\ (Born(e) => e.p <= ledger'[s][e.gen])
      <3>1. z = e.p
        BY <2>2, <2>5, <2>9, <2>15, P0Type DEF z
      <3>2. CASE e.gen = d.gen /\ e.p <= d.p /\ (d.status = "sealed" => e.status = "sealed")
        <4>1. e.p <= x
          BY <2>2, <2>3, <2>4, <2>5, <2>8, <2>15, <3>2, P0Type DEF Born
        <4> QED
          BY <2>10, <2>11, <2>13, <3>1, <3>2, <4>1 DEF Durable!Older, z
      <3>3. CASE e.gen = d.gen + 1 /\ (d.gen = 0 \/ d.status = "sealed")
        BY <2>10, <2>11, <2>13, <3>3 DEF Durable!Reborn, z
      <3> QED
        BY <2>15, <3>2, <3>3 DEF Ahead
    <2> QED
      BY <2>7, <2>13, <2>14, <2>15 DEF DiskMoves
  <1>2. durableLife' \in [Sids -> Durable!Lives]
    BY <1>1 DEF durableLife
  <1> QED
    BY <1>1, <1>2 DEF Durable!Next

(* The persistent state of BindingLife, read as a restart reads it, is an    *)
(* implementation of Aging: no restart finds a life younger, unsealed, or    *)
(* following an unsealed one.                                                *)
THEOREM DurableImplementsAging ==
  ASSUME "abort" \notin Faults, "corrupt" \notin Faults
  PROVE  Spec => DurableSpec
  <1>1. Init => Durable!Init
    <2> SUFFICES ASSUME Init PROVE Durable!Init
      OBVIOUS
    <2>1. \A s \in Sids : disk[s] = NoRecord
      BY DEF Init
    <2>2. ~Born(NoRecord)
      BY NoRecordProperties DEF Born
    <2>3. \A s \in Sids : [gen |-> disk[s].gen, p |-> Effective(s, disk[s]),
                           status |-> disk[s].status]
                            = [gen |-> 0, p |-> P0, status |-> "bound"]
      BY <2>1, <2>2, NoRecordProperties DEF Effective
    <2> QED
      BY <2>3 DEF Durable!Init, Durable!Unborn, durableLife
  <1>2. IInv /\ [Next]_vars => [Durable!Next]_durableLife
    BY NextKeeps, DurableStep
  <1> QED
    BY <1>1, <1>2, Invariance, PTL DEF Spec, DurableSpec, Durable!Spec

------------------------------------------------------------------------------
(* Where handlers may be abandoned at an await and bindings.json may become  *)
(* unreadable: what a restart would load is exact here, so the years of a    *)
(* life can be counted.                                                      *)

(* The fields the years are counted by. *)
SameYears(r, q) == /\ r.gen = q.gen /\ r.p = q.p /\ r.born = q.born /\ r.status = q.status
                   /\ r.day = q.day /\ r.epoch = q.epoch

(* The four things a handler of s may do with its record, which becomes r. *)
Stays(s, r) == /\ SameYears(r, mem[s]) /\ r.notice \in {0, mem[s].notice}
               /\ UNCHANGED <<ledger, tail>>

Ages(s, r) == /\ Bound(mem[s])
              /\ SameYears(r, Rolled(mem[s])) /\ r.notice = Rolled(mem[s]).notice
              /\ AppendIfFell(s, mem[s], r)

Hatches(s, r) == /\ ~Bound(mem[s]) /\ mem[s].gen < MaxGen /\ pc[s] # "saving"
                 /\ \E mode \in Modes : SameYears(r, Hatched(mem[s].gen + 1, mode))
                 /\ r.notice = 0
                 /\ Append(s, mem[s].gen + 1, P0)

Seals(s, r) == /\ Bound(mem[s]) /\ pc'[s] = "saving"
               /\ SameYears(r, [mem[s] EXCEPT !.status = "sealed"]) /\ r.notice = mem[s].notice
               /\ Append(s, mem[s].gen, mem[s].p)

Places == Awaiting \cup {"idle", "saving"}

(* A handler of s moves: its record becomes r, and all is saved or nothing.  *)
Moves(s, r) ==
  /\ up /\ UNCHANGED <<up, today, crashes>>
  /\ r \in Record /\ Update(s, r)
  /\ disk' = disk \/ disk' = mem'
  /\ pc' \in [Sids -> Places] /\ \A t \in Sids \ {s} : pc'[t] = pc[t]
  /\ pc[s] = "saving" /\ pc'[s] # "saving" => disk' = mem'
  /\ Stays(s, r) \/ Ages(s, r) \/ Hatches(s, r) \/ Seals(s, r)

------------------------------------------------------------------------------
(* Every handler is such a move. *)

LEMMA GotoMoves ==
  ASSUME TypeOK, NEW s \in Sids, NEW place \in Places, Goto(s, place)
  PROVE  pc' \in [Sids -> Places] /\ pc'[s] = place /\ \A t \in Sids \ {s} : pc'[t] = pc[t]
  BY DEF Goto, TypeOK, Places

(* The changes of a record that leave its years alone. *)
LEMMA TouchedYears ==
  ASSUME NEW r \in Record, NEW marks \in SUBSET Marks, NEW high \in 0..2,
         NEW mode \in Modes, NEW notice \in {0, r.notice}
  PROVE  LET q == [r EXCEPT !.marks = marks, !.high = high, !.mode = mode, !.notice = notice]
         IN q \in Record /\ SameYears(q, r) /\ q.notice = notice
  <1>1. notice \in Epochs
    BY DEF Record, Epochs
  <1> QED
    BY <1>1 DEF Record, SameYears

LEMMA UntouchedYears ==
  ASSUME NEW r \in Record
  PROVE  /\ r = [r EXCEPT !.marks = r.marks, !.high = r.high, !.mode = r.mode, !.notice = r.notice]
         /\ r.marks \in SUBSET Marks /\ r.high \in 0..2 /\ r.mode \in Modes /\ r.notice \in Epochs
  BY DEF Record

LEMMA SubmitMoves ==
  ASSUME TypeOK, NEW s \in Sids, NEW speaker \in {"user", "agent"}, Submit(s, speaker)
  PROVE  \E r \in Record : Moves(s, r)
  <1> DEFINE r == IF Born(mem[s]) THEN Rolled(mem[s]) ELSE Hatched(1, DefaultMode)
             m == r.marks \cup {"interacted"}
             place == IF speaker = "user" THEN "submit" ELSE "saving"
             q == IF speaker = "user" THEN [r EXCEPT !.marks = m] ELSE r
  <1>1. /\ up /\ LoopFree /\ pc[s] = "idle" /\ UNCHANGED <<disk, up, today, crashes>>
        /\ mem[s].status = "bound" /\ MaxGen >= 1
        /\ IF Born(mem[s]) THEN AppendIfFell(s, mem[s], r) ELSE Append(s, 1, P0)
    BY DEF Submit, Enter
  <1>2. Update(s, q) /\ Goto(s, place)
    BY DEF Submit, Update, Goto
  <1>3. r \in Record
    <2>1. mem[s] \in Record /\ today \in Days
      BY DEF TypeOK
    <2>2. CASE Born(mem[s])
      BY <2>1, <2>2, RolledProperties
    <2>3. CASE ~Born(mem[s])
      <3>1. 1 \in 0..MaxGen
        BY <1>1, BoundsAssumption
      <3> QED
        BY <2>1, <2>3, <3>1, HatchedProperties, ModeAssumption
    <2> QED
      BY <2>2, <2>3
  <1>4. q \in Record /\ SameYears(q, r) /\ q.notice = r.notice
    <2> HIDE DEF r
    <2>1. m \in SUBSET Marks
      BY <1>3 DEF Record, Marks
    <2> HIDE DEF m
    <2> QED
      BY <1>3, <2>1 DEF Record, SameYears
  <1>5. Ages(s, q) \/ Hatches(s, q)
    <2>1. CASE Born(mem[s])
      <3>1. r = Rolled(mem[s]) /\ AppendIfFell(s, mem[s], r) /\ Bound(mem[s])
        BY <1>1, <2>1 DEF Bound
      <3> HIDE DEF r, q
      <3>2. AppendIfFell(s, mem[s], q)
        BY <1>4, <3>1 DEF AppendIfFell, SameYears
      <3> QED
        BY <1>4, <3>1, <3>2 DEF Ages
    <2>2. CASE ~Born(mem[s])
      <3>1. mem[s].gen = 0 /\ ~Bound(mem[s])
        BY <2>2, BoundsAssumption DEF TypeOK, Record, Born, Bound
      <3>2. r = Hatched(mem[s].gen + 1, DefaultMode) /\ Append(s, mem[s].gen + 1, P0) /\ r.notice = 0
        BY <1>1, <2>2, <3>1 DEF Hatched
      <3>3. mem[s].gen < MaxGen
        BY <1>1, <3>1, BoundsAssumption
      <3> HIDE DEF r, q
      <3> QED
        BY <1>1, <1>4, <3>1, <3>2, <3>3, ModeAssumption DEF Hatches
    <2> QED
      BY <2>1, <2>2
  <1>6. place \in Places
    BY DEF Places, Awaiting
  <1> HIDE DEF r, q, place
  <1> QED
    BY <1>1, <1>2, <1>4, <1>5, <1>6, GotoMoves DEF Moves

LEMMA ArbitrateMoves ==
  ASSUME TypeOK, NEW s \in Sids, NEW swallow \in BOOLEAN, Arbitrate(s, swallow)
  PROVE  \E r \in Record : Moves(s, r)
  <1> DEFINE r == Rolled(mem[s])
             h == IF swallow THEN Raised(r.high) ELSE r.high
             q == [r EXCEPT !.high = h]
  <1>1. /\ up /\ LoopFree /\ pc[s] = "idle" /\ UNCHANGED <<disk, up, today, crashes>>
        /\ Bound(mem[s]) /\ AppendIfFell(s, mem[s], r) /\ Update(s, q) /\ Goto(s, "saving")
    BY DEF Arbitrate, Enter
  <1>2. r \in Record
    BY RolledProperties DEF TypeOK
  <1> HIDE DEF r
  <1>3. h \in 0..2
    BY <1>2 DEF Record, Raised
  <1> HIDE DEF h
  <1>4. q \in Record /\ SameYears(q, r) /\ q.notice = r.notice
    BY <1>2, <1>3 DEF Record, SameYears
  <1> HIDE DEF q
  <1>5. AppendIfFell(s, mem[s], q)
    BY <1>1, <1>4 DEF AppendIfFell, SameYears
  <1>6. Ages(s, q)
    BY <1>1, <1>4, <1>5 DEF Ages, r
  <1>7. "saving" \in Places
    BY DEF Places
  <1> QED
    BY <1>1, <1>4, <1>6, <1>7, GotoMoves DEF Moves

LEMMA HeartbeatStartMoves ==
  ASSUME TypeOK, NEW s \in Sids, HeartbeatStart(s)
  PROVE  \E r \in Record : Moves(s, r)
  <1> DEFINE r == Rolled(mem[s])
  <1>1. /\ up /\ LoopFree /\ pc[s] = "idle" /\ UNCHANGED <<disk, up, today, crashes>>
        /\ Bound(mem[s]) /\ AppendIfFell(s, mem[s], r) /\ Update(s, r) /\ Goto(s, "tick")
    BY DEF HeartbeatStart, Enter
  <1>2. r \in Record
    BY RolledProperties DEF TypeOK
  <1>3. Ages(s, r)
    BY <1>1 DEF Ages, SameYears
  <1>4. "tick" \in Places
    BY DEF Places, Awaiting
  <1> HIDE DEF r
  <1> QED
    BY <1>1, <1>2, <1>3, <1>4, GotoMoves DEF Moves

LEMMA BindNewMoves ==
  ASSUME TypeOK, NEW s \in Sids, NEW mode \in Modes, BindNew(s, mode)
  PROVE  \E r \in Record : Moves(s, r)
  <1> DEFINE r == Hatched(mem[s].gen + 1, mode)
  <1>1. /\ up /\ LoopFree /\ pc[s] = "idle" /\ UNCHANGED <<disk, up, today, crashes>>
        /\ ~Bound(mem[s]) /\ mem[s].gen < MaxGen
        /\ Append(s, mem[s].gen + 1, P0) /\ Update(s, r) /\ Goto(s, "saving")
    BY DEF BindNew, Enter
  <1>2. mem[s].gen + 1 \in 0..MaxGen
    BY <1>1, BoundsAssumption DEF TypeOK, Record
  <1>3. r \in Record /\ r.notice = 0
    <2>1. r \in Record
      BY <1>2, HatchedProperties DEF TypeOK
    <2> QED
      BY <2>1 DEF Hatched
  <1>4. SameYears(r, Hatched(mem[s].gen + 1, mode))
    BY DEF SameYears
  <1> HIDE DEF r
  <1>5. Hatches(s, r)
    BY <1>1, <1>3, <1>4 DEF Hatches
  <1>6. "saving" \in Places
    BY DEF Places
  <1> QED
    BY <1>1, <1>3, <1>5, <1>6, GotoMoves DEF Moves

LEMMA SealMoves ==
  ASSUME TypeOK, NEW s \in Sids, Seal(s)
  PROVE  \E r \in Record : Moves(s, r)
  <1> DEFINE r == [mem[s] EXCEPT !.status = "sealed"]
  <1>1. /\ up /\ LoopFree /\ pc[s] = "idle" /\ UNCHANGED <<disk, up, today, crashes>>
        /\ Bound(mem[s]) /\ Append(s, mem[s].gen, mem[s].p) /\ Update(s, r) /\ Goto(s, "saving")
    BY DEF Seal, Enter
  <1>2. r \in Record /\ r.notice = mem[s].notice
    <2>1. mem[s] \in Record /\ "sealed" \in {"bound", "sealed"}
      BY DEF TypeOK
    <2> QED
      BY <2>1 DEF Record
  <1>3. "saving" \in Places
    BY DEF Places
  <1>4. pc'[s] = "saving"
    BY <1>1, <1>3, GotoMoves
  <1>5. Seals(s, r)
    BY <1>1, <1>2, <1>4 DEF Seals, SameYears
  <1> HIDE DEF r
  <1> QED
    BY <1>1, <1>2, <1>3, <1>5, GotoMoves DEF Moves

(* The steps that touch no ledger. *)
LEMMA QuietMoves ==
  ASSUME TypeOK, NEW s \in Sids, up, UNCHANGED <<ledger, tail, up, today, crashes>>,
         NEW r \in Record, Update(s, r), NEW place \in Places, Goto(s, place),
         SameYears(r, mem[s]), r.notice \in {0, mem[s].notice},
         disk' = mem' \/ (disk' = disk /\ pc[s] # "saving")
  PROVE  \E q \in Record : Moves(s, q)
  <1>1. Stays(s, r)
    BY DEF Stays
  <1> QED
    BY <1>1, GotoMoves DEF Moves

LEMMA AnswerMoves ==
  ASSUME TypeOK, NEW s \in Sids, NEW active \in BOOLEAN, NEW fed \in BOOLEAN,
         SubmitAnswered(s, active, fed) \/ HeartbeatTicked(s, active, fed)
  PROVE  \E r \in Record : Moves(s, r)
  <1> DEFINE m == IF active THEN mem[s].marks \cup {"active_seen"} ELSE mem[s].marks
             r == Seen(mem[s], active)
  <1>1. mem[s] \in Record
    BY DEF TypeOK
  <1>2. r \in Record /\ SameYears(r, mem[s]) /\ r.notice = mem[s].notice
    <2>1. m \in SUBSET Marks
      BY <1>1 DEF Record, Marks
    <2>2. r = mem[s] \/ r = [mem[s] EXCEPT !.marks = m]
      BY DEF Seen
    <2> HIDE DEF m, r
    <2> QED
      BY <1>1, <2>1, <2>2 DEF Record, SameYears
  <1>3. /\ up /\ pc[s] \in {"submit", "tick"} /\ UNCHANGED <<ledger, tail, up, today, crashes>>
        /\ Update(s, r)
        /\ \/ Goto(s, "idle") /\ disk' = mem'
           \/ Goto(s, "feed") /\ disk' = disk
           \/ Goto(s, "shadow") /\ disk' = disk
    BY DEF SubmitAnswered, HeartbeatTicked, SaveAll
  <1>4. "idle" \in Places /\ "feed" \in Places /\ "shadow" \in Places /\ pc[s] # "saving"
    BY <1>3 DEF Places, Awaiting
  <1> HIDE DEF r
  <1> QED
    BY <1>2, <1>3, <1>4, QuietMoves

LEMMA HeartbeatDoneMoves ==
  ASSUME TypeOK, NEW s \in Sids, NEW concern \in BOOLEAN, NEW quiet \in BOOLEAN,
         HeartbeatDone(s, concern, quiet)
  PROVE  \E r \in Record : Moves(s, r)
  <1> DEFINE h == IF concern THEN Raised(mem[s].high) ELSE mem[s].high
             n == IF quiet THEN mem[s].notice ELSE 0
             r == [mem[s] EXCEPT !.high = h, !.notice = n]
  <1>1. mem[s] \in Record
    BY DEF TypeOK
  <1>2. h \in 0..2 /\ n \in Epochs /\ n \in {0, mem[s].notice}
    BY <1>1 DEF Record, Raised, Epochs
  <1>3. /\ up /\ pc[s] = "shadow" /\ UNCHANGED <<ledger, tail, up, today, crashes>>
        /\ Update(s, r) /\ Goto(s, "idle") /\ disk' = mem'
    BY DEF HeartbeatDone, SaveAll
  <1> HIDE DEF h, n
  <1>4. r \in Record /\ SameYears(r, mem[s]) /\ r.notice = n
    BY <1>1, <1>2 DEF Record, SameYears
  <1>5. "idle" \in Places
    BY DEF Places
  <1> HIDE DEF r
  <1> QED
    BY <1>2, <1>3, <1>4, <1>5, QuietMoves

LEMMA BindExistingMoves ==
  ASSUME TypeOK, NEW s \in Sids, NEW mode \in Modes, BindExisting(s, mode)
  PROVE  \E r \in Record : Moves(s, r)
  <1> DEFINE m == IF mode = "companion" THEN mode ELSE mem[s].mode
             r == [mem[s] EXCEPT !.mode = m]
  <1>1. mem[s] \in Record /\ pc \in [Sids -> Places]
    BY DEF TypeOK, Places
  <1>2. m \in Modes
    BY <1>1 DEF Record
  <1>3. /\ up /\ pc[s] = "idle" /\ UNCHANGED <<ledger, tail, pc, up, today, crashes>>
        /\ Update(s, r) /\ disk' = mem'
    BY DEF BindExisting, SaveAll, Enter
  <1> HIDE DEF m
  <1>4. r \in Record /\ SameYears(r, mem[s]) /\ r.notice = mem[s].notice
    BY <1>1, <1>2 DEF Record, SameYears
  <1>5. "idle" \in Places /\ Goto(s, "idle")
    BY <1>1, <1>3 DEF Places, Goto
  <1> HIDE DEF r
  <1> QED
    BY <1>3, <1>4, <1>5, QuietMoves

LEMMA IdleMoves ==
  ASSUME TypeOK, NEW s \in Sids, ShadowFed(s) \/ SaveOnly(s) \/ Save(s) \/ Abort(s)
  PROVE  \E r \in Record : Moves(s, r)
  <1>1. mem[s] \in Record /\ mem \in [Sids -> Record] /\ pc \in [Sids -> Places]
    BY DEF TypeOK, Places
  <1>2. Update(s, mem[s])
    BY <1>1 DEF ShadowFed, SaveOnly, Save, Abort, Update
  <1>3. SameYears(mem[s], mem[s])
    BY DEF SameYears
  <1>4. /\ up /\ UNCHANGED <<ledger, tail, up, today, crashes>> /\ Goto(s, "idle")
        /\ disk' = mem' \/ (disk' = disk /\ pc[s] # "saving")
    BY <1>1 DEF ShadowFed, SaveOnly, Save, Abort, SaveAll, Enter, Goto, Awaiting
  <1>5. "idle" \in Places
    BY DEF Places
  <1> QED
    BY <1>1, <1>2, <1>3, <1>4, <1>5, QuietMoves

LEMMA HandlerMoves ==
  ASSUME TypeOK, NEW s \in Sids, Handler(s)
  PROVE  \E r \in Record : Moves(s, r)
  BY SubmitMoves, ArbitrateMoves, HeartbeatStartMoves, BindNewMoves, SealMoves, AnswerMoves,
     HeartbeatDoneMoves, BindExistingMoves, IdleMoves DEF Handler

------------------------------------------------------------------------------
(* What a move does to the rows of the ledger. *)

(* A row was written, or was lost. *)
Rows(s, g, p) ==
  /\ ledger' \in [Sids -> [1..MaxGen -> 0..NoRow]] /\ tail' \in {"clean", "torn"}
  /\ \A t \in Sids, h \in 1..MaxGen : t # s \/ h # g => ledger'[t][h] = ledger[t][h]
  /\ ledger'[s][g] \in {p, ledger[s][g]}
  /\ "append" \notin Faults /\ tail = "clean" => ledger'[s][g] = p /\ tail' = "clean"

LEMMA AppendRows ==
  ASSUME TypeOK, NEW s \in Sids, NEW g \in 1..MaxGen, NEW p \in 0..P0, Append(s, g, p)
  PROVE  Rows(s, g, p)
  <1>1. ledger \in [Sids -> [1..MaxGen -> 0..NoRow]] /\ tail \in {"clean", "torn"} /\ p \in 0..NoRow
    BY P0Type DEF TypeOK
  <1>2. CASE tail = "clean" /\ ledger' = [ledger EXCEPT ![s][g] = p] /\ UNCHANGED tail
    <2>1. ledger[s] \in [1..MaxGen -> 0..NoRow]
      BY <1>1
    <2>2. ledger' = [ledger EXCEPT ![s] = [ledger[s] EXCEPT ![g] = p]]
      BY <1>2
    <2>3. [ledger[s] EXCEPT ![g] = p] \in [1..MaxGen -> 0..NoRow]
      BY <1>1, <2>1
    <2>4. \A t \in Sids : t # s => ledger'[t] = ledger[t]
      BY <1>1, <2>2
    <2>5. /\ \A h \in 1..MaxGen : h # g => ledger'[s][h] = ledger[s][h]
          /\ ledger'[s][g] = p
      BY <1>1, <2>1, <2>2
    <2>6. ledger' \in [Sids -> [1..MaxGen -> 0..NoRow]]
      BY <1>1, <2>2, <2>3
    <2> QED
      BY <1>1, <1>2, <2>4, <2>5, <2>6 DEF Rows
  <1>3. CASE tail = "torn" /\ tail' = "clean" /\ UNCHANGED ledger
    BY <1>1, <1>3 DEF Rows
  <1>4. CASE "append" \in Faults /\ UNCHANGED <<ledger, tail>>
    BY <1>1, <1>4 DEF Rows
  <1> QED
    BY <1>2, <1>3, <1>4 DEF Append

(* The record after the rollover of a day. *)
LEMMA RolledYears ==
  ASSUME NEW r \in Record, today \in Days
  PROVE  LET q == Rolled(r)
         IN /\ q \in Record /\ q.gen = r.gen /\ q.status = r.status /\ q.born = r.born
            /\ q.p <= r.p /\ q.day = today
            /\ q = r \/ (r.day # today /\ r.p <= q.p + 4)
            /\ r.epoch = EpochOf(r.p) /\ r.notice \in {0, r.epoch}
                 => q.epoch = EpochOf(q.p) /\ q.notice \in {0, q.epoch}
  <1>1. CASE r.day = today
    <2>1. Rolled(r) = r
      BY <1>1 DEF Rolled
    <2> QED
      BY <1>1, <2>1, RolledProperties
  <1>2. CASE r.day # today
    <2> DEFINE p     == Settled(r)
               moved == EpochOf(p) # EpochOf(r.p)
               e     == IF moved THEN EpochOf(p) ELSE r.epoch
               n     == IF moved THEN EpochOf(p) ELSE r.notice
               h     == 0
               m     == {}
               q     == Rolled(r)
    <2>1. q = [r EXCEPT !.p = p, !.day = today, !.marks = m, !.high = h, !.epoch = e, !.notice = n]
      BY <1>2 DEF Rolled
    <2>2. p <= r.p /\ r.p <= p + 4
      BY SettledBounds
    <2>3. r.epoch = EpochOf(r.p) /\ r.notice \in {0, r.epoch} => e = EpochOf(p) /\ n \in {0, e}
      OBVIOUS
    <2>4. q \in Record /\ q.gen = r.gen /\ q.status = r.status /\ q.born = r.born /\ q.p <= r.p
      BY RolledProperties
    <2> HIDE DEF p, e, n, h, m, moved, q
    <2>5. q.p = p /\ q.day = today /\ q.epoch = e /\ q.notice = n
      BY <2>1 DEF Record
    <2>6. r.epoch = EpochOf(r.p) /\ r.notice \in {0, r.epoch}
            => q.epoch = EpochOf(q.p) /\ q.notice \in {0, q.epoch}
      BY <2>3, <2>5
    <2> QED
      BY <1>2, <2>2, <2>4, <2>5, <2>6 DEF q
  <1> QED
    BY <1>1, <1>2

(* Every move, in the terms of the record of s before and after. *)
LEMMA MoveFacts ==
  ASSUME TypeOK, NEW s \in Sids, NEW r \in Record, Moves(s, r)
  PROVE  /\ mem'[s] = r /\ \A t \in Sids \ {s} : mem'[t] = mem[t]
         /\ mem' \in [Sids -> Record] /\ disk' \in [Sids -> Record]
         /\ \/ Stays(s, r)
            \/ /\ Bound(mem[s]) /\ Ages(s, r) /\ r.gen = mem[s].gen /\ r.status = mem[s].status
               /\ r.born = mem[s].born /\ r.p <= mem[s].p /\ r.day = today
               /\ (r.p = mem[s].p /\ r.day = mem[s].day) \/ (mem[s].day # today /\ mem[s].p <= r.p + 4)
               /\ \/ r.p = mem[s].p /\ UNCHANGED <<ledger, tail>>
                  \/ Rows(s, r.gen, r.p)
            \/ /\ ~Bound(mem[s]) /\ pc[s] # "saving" /\ r.gen = mem[s].gen + 1 /\ r.p = P0
               /\ r.born = today /\ r.day = today /\ r.status = "bound" /\ r.epoch = 0 /\ r.notice = 0
               /\ r.gen \in 1..MaxGen /\ Rows(s, r.gen, r.p)
            \/ /\ Bound(mem[s]) /\ pc'[s] = "saving" /\ r.gen = mem[s].gen /\ r.p = mem[s].p
               /\ r.born = mem[s].born /\ r.day = mem[s].day /\ r.status = "sealed"
               /\ r.epoch = mem[s].epoch /\ r.notice = mem[s].notice
               /\ Rows(s, r.gen, r.p)
  <1>1. /\ mem \in [Sids -> Record] /\ disk \in [Sids -> Record] /\ mem[s] \in Record /\ today \in Days
    BY DEF TypeOK
  <1>2. mem'[s] = r /\ mem' \in [Sids -> Record] /\ \A t \in Sids \ {s} : mem'[t] = mem[t]
    BY <1>1 DEF Moves, Update
  <1>3. disk' \in [Sids -> Record]
    BY <1>1, <1>2 DEF Moves
  <1>4. mem[s].gen \in 0..MaxGen /\ r.gen \in 0..MaxGen /\ mem[s].p \in 0..P0 /\ r.p \in 0..P0
        /\ MaxGen \in Nat /\ P0 \in 0..P0
    BY <1>1, P0Type, BoundsAssumption DEF Record
  <1>5. CASE Ages(s, r)
    <2> DEFINE q == Rolled(mem[s])
    <2>1. /\ q.gen = mem[s].gen /\ q.status = mem[s].status /\ q.born = mem[s].born
          /\ q.p <= mem[s].p /\ q.day = today
          /\ q = mem[s] \/ (mem[s].day # today /\ mem[s].p <= q.p + 4)
      BY <1>1, RolledYears
    <2> HIDE DEF q
    <2>2. SameYears(r, q) /\ AppendIfFell(s, mem[s], r) /\ Bound(mem[s])
      BY <1>5 DEF Ages, q
    <2>3. /\ r.gen = mem[s].gen /\ r.status = mem[s].status /\ r.born = mem[s].born
          /\ r.p <= mem[s].p /\ r.day = today
          /\ (r.p = mem[s].p /\ r.day = mem[s].day) \/ (mem[s].day # today /\ mem[s].p <= r.p + 4)
      BY <2>1, <2>2 DEF SameYears
    <2>4. mem[s].gen \in 1..MaxGen
      BY <1>4, <2>2 DEF Bound, Born
    <2>5. (r.p = mem[s].p /\ UNCHANGED <<ledger, tail>>) \/ Rows(s, r.gen, r.p)
      <3>1. CASE r.p < mem[s].p
        <4>1. Append(s, mem[s].gen, r.p)
          BY <2>2, <3>1 DEF AppendIfFell
        <4>2. Rows(s, mem[s].gen, r.p)
          BY <1>4, <2>4, <4>1, AppendRows
        <4> QED
          BY <2>3, <4>2
      <3>2. CASE ~(r.p < mem[s].p)
        BY <1>4, <2>2, <2>3, <3>2 DEF AppendIfFell
      <3> QED
        BY <3>1, <3>2
    <2> QED
      BY <1>2, <1>3, <1>5, <2>2, <2>3, <2>5
  <1>6. CASE Hatches(s, r)
    <2>1. PICK mode \in Modes : SameYears(r, Hatched(mem[s].gen + 1, mode))
      BY <1>6 DEF Hatches
    <2>2. /\ r.gen = mem[s].gen + 1 /\ r.p = P0 /\ r.born = today /\ r.day = today
          /\ r.status = "bound" /\ r.epoch = 0
      BY <2>1 DEF SameYears, Hatched
    <2>3. r.gen \in 1..MaxGen
      BY <1>4, <1>6, <2>2 DEF Hatches
    <2>4. Rows(s, r.gen, r.p)
      BY <1>4, <1>6, <2>2, <2>3, AppendRows DEF Hatches
    <2> QED
      BY <1>2, <1>3, <1>6, <2>2, <2>3, <2>4 DEF Hatches
  <1>7. CASE Seals(s, r)
    <2>1. /\ r.gen = mem[s].gen /\ r.p = mem[s].p /\ r.born = mem[s].born /\ r.day = mem[s].day
          /\ r.status = "sealed" /\ r.epoch = mem[s].epoch /\ r.notice = mem[s].notice
      BY <1>1, <1>7 DEF Seals, SameYears, Record
    <2>2. mem[s].gen \in 1..MaxGen
      BY <1>4, <1>7 DEF Seals, Bound, Born
    <2>3. Rows(s, r.gen, r.p)
      BY <1>4, <1>7, <2>1, <2>2, AppendRows DEF Seals
    <2> QED
      BY <1>2, <1>3, <1>7, <2>1, <2>3 DEF Seals
  <1> QED
    BY <1>2, <1>3, <1>5, <1>6, <1>7 DEF Moves

------------------------------------------------------------------------------
(* Types, whatever the faults. *)

LEMMA MoveTypes ==
  ASSUME TypeOK, NEW s \in Sids, NEW r \in Record, Moves(s, r)
  PROVE  TypeOK'
  <1>1. mem' \in [Sids -> Record] /\ disk' \in [Sids -> Record]
    BY MoveFacts
  <1>2. UNCHANGED <<ledger, tail>> \/ \E g \in 1..MaxGen : Rows(s, g, r.p)
    <2>1. Stays(s, r) => UNCHANGED <<ledger, tail>>
      BY DEF Stays
    <2>2. r.gen \in 0..MaxGen /\ mem[s].gen \in 0..MaxGen /\ MaxGen \in Nat
      BY BoundsAssumption DEF TypeOK, Record
    <2>3. Bound(mem[s]) => mem[s].gen \in 1..MaxGen
      BY <2>2 DEF Bound, Born
    <2> QED
      BY <2>1, <2>3, MoveFacts
  <1>3. ledger' \in [Sids -> [1..MaxGen -> 0..NoRow]] /\ tail' \in {"clean", "torn"}
    BY <1>2 DEF Rows, TypeOK
  <1> QED
    BY <1>1, <1>3 DEF TypeOK, Moves, Places

(* What a restart makes of a record on disk. *)
Merged(s) == IF Bound(disk[s]) THEN [disk[s] EXCEPT !.p = Effective(s, disk[s])] ELSE disk[s]

LEMMA MergedFacts ==
  ASSUME TypeOK, NEW s \in Sids
  PROVE  LET r == Merged(s)
             d == disk[s]
         IN /\ r \in Record /\ d \in Record /\ r.gen = d.gen /\ r.born = d.born /\ r.status = d.status
            /\ r.day = d.day /\ r.epoch = d.epoch /\ r.notice = d.notice
            /\ r.p = d.p \/ (Bound(d) /\ r.p = ledger[s][d.gen])
            /\ Bound(d) => r.p <= ledger[s][d.gen] /\ r.p <= d.p
  <1> DEFINE d == disk[s]
             e == Effective(s, d)
             r == Merged(s)
  <1>1. d \in Record /\ d.p \in 0..P0 /\ d.gen \in 0..MaxGen
    BY DEF TypeOK, Record
  <1>2. e \in 0..P0 /\ e <= d.p /\ (Born(d) => e <= ledger[s][d.gen])
        /\ (e = d.p \/ (Born(d) /\ e = ledger[s][d.gen]))
    BY <1>1, EffectiveBounds DEF Effective
  <1> HIDE DEF e
  <1>3. CASE Bound(d)
    <2>1. r = [d EXCEPT !.p = e] /\ Born(d)
      BY <1>3 DEF Merged, e, Bound
    <2> HIDE DEF r, d
    <2> QED
      BY <1>1, <1>2, <1>3, <2>1 DEF Record, r, d
  <1>4. CASE ~Bound(d)
    BY <1>1, <1>4 DEF Merged
  <1> QED
    BY <1>3, <1>4

LEMMA LoadFacts ==
  ASSUME TypeOK, Load
  PROVE  /\ ~up /\ up' /\ disk' = mem' /\ mem' = [s \in Sids |-> Merged(s)]
         /\ mem' \in [Sids -> Record] /\ UNCHANGED <<ledger, tail, pc, today, crashes>>
  <1>1. ~up /\ up' /\ disk' = mem' /\ mem' = [s \in Sids |-> Merged(s)]
        /\ UNCHANGED <<ledger, tail, pc, today, crashes>>
    BY DEF Load, SaveAll, Merged
  <1>2. \A s \in Sids : Merged(s) \in Record
    BY MergedFacts
  <1> QED
    BY <1>1, <1>2

LEMMA TypeKeeps ==
  ASSUME TypeOK, [Next]_vars
  PROVE  TypeOK'
  <1>1. CASE \E s \in Sids : Handler(s)
    BY <1>1, HandlerMoves, MoveTypes
  <1>2. CASE Load
    BY <1>2, LoadFacts DEF TypeOK
  <1>3. CASE Close
    BY <1>3, NoRecordProperties DEF Close, TypeOK, Places
  <1>4. CASE \E torn, corrupt \in BOOLEAN : Crash(torn, corrupt)
    <2> PICK torn \in BOOLEAN, corrupt \in BOOLEAN : Crash(torn, corrupt)
      BY <1>4
    <2>1. /\ mem' = [s \in Sids |-> NoRecord] /\ (disk' = mem' \/ disk' = disk)
          /\ pc' = [s \in Sids |-> "idle"] /\ up' \in BOOLEAN /\ tail' \in {"torn", tail}
          /\ crashes < MaxCrashes /\ crashes' = crashes + 1 /\ UNCHANGED <<ledger, today>>
      BY DEF Crash
    <2>2. crashes' \in 0..MaxCrashes
      BY <2>1, BoundsAssumption DEF TypeOK
    <2>3. mem' \in [Sids -> Record] /\ disk' \in [Sids -> Record]
      BY <2>1, NoRecordProperties DEF TypeOK
    <2> QED
      BY <2>1, <2>2, <2>3 DEF TypeOK
  <1>5. CASE \E d \in Days : DayTurns(d)
    BY <1>5 DEF DayTurns, TypeOK
  <1>6. CASE UNCHANGED vars
    BY <1>6 DEF vars, TypeOK
  <1> QED
    BY <1>1, <1>2, <1>3, <1>4, <1>5, <1>6 DEF Next

LEMMA TypeInit == Init => TypeOK
  BY NoRecordProperties, P0Type, BoundsAssumption DEF Init, TypeOK, Days

(* Every reachable state is well typed under every fault: P stays in its     *)
(* range through settlements, merges with damaged ledgers and restarts.      *)
THEOREM LifeTypeCorrect == Spec => []TypeOK
  BY TypeInit, TypeKeeps, PTL DEF Spec

------------------------------------------------------------------------------
(* The epochs, as long as the process was never killed, whatever else fails. *)

Told(r) == r.epoch = EpochOf(r.p) /\ r.notice \in {0, r.epoch}

(* The record r of session s is in the epoch it says, its row is no lower,   *)
(* and no later life has one.                                                *)
EpochKept(s, r) == /\ Born(r) => Told(r) /\ r.p <= ledger[s][r.gen]
                   /\ \A g \in 1..MaxGen : g > r.gen => ledger[s][g] >= P0

EpochInv == crashes = 0 => \A s \in Sids : EpochKept(s, IF up THEN mem[s] ELSE disk[s])

LEMMA EpochOfFull == EpochOf(P0) = 0
  BY P0Type DEF EpochOf

LEMMA EpochMoveSelf ==
  ASSUME TypeOK, NEW s \in Sids, NEW r \in Record, Moves(s, r), EpochKept(s, mem[s])
  PROVE  EpochKept(s, r)'
  <1> DEFINE m == mem[s]
  <1>1. /\ m \in Record /\ m.gen \in 0..MaxGen /\ r.gen \in 0..MaxGen /\ m.p \in 0..P0 /\ r.p \in 0..P0
        /\ MaxGen \in Nat
        /\ \A g \in 1..MaxGen : ledger[s][g] \in 0..NoRow
    BY BoundsAssumption DEF TypeOK, Record
  <1>2. (EpochKept(s, r))' = (/\ Born(r) => Told(r) /\ r.p <= ledger'[s][r.gen]
                              /\ \A g \in 1..MaxGen : g > r.gen => ledger'[s][g] >= P0)
    BY DEF EpochKept, Told, Born, EpochOf
  <1>3. ASSUME NEW g \in 1..MaxGen, Rows(s, g, r.p), g = r.gen
        PROVE  /\ ledger'[s][g] = r.p \/ ledger'[s][g] = ledger[s][g]
               /\ \A h \in 1..MaxGen : h # g => ledger'[s][h] = ledger[s][h]
    BY <1>3 DEF Rows
  <1>4. CASE Stays(s, r)
    <2>1. r.gen = m.gen /\ r.p = m.p /\ r.epoch = m.epoch /\ r.notice \in {0, m.notice}
          /\ ledger' = ledger
      BY <1>4 DEF Stays, SameYears
    <2>2. Told(m) => Told(r)
      BY <2>1 DEF Told
    <2> QED
      BY <1>2, <2>1, <2>2 DEF EpochKept, Born
  <1>5. CASE /\ Bound(m) /\ Ages(s, r) /\ r.gen = m.gen /\ r.p <= m.p
             /\ (r.p = m.p /\ UNCHANGED <<ledger, tail>>) \/ Rows(s, r.gen, r.p)
    <2>1. Born(m) /\ Told(m) /\ m.p <= ledger[s][m.gen] /\ r.gen \in 1..MaxGen
      BY <1>1, <1>5 DEF EpochKept, Bound, Born
    <2>2. Told(r)
      <3>1. SameYears(r, Rolled(m)) /\ r.notice = Rolled(m).notice
        BY <1>5 DEF Ages
      <3>2. Rolled(m).epoch = EpochOf(Rolled(m).p) /\ Rolled(m).notice \in {0, Rolled(m).epoch}
        BY <1>1, <2>1, RolledYears DEF Told, TypeOK
      <3> QED
        BY <3>1, <3>2 DEF SameYears, Told
    <2>3. r.p <= ledger'[s][r.gen] /\ \A g \in 1..MaxGen : g > r.gen => ledger'[s][g] = ledger[s][g]
      <3>1. CASE r.p = m.p /\ UNCHANGED <<ledger, tail>>
        BY <1>5, <2>1, <3>1
      <3>2. CASE Rows(s, r.gen, r.p)
        BY <1>1, <1>3, <1>5, <2>1, <3>2
      <3> QED
        BY <1>5, <3>1, <3>2
    <2> QED
      BY <1>2, <1>5, <2>2, <2>3 DEF EpochKept
  <1>6. CASE /\ r.gen = m.gen + 1 /\ r.p = P0 /\ r.epoch = 0 /\ r.notice = 0
             /\ r.gen \in 1..MaxGen /\ Rows(s, r.gen, r.p)
    <2>1. Told(r)
      BY <1>6, EpochOfFull DEF Told
    <2>2. ledger[s][r.gen] >= P0 /\ \A g \in 1..MaxGen : g > r.gen => ledger[s][g] >= P0
      BY <1>1, <1>6 DEF EpochKept
    <2>3. r.p <= ledger'[s][r.gen] /\ \A g \in 1..MaxGen : g > r.gen => ledger'[s][g] = ledger[s][g]
      BY <1>1, <1>3, <1>6, <2>2
    <2> QED
      BY <1>2, <2>1, <2>2, <2>3
  <1>7. CASE /\ Bound(m) /\ r.gen = m.gen /\ r.p = m.p /\ r.epoch = m.epoch /\ r.notice = m.notice
             /\ Rows(s, r.gen, r.p)
    <2>1. Born(m) /\ Told(m) /\ m.p <= ledger[s][m.gen] /\ r.gen \in 1..MaxGen
      BY <1>1, <1>7 DEF EpochKept, Bound, Born
    <2>2. Told(r)
      BY <1>7, <2>1 DEF Told
    <2>3. r.p <= ledger'[s][r.gen] /\ \A g \in 1..MaxGen : g > r.gen => ledger'[s][g] = ledger[s][g]
      BY <1>1, <1>3, <1>7, <2>1
    <2> QED
      BY <1>2, <1>7, <2>2, <2>3 DEF EpochKept
  <1> QED
    BY <1>4, <1>5, <1>6, <1>7, MoveFacts

(* The rows of the other sessions stay. *)
LEMMA OthersStay ==
  ASSUME TypeOK, NEW s \in Sids, NEW r \in Record, Moves(s, r), NEW t \in Sids \ {s}
  PROVE  mem'[t] = mem[t] /\ \A g \in 1..MaxGen : ledger'[t][g] = ledger[t][g]
  <1>1. mem'[t] = mem[t]
    BY MoveFacts
  <1>2. CASE UNCHANGED ledger
    BY <1>1, <1>2
  <1>3. CASE \E g \in 1..MaxGen : Rows(s, g, r.p)
    BY <1>1, <1>3 DEF Rows
  <1>4. UNCHANGED ledger \/ \E g \in 1..MaxGen : Rows(s, g, r.p)
    <2>1. Stays(s, r) => UNCHANGED ledger
      BY DEF Stays
    <2>2. r.gen \in 0..MaxGen /\ mem[s].gen \in 0..MaxGen /\ MaxGen \in Nat
      BY BoundsAssumption DEF TypeOK, Record
    <2>3. Bound(mem[s]) => mem[s].gen \in 1..MaxGen
      BY <2>2 DEF Bound, Born
    <2> QED
      BY <2>1, <2>3, MoveFacts
  <1> QED
    BY <1>2, <1>3, <1>4

LEMMA EpochKeeps ==
  ASSUME TypeOK, EpochInv, [Next]_vars
  PROVE  EpochInv'
  <1> SUFFICES ASSUME crashes' = 0, NEW s \in Sids
               PROVE  EpochKept(s, IF up THEN mem[s] ELSE disk[s])'
    BY DEF EpochInv
  <1>1. \A r : EpochKept(s, r)' <=> /\ Born(r) => Told(r) /\ r.p <= ledger'[s][r.gen]
                                    /\ \A g \in 1..MaxGen : g > r.gen => ledger'[s][g] >= P0
    BY DEF EpochKept, Told, Born, EpochOf
  <1>2. ASSUME NEW r \in Record, EpochKept(s, r), \A g \in 1..MaxGen : ledger'[s][g] = ledger[s][g]
        PROVE  /\ Born(r) => Told(r) /\ r.p <= ledger'[s][r.gen]
               /\ \A g \in 1..MaxGen : g > r.gen => ledger'[s][g] >= P0
    <2>1. r.gen \in 0..MaxGen
      BY DEF Record
    <2> QED
      BY <1>2, <2>1, BoundsAssumption DEF EpochKept, Born
  <1>3. mem[s] \in Record /\ disk[s] \in Record
    BY DEF TypeOK
  <1>4. ASSUME NEW t \in Sids, Handler(t)
        PROVE  EpochKept(s, IF up THEN mem[s] ELSE disk[s])'
    <2>1. PICK r \in Record : Moves(t, r)
      BY <1>4, HandlerMoves
    <2>2. up /\ up' /\ crashes = 0
      BY <2>1 DEF Moves
    <2>3. EpochKept(s, mem[s])
      BY <2>2 DEF EpochInv
    <2>4. CASE s = t
      <3>1. EpochKept(s, r)'
        BY <2>1, <2>3, <2>4, EpochMoveSelf
      <3>2. mem'[s] = r
        BY <2>1, <2>4, MoveFacts
      <3> QED
        BY <1>1, <2>2, <3>1, <3>2 DEF EpochKept, Told, Born, EpochOf
    <2>5. CASE s # t
      <3>1. mem'[s] = mem[s] /\ \A g \in 1..MaxGen : ledger'[s][g] = ledger[s][g]
        BY <2>1, <2>5, OthersStay
      <3> QED
        BY <1>2, <1>3, <2>2, <2>3, <3>1 DEF EpochKept, Told, Born, EpochOf
    <2> QED
      BY <2>4, <2>5
  <1>5. CASE Load
    <2>1. ~up /\ up' /\ mem'[s] = Merged(s) /\ UNCHANGED <<ledger, crashes>>
      BY <1>5, LoadFacts
    <2>2. EpochKept(s, disk[s])
      BY <2>1 DEF EpochInv
    <2>3. Merged(s) = disk[s]
      <3>1. CASE Bound(disk[s])
        <4>1. disk[s].p <= ledger[s][disk[s].gen]
          BY <2>2, <3>1 DEF EpochKept, Bound
        <4>2. Effective(s, disk[s]) = disk[s].p
          BY <1>3, <3>1, <4>1, EffectiveBounds DEF Bound
        <4> QED
          BY <1>3, <3>1, <4>2 DEF Merged, Record
      <3>2. CASE ~Bound(disk[s])
        BY <3>2 DEF Merged
      <3> QED
        BY <3>1, <3>2
    <2> QED
      BY <1>2, <1>3, <2>1, <2>2, <2>3 DEF EpochKept, Told, Born, EpochOf
  <1>6. CASE Close
    <2>1. up /\ ~up' /\ disk' = mem /\ UNCHANGED <<ledger, crashes>>
      BY <1>6 DEF Close
    <2>2. EpochKept(s, mem[s])
      BY <2>1 DEF EpochInv
    <2> QED
      BY <1>2, <1>3, <2>1, <2>2 DEF EpochKept, Told, Born, EpochOf
  <1>7. CASE \E torn, corrupt \in BOOLEAN : Crash(torn, corrupt)
    <2>1. crashes' = crashes + 1 /\ crashes \in Nat
      BY <1>7, BoundsAssumption DEF Crash, TypeOK
    <2> QED
      BY <2>1
  <1>8. CASE UNCHANGED vars \/ \E d \in Days : DayTurns(d)
    <2>1. UNCHANGED <<mem, disk, ledger, up, crashes>>
      BY <1>8 DEF vars, DayTurns
    <2>2. EpochKept(s, IF up THEN mem[s] ELSE disk[s])
      BY <2>1 DEF EpochInv
    <2> QED
      BY <2>1, <2>2 DEF EpochKept, Told, Born, EpochOf
  <1> QED
    BY <1>4, <1>5, <1>6, <1>7, <1>8 DEF Next

(* As long as the process was never killed, the epoch history ends with the  *)
(* epoch she is in and a pending notice announces that one, whatever rows    *)
(* are lost, whatever handlers are abandoned, and where the clock steps back *)
(* (_do_rollover compares the epochs before and after the settlement).       *)
THEOREM EpochIsRecorded == Spec => []EpochRecordedUntilCrash
  <1>1. Init => EpochInv
    <2> SUFFICES ASSUME Init, NEW s \in Sids
                 PROVE  EpochKept(s, IF up THEN mem[s] ELSE disk[s])
      BY DEF EpochInv
    <2>1. mem[s] = NoRecord /\ disk[s] = NoRecord /\ \A g \in 1..MaxGen : ledger[s][g] = NoRow
      BY DEF Init
    <2>2. ~Born(NoRecord)
      BY NoRecordProperties DEF Born
    <2> QED
      BY <2>1, <2>2, P0Type DEF EpochKept
  <1>2. TypeOK /\ EpochInv /\ [Next]_vars => EpochInv'
    BY EpochKeeps
  <1>3. EpochInv => EpochRecordedUntilCrash
    BY DEF EpochInv, EpochKept, EpochRecordedUntilCrash, EpochRecorded, Told
  <1> QED
    BY <1>1, <1>2, <1>3, LifeTypeCorrect, PTL DEF Spec

------------------------------------------------------------------------------
(* Where the ledger keeps its rows: the row of a life is the P in memory, or *)
(* the P that was in memory when the process stopped.                        *)

Intact == "append" \notin Faults /\ "torn" \notin Faults

Sealed(r) == r.status = "sealed"

(* The record m in memory follows the record d on disk. *)
Follows(m, d) ==
  \/ m.gen = d.gen /\ m.born = d.born /\ (Sealed(d) => Sealed(m))
  \/ m.gen = d.gen + 1 /\ (d.gen = 0 \/ Sealed(d))

Exact(s) ==
  /\ WellFormed(mem[s]) /\ WellFormed(disk[s])
  /\ up /\ Born(mem[s]) => ledger[s][mem[s].gen] = mem[s].p
  /\ Born(disk[s]) => ledger[s][disk[s].gen] <= disk[s].p
  /\ Sealed(disk[s]) => ledger[s][disk[s].gen] = disk[s].p
  /\ up => Follows(mem[s], disk[s])
  /\ up /\ Sealed(mem[s]) => pc[s] = "saving" \/ (Sealed(disk[s]) /\ disk[s].gen = mem[s].gen)

ExactInv == TypeOK /\ tail = "clean" /\ \A s \in Sids : Exact(s)

(* The parts that speak of the records alone. *)
ExactAs(m, d, row, saving) ==
  /\ WellFormed(m) /\ WellFormed(d)
  /\ Born(m) => row[m.gen] = m.p
  /\ Born(d) => row[d.gen] <= d.p
  /\ Sealed(d) => row[d.gen] = d.p
  /\ Follows(m, d)
  /\ Sealed(m) => saving \/ (Sealed(d) /\ d.gen = m.gen)

LEMMA ExactWhenUp ==
  ASSUME NEW s \in Sids, up
  PROVE  Exact(s) <=> ExactAs(mem[s], disk[s], ledger[s], pc[s] = "saving")
  BY DEF Exact, ExactAs

(* Once saved, memory and disk are the same. *)
LEMMA ExactSaved ==
  ASSUME NEW m \in Record, NEW d, NEW row, NEW saving, ExactAs(m, d, row, saving)
  PROVE  ExactAs(m, m, row, FALSE)
  <1>1. m.p \in Int
    BY DEF Record
  <1> QED
    BY <1>1 DEF ExactAs, Follows, WellFormed, Sealed

(* The row of a move is never lost here, and the tail of the file is whole. *)
LEMMA IntactRows ==
  ASSUME TypeOK, Intact, tail = "clean", NEW s \in Sids, NEW r \in Record, Moves(s, r)
  PROVE  /\ tail' = "clean"
         /\ \/ UNCHANGED ledger /\ r.p = mem[s].p /\ r.gen = mem[s].gen /\ r.status = mem[s].status
            \/ /\ r.gen \in 1..MaxGen /\ ledger'[s][r.gen] = r.p
               /\ \A g \in 1..MaxGen : g # r.gen => ledger'[s][g] = ledger[s][g]
  <1>1. CASE Stays(s, r)
    BY <1>1 DEF Stays, SameYears
  <1>2. CASE UNCHANGED <<ledger, tail>> /\ r.p = mem[s].p /\ r.gen = mem[s].gen /\ r.status = mem[s].status
    BY <1>2
  <1>3. CASE Rows(s, r.gen, r.p) /\ r.gen \in 1..MaxGen
    BY <1>3 DEF Rows, Intact
  <1>4. r.gen \in 0..MaxGen /\ mem[s].gen \in 0..MaxGen /\ MaxGen \in Nat
    BY BoundsAssumption DEF TypeOK, Record
  <1>5. Bound(mem[s]) => mem[s].gen \in 1..MaxGen
    BY <1>4 DEF Bound, Born
  <1> QED
    BY <1>1, <1>2, <1>3, <1>5, MoveFacts

LEMMA ExactMoveSelf ==
  ASSUME TypeOK, Intact, tail = "clean", NEW s \in Sids, NEW r \in Record, Moves(s, r), Exact(s)
  PROVE  ExactAs(r, disk[s], ledger'[s], pc'[s] = "saving" \/ pc[s] = "saving")
  <1> DEFINE m   == mem[s]
             d   == disk[s]
             row == ledger[s]
             new == ledger'[s]
  <1>1. /\ m \in Record /\ d \in Record
        /\ m.gen \in 0..MaxGen /\ r.gen \in 0..MaxGen /\ d.gen \in 0..MaxGen
        /\ m.p \in 0..P0 /\ r.p \in 0..P0 /\ d.p \in 0..P0 /\ P0 \in Nat
        /\ MaxGen \in Nat
        /\ \A g \in 1..MaxGen : row[g] \in 0..NoRow
    BY BoundsAssumption, P0Type DEF TypeOK, Record
  <1>2. up
    BY DEF Moves
  <1>3. /\ WellFormed(m) /\ WellFormed(d)
        /\ Born(m) => row[m.gen] = m.p
        /\ Born(d) => row[d.gen] <= d.p
        /\ Sealed(d) => row[d.gen] = d.p
        /\ Follows(m, d)
        /\ Sealed(m) => pc[s] = "saving" \/ (Sealed(d) /\ d.gen = m.gen)
    BY <1>2 DEF Exact
  <1>4. /\ Born(m) <=> m.gen > 0
        /\ Born(d) <=> d.gen > 0
        /\ Born(r) <=> r.gen > 0
        /\ Sealed(d) => d.gen > 0
        /\ Sealed(m) => m.gen > 0
        /\ m.gen = 0 => m.p = P0
    BY <1>1, <1>3 DEF Born, WellFormed, Sealed
  <1>5. \/ new = row /\ r.p = m.p /\ r.gen = m.gen /\ r.status = m.status
        \/ /\ r.gen \in 1..MaxGen /\ new[r.gen] = r.p
           /\ \A g \in 1..MaxGen : g # r.gen => new[g] = row[g]
    BY IntactRows
  <1>6. Born(r) => new[r.gen] = r.p
    BY <1>3, <1>4, <1>5
  <1> DEFINE saving == pc'[s] = "saving" \/ pc[s] = "saving"
  <1>7. CASE Stays(s, r)
    <2>1. r.gen = m.gen /\ r.p = m.p /\ r.born = m.born /\ r.status = m.status /\ new = row
      BY <1>7 DEF Stays, SameYears
    <2> QED
      BY <1>3, <1>4, <2>1 DEF ExactAs, WellFormed, Born, Sealed, Follows
  <1>8. CASE /\ Bound(m) /\ r.gen = m.gen /\ r.status = m.status /\ r.born = m.born /\ r.p <= m.p
    <2>1. ~Sealed(m) /\ ~Sealed(r) /\ m.gen > 0
      BY <1>4, <1>8 DEF Bound, Sealed
    <2>2. Follows(r, d)
      BY <1>3, <1>8 DEF Follows, Sealed
    <2>3. d.gen > 0 => new[d.gen] <= d.p
      <3>1. CASE d.gen = r.gen
        BY <1>1, <1>3, <1>4, <1>6, <1>8, <3>1
      <3>2. CASE d.gen # r.gen
        BY <1>1, <1>3, <1>4, <1>5, <3>2
      <3> QED
        BY <3>1, <3>2
    <2>4. Sealed(d) => new[d.gen] = d.p
      <3> SUFFICES ASSUME Sealed(d) PROVE new[d.gen] = d.p
        OBVIOUS
      <3>1. d.gen # r.gen
        BY <1>1, <1>3, <1>8, <2>1 DEF Follows
      <3> QED
        BY <1>1, <1>3, <1>4, <1>5, <3>1
    <2>5. WellFormed(r) /\ WellFormed(d)
      BY <1>3, <1>4, <1>8, <2>1 DEF WellFormed, Sealed
    <2> QED
      BY <1>4, <1>6, <2>1, <2>2, <2>3, <2>4, <2>5 DEF ExactAs
  <1>9. CASE /\ ~Bound(m) /\ pc[s] # "saving" /\ r.gen = m.gen + 1 /\ r.p = P0 /\ r.status = "bound"
    <2>1. ~Sealed(r) /\ WellFormed(r)
      BY <1>4, <1>9 DEF Sealed, WellFormed
    <2>2. m.gen = d.gen /\ (d.gen = 0 \/ Sealed(d))
      <3>1. CASE m.gen = 0
        BY <1>1, <1>3, <3>1 DEF Follows
      <3>2. CASE Sealed(m)
        BY <1>3, <1>9, <3>2
      <3>3. m.gen = 0 \/ Sealed(m)
        BY <1>1, <1>4, <1>9 DEF Bound, Sealed, Record
      <3> QED
        BY <3>1, <3>2, <3>3
    <2>3. Follows(r, d)
      BY <1>9, <2>2 DEF Follows
    <2>4. d.gen > 0 => new[d.gen] = row[d.gen]
      BY <1>1, <1>5, <1>9, <2>2
    <2> QED
      BY <1>3, <1>4, <1>6, <2>1, <2>3, <2>4 DEF ExactAs
  <1>10. CASE /\ Bound(m) /\ pc'[s] = "saving" /\ r.gen = m.gen /\ r.p = m.p /\ r.born = m.born
              /\ r.status = "sealed"
    <2>1. m.gen > 0 /\ Sealed(r) /\ ~Sealed(m) /\ WellFormed(r)
      BY <1>4, <1>10 DEF Bound, Sealed, WellFormed
    <2>2. Follows(r, d)
      BY <1>3, <1>10, <2>1 DEF Follows
    <2>3. d.gen > 0 => new[d.gen] = row[d.gen]
      <3>1. CASE d.gen = r.gen
        BY <1>1, <1>3, <1>4, <1>6, <1>10, <2>1, <3>1
      <3>2. CASE d.gen # r.gen
        BY <1>1, <1>5, <3>2
      <3> QED
        BY <3>1, <3>2
    <2> QED
      BY <1>3, <1>4, <1>6, <1>10, <2>1, <2>2, <2>3 DEF ExactAs
  <1> HIDE DEF m, d, row, new
  <1> QED
    BY <1>7, <1>8, <1>9, <1>10, MoveFacts DEF m, d, row, new

(* Functions that agree everywhere are the same. *)
LEMMA SameFunction ==
  ASSUME NEW A, NEW B, NEW f \in [A -> B], NEW g \in [A -> B], \A x \in A : f[x] = g[x]
  PROVE  f = g
  OBVIOUS

LEMMA ExactKeeps ==
  ASSUME Intact, ExactInv, [Next]_vars
  PROVE  ExactInv'
  <1>1. TypeOK /\ TypeOK' /\ tail = "clean" /\ \A s \in Sids : Exact(s)
    BY TypeKeeps DEF ExactInv
  <1>2. \A s \in Sids : mem[s] \in Record /\ disk[s] \in Record
    BY <1>1 DEF TypeOK
  <1>3. ASSUME NEW t \in Sids, Handler(t)
        PROVE  tail' = "clean" /\ \A s \in Sids : Exact(s)'
    <2>1. PICK r \in Record : Moves(t, r)
      BY <1>1, <1>3, HandlerMoves
    <2>2. up /\ up' /\ tail' = "clean"
      BY <1>1, <2>1, IntactRows DEF Moves
    <2>3. ASSUME NEW s \in Sids
          PROVE  Exact(s)'
      <3> DEFINE saving == pc'[s] = "saving" \/ (s = t /\ pc[s] = "saving")
      <3>1. ExactAs(mem'[s], disk[s], ledger'[s], saving)
        <4>1. CASE s = t
          <5>1. mem'[s] = r
            BY <1>1, <2>1, <4>1, MoveFacts
          <5> QED
            BY <1>1, <2>1, <4>1, <5>1, ExactMoveSelf
        <4>2. CASE s # t
          <5>1. mem'[s] = mem[s] /\ (\A g \in 1..MaxGen : ledger'[s][g] = ledger[s][g]) /\ pc'[s] = pc[s]
            BY <1>1, <2>1, <4>2, OthersStay DEF Moves
          <5>2. ledger'[s] = ledger[s]
            <6>1. ledger[s] \in [1..MaxGen -> 0..NoRow] /\ ledger'[s] \in [1..MaxGen -> 0..NoRow]
              BY <1>1 DEF TypeOK
            <6> DEFINE f == ledger'[s]
                       g == ledger[s]
                       A == 1..MaxGen
                       B == 0..NoRow
            <6>2. f \in [A -> B] /\ g \in [A -> B] /\ \A x \in A : f[x] = g[x]
              BY <5>1, <6>1
            <6> HIDE DEF f, g, A, B
            <6>3. f = g
              BY <6>2, SameFunction
            <6> QED
              BY <6>3 DEF f, g
          <5>3. ExactAs(mem[s], disk[s], ledger[s], pc[s] = "saving")
            BY <1>1, <2>2, ExactWhenUp
          <5> QED
            BY <4>2, <5>1, <5>2, <5>3
        <4> QED
          BY <4>1, <4>2
      <3>2. mem'[s] \in Record
        BY <1>1 DEF TypeOK
      <3>3. CASE disk' = mem'
        <4>1. ExactAs(mem'[s], mem'[s], ledger'[s], FALSE)
          BY <3>1, <3>2, ExactSaved
        <4>2. ExactAs(mem'[s], disk'[s], ledger'[s], pc'[s] = "saving")
          BY <3>3, <4>1 DEF ExactAs
        <4> QED
          BY <2>2, <4>2 DEF Exact, ExactAs, Born, WellFormed, Sealed, Follows
      <3>4. CASE disk' # mem'
        <4>1. disk' = disk /\ (saving <=> pc'[s] = "saving")
          BY <2>1, <3>4 DEF Moves
        <4>2. ExactAs(mem'[s], disk'[s], ledger'[s], pc'[s] = "saving")
          BY <3>1, <4>1
        <4> QED
          BY <2>2, <4>2 DEF Exact, ExactAs, Born, WellFormed, Sealed, Follows
      <3> QED
        BY <3>3, <3>4
    <2> QED
      BY <2>2, <2>3
  <1>4. ASSUME Load
        PROVE  tail' = "clean" /\ \A s \in Sids : Exact(s)'
    <2>1. /\ ~up /\ up' /\ disk' = mem' /\ UNCHANGED <<ledger, tail, pc>>
          /\ \A s \in Sids : mem'[s] = Merged(s)
      BY <1>1, <1>4, LoadFacts
    <2>2. ASSUME NEW s \in Sids
          PROVE  Exact(s)'
      <3> DEFINE q == Merged(s)
                 d == disk[s]
      <3>1. /\ q \in Record /\ q.gen = d.gen /\ q.born = d.born /\ q.status = d.status
            /\ q.p = d.p \/ (Bound(d) /\ q.p = ledger[s][d.gen])
            /\ Bound(d) => q.p <= ledger[s][d.gen] /\ q.p <= d.p
        BY <1>1, MergedFacts
      <3>2. /\ WellFormed(d) /\ (Born(d) => ledger[s][d.gen] <= d.p)
            /\ Sealed(d) => ledger[s][d.gen] = d.p
        BY <1>1 DEF Exact
      <3>3. /\ d \in Record /\ d.gen \in 0..MaxGen /\ d.p \in Int /\ q.p \in Int /\ MaxGen \in Nat
            /\ Born(d) => ledger[s][d.gen] \in Int
        <4>1. d \in Record /\ q \in Record /\ MaxGen \in Nat
          BY <1>2, <3>1, BoundsAssumption
        <4>2. d.gen \in 0..MaxGen /\ d.p \in Int /\ q.p \in Int
          BY <4>1, P0Type DEF Record
        <4>3. ledger[s] \in [1..MaxGen -> 0..NoRow]
          BY <1>1 DEF TypeOK
        <4>4. Born(d) => d.gen \in 1..MaxGen
          BY <4>1, <4>2 DEF Born
        <4> QED
          BY <4>1, <4>2, <4>3, <4>4
      <3> HIDE DEF q, d
      <3>4. WellFormed(q)
        BY <3>1, <3>2 DEF WellFormed, Born, Bound
      <3>5. Born(q) => ledger[s][q.gen] = q.p
        <4>1. CASE Bound(d)
          BY <3>1, <3>2, <3>3, <4>1 DEF Bound
        <4>2. CASE Sealed(d)
          BY <3>1, <3>2, <4>2 DEF Bound, Sealed
        <4>3. d.status \in {"bound", "sealed"}
          BY <3>3 DEF Record
        <4> QED
          BY <3>1, <4>1, <4>2, <4>3 DEF Bound, Born, Sealed
      <3>6. ExactAs(q, q, ledger[s], FALSE)
        <4>1. Sealed(q) => Born(q)
          BY <3>4 DEF WellFormed, Sealed
        <4>2. Follows(q, q)
          BY DEF Follows
        <4> QED
          BY <3>1, <3>3, <3>4, <3>5, <4>1, <4>2 DEF ExactAs
      <3>7. ExactAs(mem'[s], disk'[s], ledger'[s], pc'[s] = "saving")
        BY <2>1, <3>6 DEF ExactAs, q
      <3> QED
        BY <2>1, <3>7 DEF Exact, ExactAs, Born, WellFormed, Sealed, Follows
    <2> QED
      BY <1>1, <2>1, <2>2
  <1>5. ASSUME Close
        PROVE  tail' = "clean" /\ \A s \in Sids : Exact(s)'
    <2>1. up /\ ~up' /\ disk' = mem /\ UNCHANGED <<ledger, tail>>
          /\ \A s \in Sids : mem'[s] = NoRecord
      BY <1>5 DEF Close
    <2>2. ASSUME NEW s \in Sids
          PROVE  Exact(s)'
      <3>1. ExactAs(mem[s], disk[s], ledger[s], pc[s] = "saving")
        BY <1>1, <2>1, ExactWhenUp
      <3>2. ExactAs(mem[s], mem[s], ledger[s], FALSE)
        BY <1>2, <3>1, ExactSaved
      <3>3. WellFormed(NoRecord)
        BY NoRecordProperties DEF WellFormed, Born
      <3> QED
        BY <2>1, <3>2, <3>3 DEF Exact, ExactAs, Born, WellFormed, Sealed, Follows
    <2> QED
      BY <1>1, <2>1, <2>2
  <1>6. ASSUME \E torn, corrupt \in BOOLEAN : Crash(torn, corrupt)
        PROVE  tail' = "clean" /\ \A s \in Sids : Exact(s)'
    <2>1. /\ ~up' /\ UNCHANGED <<ledger, tail>>
          /\ \A s \in Sids : mem'[s] = NoRecord /\ disk'[s] \in {NoRecord, disk[s]}
      BY <1>6, <1>1 DEF Crash, Intact, TypeOK
    <2>2. ASSUME NEW s \in Sids
          PROVE  Exact(s)'
      <3>1. /\ WellFormed(disk[s]) /\ (Born(disk[s]) => ledger[s][disk[s].gen] <= disk[s].p)
            /\ Sealed(disk[s]) => ledger[s][disk[s].gen] = disk[s].p
        BY <1>1 DEF Exact
      <3>2. WellFormed(NoRecord) /\ ~Born(NoRecord) /\ ~Sealed(NoRecord)
        BY NoRecordProperties DEF WellFormed, Born, Sealed
      <3> QED
        BY <2>1, <3>1, <3>2 DEF Exact, Born, WellFormed, Sealed, Follows
    <2> QED
      BY <1>1, <2>1, <2>2
  <1>7. ASSUME UNCHANGED vars \/ \E d \in Days : DayTurns(d)
        PROVE  tail' = "clean" /\ \A s \in Sids : Exact(s)'
    <2>1. UNCHANGED <<mem, disk, ledger, tail, pc, up>>
      BY <1>7 DEF vars, DayTurns
    <2> QED
      BY <1>1, <2>1 DEF Exact, Born, WellFormed, Sealed, Follows
  <1>8. tail' = "clean" /\ \A s \in Sids : Exact(s)'
    BY <1>3, <1>4, <1>5, <1>6, <1>7 DEF Next
  <1> QED
    BY <1>1, <1>8 DEF ExactInv

LEMMA ExactInit == Init => ExactInv
  <1> SUFFICES ASSUME Init PROVE ExactInv
    OBVIOUS
  <1>1. tail = "clean" /\ \A s \in Sids : mem[s] = NoRecord /\ disk[s] = NoRecord
    BY DEF Init
  <1>2. /\ ~Born(NoRecord) /\ WellFormed(NoRecord) /\ ~Sealed(NoRecord)
        /\ Follows(NoRecord, NoRecord)
    BY NoRecordProperties DEF Born, WellFormed, Sealed, Follows
  <1> QED
    BY <1>1, <1>2, TypeInit DEF ExactInv, Exact

(* Where no row is lost, memory, bindings.json and the ledger hang together  *)
(* in every reachable state: what the three promise each other.              *)
THEOREM RowsAreExact ==
  ASSUME Intact
  PROVE  Spec => []ExactInv
  <1>1. ExactInv /\ [Next]_vars => ExactInv'
    BY ExactKeeps
  <1> QED
    BY <1>1, ExactInit, PTL DEF Spec

(* The P that a restart would read from the disk. *)
LEMMA EffectiveIsRow ==
  ASSUME ExactInv, NEW s \in Sids
  PROVE  /\ Born(disk[s]) => Effective(s, disk[s]) = ledger[s][disk[s].gen]
         /\ ~Born(disk[s]) => Effective(s, disk[s]) = P0
  <1> DEFINE d == disk[s]
  <1>1. d \in Record /\ MaxGen \in Nat /\ ledger[s] \in [1..MaxGen -> 0..NoRow]
        /\ Exact(s)
    BY BoundsAssumption DEF ExactInv, TypeOK
  <1>2. d.p \in Int /\ d.gen \in 0..MaxGen
    BY <1>1, P0Type DEF Record
  <1>3. Born(d) => ledger[s][d.gen] \in Int /\ ledger[s][d.gen] <= d.p
    <2>1. Born(d) => d.gen \in 1..MaxGen
      BY <1>1, <1>2 DEF Born
    <2> QED
      BY <1>1, <2>1, P0Type DEF Exact
  <1>4. ~Born(d) => d.p = P0
    BY <1>1 DEF Exact, WellFormed
  <1> HIDE DEF d
  <1>5. /\ Born(d) => Effective(s, d) = ledger[s][d.gen]
        /\ ~Born(d) => Effective(s, d) = P0
    BY <1>2, <1>3, <1>4 DEF Effective
  <1> QED
    BY <1>5 DEF d

(* At every moment, in the middle of any handler, a restart would load the P *)
(* the process holds, although handlers are abandoned at their awaits and    *)
(* the table is lost: the row is written before anything can be awaited.     *)
THEOREM RestartsAgree ==
  ASSUME Intact
  PROVE  Spec => []RestartAgrees
  <1>1. ASSUME ExactInv PROVE RestartAgrees
    <2> SUFFICES ASSUME NEW s \in Sids, up, Bound(mem[s]), disk[s].gen = mem[s].gen
                 PROVE  Effective(s, disk[s]) = mem[s].p
      BY DEF RestartAgrees
    <2>1. Born(mem[s]) /\ Born(disk[s])
      BY DEF Bound, Born
    <2>2. ledger[s][mem[s].gen] = mem[s].p
      BY <1>1, <2>1 DEF ExactInv, Exact
    <2> QED
      BY <1>1, <2>1, <2>2, EffectiveIsRow
  <1> QED
    BY <1>1, RowsAreExact, PTL

------------------------------------------------------------------------------
(* The years of a life.  They count days, and every kill as a day more.      *)

(* The P that is left pays for every day from b until t. *)
Paid(p, b, t) == p + 4 * (t - b) >= P0

(* ... and if the record r was not settled on the day t, for t itself too.   *)
PaidBy(p, r, t, c) ==
  /\ r.born <= t /\ r.day <= t
  /\ Paid(p, r.born, t + c)
  /\ r.day < t => Paid(p, r.born, t - 1 + c)

YearsOf(s) ==
  /\ up /\ Born(mem[s]) => PaidBy(mem[s].p, mem[s], today, crashes)
  /\ Born(disk[s]) => /\ disk[s].born <= today /\ disk[s].day <= today
                      /\ Paid(ledger[s][disk[s].gen], disk[s].born, today + crashes)
  /\ ~up /\ Born(disk[s]) => PaidBy(ledger[s][disk[s].gen], disk[s], today, crashes)

YearsInv == ExactInv /\ \A s \in Sids : YearsOf(s)

(* A move of s leaves a record that is paid for. *)
LEMMA MovePays ==
  ASSUME TypeOK, NEW s \in Sids, NEW r \in Record, Moves(s, r), WellFormed(mem[s]),
         Born(mem[s]) => PaidBy(mem[s].p, mem[s], today, crashes)
  PROVE  Born(r) => PaidBy(r.p, r, today, crashes)
  <1> DEFINE m == mem[s]
             c == crashes
             t == today
  <1>1. m \in Record /\ t \in Days /\ c \in 0..MaxCrashes /\ MaxCrashes \in Nat
    BY BoundsAssumption DEF TypeOK
  <1>2. /\ m.p \in Int /\ m.born \in Int /\ m.day \in Int /\ m.gen \in Int
        /\ r.p \in Int /\ r.born \in Int /\ r.day \in Int /\ r.gen \in Int
        /\ t \in Int /\ c \in Nat /\ P0 \in Int
    BY <1>1, P0Type, BoundsAssumption DEF Record, Days
  <1>3. CASE Stays(s, r)
    BY <1>3 DEF Stays, SameYears, PaidBy, Born
  <1>4. CASE /\ Bound(m) /\ r.gen = m.gen /\ r.born = m.born /\ r.day = t
             /\ (r.p = m.p /\ r.day = m.day) \/ (m.day # t /\ m.p <= r.p + 4)
    <2>1. PaidBy(m.p, m, t, c)
      BY <1>4 DEF Bound
    <2> HIDE DEF m, t, c
    <2>2. m.born <= t /\ Paid(m.p, m.born, t + c)
          /\ (m.day < t => Paid(m.p, m.born, t - 1 + c)) /\ m.day <= t
      BY <2>1 DEF PaidBy
    <2>3. Paid(r.p, r.born, t + c)
      <3>1. CASE r.p = m.p
        BY <1>4, <2>2, <3>1
      <3>2. CASE m.day # t /\ m.p <= r.p + 4
        <4>1. m.p + 4 * (t - 1 + c - m.born) >= P0
          BY <1>2, <2>2, <3>2 DEF Paid
        <4>2. r.born = m.born
          BY <1>4
        <4> QED
          BY <1>2, <3>2, <4>1, <4>2 DEF Paid
      <3> QED
        BY <1>4, <3>1, <3>2
    <2> QED
      BY <1>2, <1>4, <2>2, <2>3 DEF PaidBy, m, t, c
  <1>5. CASE r.p = P0 /\ r.born = t /\ r.day = t
    BY <1>2, <1>5 DEF PaidBy, Paid
  <1>6. CASE Bound(m) /\ r.gen = m.gen /\ r.p = m.p /\ r.born = m.born /\ r.day = m.day
    BY <1>6 DEF PaidBy, Bound
  <1> QED
    BY <1>3, <1>4, <1>5, <1>6, MoveFacts

(* What is paid stays paid. *)
LEMMA PaidStays ==
  ASSUME NEW p \in Int, NEW b \in Int, NEW t \in Int, NEW u \in Int, t <= u, Paid(p, b, t)
  PROVE  Paid(p, b, u)
  BY P0Type DEF Paid

LEMMA YearsKeep ==
  ASSUME Intact, "clock" \notin Faults, YearsInv, [Next]_vars
  PROVE  YearsInv'
  <1>1. /\ ExactInv /\ ExactInv' /\ TypeOK /\ TypeOK'
        /\ \A s \in Sids : YearsOf(s) /\ Exact(s) /\ Exact(s)'
    BY ExactKeeps DEF YearsInv, ExactInv
  <1>2. /\ today \in Int /\ crashes \in Int /\ P0 \in Int /\ MaxGen \in Nat
        /\ \A s \in Sids : /\ mem[s] \in Record /\ disk[s] \in Record
                           /\ mem'[s] \in Record /\ disk'[s] \in Record
                           /\ ledger[s] \in [1..MaxGen -> 0..NoRow]
    BY <1>1, P0Type, BoundsAssumption DEF TypeOK, Days
  <1>3. \A r \in Record : /\ r.p \in Int /\ r.born \in Int /\ r.day \in Int /\ r.gen \in 0..MaxGen
                          /\ (Born(r) => r.gen \in 1..MaxGen)
    BY <1>2, P0Type DEF Record, Days, Born
  <1>4. ASSUME NEW t \in Sids, Handler(t)
        PROVE  \A s \in Sids : YearsOf(s)'
    <2>1. PICK r \in Record : Moves(t, r)
      BY <1>1, <1>4, HandlerMoves
    <2>2. up /\ up' /\ today' = today /\ crashes' = crashes /\ (disk' = disk \/ disk' = mem')
      BY <2>1 DEF Moves
    <2>3. ASSUME NEW s \in Sids, Born(mem'[s])
          PROVE  PaidBy(mem'[s].p, mem'[s], today, crashes)
      <3>1. CASE s = t
        <4>1. mem'[s] = r
          BY <1>1, <2>1, <3>1, MoveFacts
        <4> QED
          BY <1>1, <2>1, <2>2, <2>3, <3>1, <4>1, MovePays DEF YearsOf, Exact
      <3>2. CASE s # t
        <4>1. mem'[s] = mem[s]
          BY <1>1, <2>1, <3>2, MoveFacts
        <4> QED
          BY <1>1, <2>2, <2>3, <4>1 DEF YearsOf
      <3> QED
        BY <3>1, <3>2
    <2>4. ASSUME NEW s \in Sids, Born(disk'[s])
          PROVE  /\ disk'[s].born <= today /\ disk'[s].day <= today
                 /\ Paid(ledger'[s][disk'[s].gen], disk'[s].born, today + crashes)
      <3> DEFINE m == mem'[s]
                 d == disk'[s]
                 row == ledger'[s]
      <3>1. /\ Born(m) => row[m.gen] = m.p
            /\ Follows(m, d)
        BY <1>1, <2>2 DEF Exact
      <3>2. CASE d = m
        BY <2>3, <2>4, <3>1, <3>2 DEF PaidBy
      <3>3. CASE d = disk[s]
        <4>1. /\ d.born <= today /\ d.day <= today
              /\ Paid(ledger[s][d.gen], d.born, today + crashes)
          BY <1>1, <2>4, <3>3 DEF YearsOf
        <4>2. CASE row[d.gen] = ledger[s][d.gen]
          BY <4>1, <4>2
        <4>3. CASE d.gen = m.gen
          <5>1. Born(m) /\ m.born = d.born
            <6>1. d.gen \in Int /\ m.gen \in Int
              BY <1>2, <1>3
            <6> QED
              BY <2>4, <3>1, <4>3, <6>1 DEF Born, Follows
          <5>2. PaidBy(m.p, m, today, crashes)
            BY <2>3, <5>1
          <5> QED
            BY <3>1, <4>1, <4>3, <5>1, <5>2 DEF PaidBy
        <4>4. row[d.gen] = ledger[s][d.gen] \/ d.gen = m.gen
          <5>1. d.gen \in 1..MaxGen
            BY <1>2, <1>3, <2>4
          <5>2. CASE s = t
            <6>1. m = r
              BY <1>1, <2>1, <5>2, MoveFacts
            <6>2. \/ ledger' = ledger
                  \/ \A g \in 1..MaxGen : g # r.gen => ledger'[t][g] = ledger[t][g]
              BY <1>1, <2>1, IntactRows DEF ExactInv
            <6> QED
              BY <5>1, <5>2, <6>1, <6>2
          <5>3. CASE s # t
            <6>1. \A g \in 1..MaxGen : ledger'[s][g] = ledger[s][g]
              BY <1>1, <2>1, <5>3, OthersStay
            <6> QED
              BY <5>1, <6>1
          <5> QED
            BY <5>2, <5>3
        <4> QED
          BY <4>2, <4>3, <4>4
      <3> HIDE DEF m, d, row
      <3>4. d = m \/ d = disk[s]
        BY <2>2 DEF m, d
      <3> QED
        BY <3>2, <3>3, <3>4 DEF d, row
    <2> QED
      BY <2>2, <2>3, <2>4 DEF YearsOf, PaidBy, Paid, Born
  <1>5. ASSUME Load
        PROVE  \A s \in Sids : YearsOf(s)'
    <2>1. /\ ~up /\ up' /\ disk' = mem' /\ UNCHANGED <<ledger, today, crashes>>
          /\ \A s \in Sids : mem'[s] = Merged(s)
      BY <1>1, <1>5, LoadFacts
    <2>2. ASSUME NEW s \in Sids, Born(mem'[s])
          PROVE  /\ PaidBy(mem'[s].p, mem'[s], today, crashes)
                 /\ PaidBy(ledger[s][mem'[s].gen], mem'[s], today, crashes)
      <3> DEFINE q == mem'[s]
                 d == disk[s]
      <3>1. q.gen = d.gen /\ q.born = d.born /\ q.day = d.day
        BY <1>1, <2>1, MergedFacts
      <3>2. q.p = ledger[s][q.gen]
        BY <1>1, <2>1, <2>2 DEF Exact
      <3>3. Born(d) /\ PaidBy(ledger[s][d.gen], d, today, crashes)
        BY <1>1, <2>1, <2>2, <3>1 DEF YearsOf, Born
      <3> HIDE DEF q, d
      <3>4. PaidBy(q.p, q, today, crashes) /\ PaidBy(ledger[s][q.gen], q, today, crashes)
        BY <3>1, <3>2, <3>3 DEF PaidBy
      <3> QED
        BY <3>4 DEF q
    <2> QED
      BY <2>1, <2>2 DEF YearsOf, PaidBy, Paid, Born
  <1>6. ASSUME Close
        PROVE  \A s \in Sids : YearsOf(s)'
    <2>1. up /\ ~up' /\ disk' = mem /\ UNCHANGED <<ledger, today, crashes>>
      BY <1>6 DEF Close
    <2>2. ASSUME NEW s \in Sids, Born(mem[s])
          PROVE  PaidBy(ledger[s][mem[s].gen], mem[s], today, crashes)
      BY <1>1, <2>1, <2>2 DEF YearsOf, Exact
    <2> QED
      BY <2>1, <2>2 DEF YearsOf, PaidBy, Paid, Born
  <1>7. ASSUME \E torn, corrupt \in BOOLEAN : Crash(torn, corrupt)
        PROVE  \A s \in Sids : YearsOf(s)'
    <2>1. /\ ~up' /\ UNCHANGED <<ledger, today>> /\ crashes' = crashes + 1
          /\ \A s \in Sids : disk'[s] \in {NoRecord, disk[s]}
      BY <1>1, <1>7 DEF Crash, TypeOK
    <2>2. ASSUME NEW s \in Sids, Born(disk[s])
          PROVE  PaidBy(ledger[s][disk[s].gen], disk[s], today, crashes + 1)
      <3> DEFINE d == disk[s]
                 p == ledger[s][d.gen]
      <3>1. d.born <= today /\ d.day <= today /\ Paid(p, d.born, today + crashes)
        BY <1>1, <2>2 DEF YearsOf
      <3>2. p \in Int /\ d.born \in Int
        <4>1. d.gen \in 1..MaxGen /\ d.born \in Int
          BY <1>2, <1>3, <2>2
        <4> QED
          BY <1>2, <4>1, P0Type
      <3> HIDE DEF d, p
      <3>3. PaidBy(p, d, today, crashes + 1)
        BY <1>2, <3>1, <3>2 DEF PaidBy, Paid
      <3> QED
        BY <3>3 DEF d, p
    <2>3. ~Born(NoRecord)
      BY NoRecordProperties DEF Born
    <2>4. ASSUME NEW s \in Sids, Born(disk'[s])
          PROVE  PaidBy(ledger'[s][disk'[s].gen], disk'[s], today', crashes')
      BY <2>1, <2>2, <2>3, <2>4
    <2> QED
      BY <2>1, <2>4 DEF YearsOf, PaidBy, Paid, Born
  <1>8. ASSUME NEW d \in Days, DayTurns(d)
        PROVE  \A s \in Sids : YearsOf(s)'
    <2>1. UNCHANGED <<mem, disk, ledger, up, crashes>> /\ today' = d /\ d > today /\ d \in Int
      BY <1>8 DEF DayTurns, Days
    <2>2. ASSUME NEW p \in Int, NEW r \in Record, PaidBy(p, r, today, crashes)
          PROVE  PaidBy(p, r, d, crashes)
      <3>1. r.born \in Int /\ r.day \in Int
        BY <1>3
      <3>2. r.born <= today /\ r.day <= today /\ Paid(p, r.born, today + crashes)
        BY <2>2 DEF PaidBy
      <3>3. /\ today + crashes \in Int /\ d + crashes \in Int /\ d - 1 + crashes \in Int
            /\ today + crashes <= d + crashes /\ today + crashes <= d - 1 + crashes
            /\ r.born <= d /\ r.day <= d
        BY <1>2, <2>1, <3>1, <3>2
      <3>4. Paid(p, r.born, d + crashes) /\ Paid(p, r.born, d - 1 + crashes)
        BY <3>1, <3>2, <3>3, PaidStays
      <3> QED
        BY <3>3, <3>4 DEF PaidBy
    <2>3. ASSUME NEW s \in Sids, Born(disk[s])
          PROVE  /\ disk[s].born <= d /\ disk[s].day <= d /\ ledger[s][disk[s].gen] \in Int
                 /\ Paid(ledger[s][disk[s].gen], disk[s].born, d + crashes)
      <3>1. /\ disk[s].born <= today /\ disk[s].day <= today
            /\ Paid(ledger[s][disk[s].gen], disk[s].born, today + crashes)
        BY <1>1, <2>3 DEF YearsOf
      <3>2. disk[s].gen \in 1..MaxGen /\ disk[s].born \in Int /\ disk[s].day \in Int
        BY <1>2, <1>3, <2>3
      <3>3. ledger[s][disk[s].gen] \in Int
        BY <1>2, <3>2, P0Type
      <3>4. /\ today + crashes \in Int /\ d + crashes \in Int
            /\ today + crashes <= d + crashes
        BY <1>2, <2>1
      <3> DEFINE b == disk[s].born
                 e == disk[s].day
      <3>5. b \in Int /\ e \in Int /\ b <= today /\ e <= today
        BY <3>1, <3>2
      <3> HIDE DEF b, e
      <3>6. b <= d /\ e <= d
        BY <1>2, <2>1, <3>5
      <3> QED
        BY <3>1, <3>2, <3>3, <3>4, <3>6, PaidStays DEF b, e
    <2>4. ASSUME NEW s \in Sids
          PROVE  /\ up /\ Born(mem[s]) => PaidBy(mem[s].p, mem[s], d, crashes)
                 /\ ~up /\ Born(disk[s]) => PaidBy(ledger[s][disk[s].gen], disk[s], d, crashes)
      BY <1>1, <1>2, <1>3, <2>2, <2>3 DEF YearsOf
    <2> QED
      BY <2>1, <2>3, <2>4 DEF YearsOf, PaidBy, Paid, Born
  <1>9. ASSUME UNCHANGED vars
        PROVE  \A s \in Sids : YearsOf(s)'
    BY <1>1, <1>9 DEF vars, YearsOf, PaidBy, Paid, Born
  <1>10. \A s \in Sids : YearsOf(s)'
    BY <1>4, <1>5, <1>6, <1>7, <1>8, <1>9 DEF Next
  <1> QED
    BY <1>1, <1>10 DEF YearsInv

(* Nobody ages faster than the calendar: since her birth she lost at most    *)
(* the cap of a day for every day that began since and one for every kill,   *)
(* although handlers are abandoned after their rollover and a kill undoes    *)
(* the daily block of days long settled, and bindings.json may be lost.      *)
THEOREM AgingIsBounded ==
  ASSUME Intact, "clock" \notin Faults
  PROVE  Spec => []AgingBounded
  <1>1. Init => YearsInv
    <2> SUFFICES ASSUME Init PROVE YearsInv
      OBVIOUS
    <2>1. ~Born(NoRecord)
      BY NoRecordProperties DEF Born
    <2>2. \A s \in Sids : mem[s] = NoRecord /\ disk[s] = NoRecord
      BY DEF Init
    <2>3. \A s \in Sids : ~Born(mem[s]) /\ ~Born(disk[s])
      BY <2>1, <2>2
    <2> QED
      BY <2>3, ExactInit DEF YearsInv, YearsOf
  <1>2. YearsInv /\ [Next]_vars => YearsInv'
    BY YearsKeep
  <1>3. ASSUME YearsInv PROVE AgingBounded
    <2> SUFFICES ASSUME NEW s \in Sids, up, Born(mem[s])
                 PROVE  mem[s].p + 4 * (today - mem[s].born + crashes) >= P0
      BY DEF AgingBounded
    <2>1. Paid(mem[s].p, mem[s].born, today + crashes)
      BY <1>3 DEF YearsInv, YearsOf, PaidBy
    <2>2. mem[s] \in Record /\ today \in Int /\ crashes \in Int
      BY <1>3, BoundsAssumption DEF YearsInv, ExactInv, TypeOK, Days
    <2>3. mem[s].born \in Int
      BY <2>2 DEF Record, Days
    <2> QED
      BY <2>1, <2>2, <2>3, P0Type DEF Paid
  <1> QED
    BY <1>1, <1>2, <1>3, PTL DEF Spec

------------------------------------------------------------------------------
(* The refinement again, now with abandoned handlers, but with every row.    *)

(* The record on disk is followed by itself, by the record in memory, or by  *)
(* what a restart made of it; and the row of its life never rises.           *)
FollowsOn(s) == /\ Follows(disk'[s], disk[s])
                /\ Born(disk[s]) => ledger'[s][disk[s].gen] <= ledger[s][disk[s].gen]

LEMMA MovedRowFalls ==
  ASSUME TypeOK, Intact, tail = "clean", NEW s \in Sids, NEW r \in Record, Moves(s, r), Exact(s),
         Born(disk[s])
  PROVE  ledger'[s][disk[s].gen] <= ledger[s][disk[s].gen]
  <1> DEFINE m == mem[s]
             d == disk[s]
             row == ledger[s]
             new == ledger'[s]
  <1>1. m \in Record /\ d \in Record /\ MaxGen \in Nat /\ row \in [1..MaxGen -> 0..NoRow]
    BY BoundsAssumption DEF TypeOK
  <1>2. /\ m.gen \in 0..MaxGen /\ d.gen \in 1..MaxGen /\ row[d.gen] \in Int
        /\ r.p \in Int /\ m.p \in Int
    BY <1>1, P0Type DEF Record, Born
  <1>3. /\ Born(m) => row[m.gen] = m.p
        /\ m.gen = d.gen \/ m.gen = d.gen + 1
    BY DEF Moves, Exact, Follows
  <1>4. \/ new = row
        \/ new[r.gen] = r.p /\ \A g \in 1..MaxGen : g # r.gen => new[g] = row[g]
    BY IntactRows
  <1>5. \/ r.gen = m.gen /\ r.p <= m.p
        \/ r.gen = m.gen + 1
    <2>1. \/ Stays(s, r)
          \/ r.gen = m.gen /\ r.p <= m.p
          \/ r.gen = m.gen + 1
          \/ r.gen = m.gen /\ r.p = m.p
      BY MoveFacts
    <2> QED
      BY <1>2, <2>1 DEF Stays, SameYears
  <1> HIDE DEF row, new, m, d
  <1>6. CASE r.gen = d.gen
    <2>1. r.gen = m.gen /\ r.p <= m.p /\ m.gen = d.gen
      BY <1>2, <1>3, <1>5, <1>6
    <2>2. row[d.gen] = m.p
      BY <1>2, <1>3, <2>1 DEF Born
    <2> QED
      BY <1>2, <1>4, <1>6, <2>1, <2>2 DEF row, new, d
  <1>7. CASE r.gen # d.gen
    BY <1>2, <1>4, <1>7 DEF row, new, d
  <1> QED
    BY <1>6, <1>7

LEMMA DiskFollows ==
  ASSUME Intact, "corrupt" \notin Faults, ExactInv, [Next]_vars
  PROVE  \A s \in Sids : FollowsOn(s)
  <1>1. /\ TypeOK /\ TypeOK' /\ tail = "clean"
        /\ \A s \in Sids : Exact(s) /\ Exact(s)'
    BY ExactKeeps DEF ExactInv
  <1>2. \A s \in Sids : Follows(disk[s], disk[s])
    BY DEF Follows
  <1>3. \A s \in Sids : Born(disk[s]) => disk[s].gen \in 1..MaxGen /\ ledger[s][disk[s].gen] \in Int
    <2> SUFFICES ASSUME NEW s \in Sids, Born(disk[s])
                 PROVE  disk[s].gen \in 1..MaxGen /\ ledger[s][disk[s].gen] \in Int
      OBVIOUS
    <2>1. disk[s] \in Record /\ ledger[s] \in [1..MaxGen -> 0..NoRow] /\ MaxGen \in Nat
      BY <1>1, BoundsAssumption DEF TypeOK
    <2>2. disk[s].gen \in 1..MaxGen
      BY <2>1 DEF Record, Born
    <2> QED
      BY <2>1, <2>2, P0Type
  <1>4. ASSUME NEW t \in Sids, Handler(t), NEW s \in Sids
        PROVE  FollowsOn(s)
    <2>1. PICK r \in Record : Moves(t, r)
      BY <1>1, <1>4, HandlerMoves
    <2>2. up /\ up' /\ (disk' = disk \/ disk' = mem')
      BY <2>1 DEF Moves
    <2>3. Follows(mem'[s], disk[s])
      <3>1. CASE s = t
        <4>1. ExactAs(r, disk[s], ledger'[s], pc'[s] = "saving" \/ pc[s] = "saving")
          BY <1>1, <2>1, <3>1, ExactMoveSelf
        <4>2. mem'[s] = r
          BY <1>1, <2>1, <3>1, MoveFacts
        <4> QED
          BY <4>1, <4>2 DEF ExactAs
      <3>2. CASE s # t
        <4>1. mem'[s] = mem[s]
          BY <1>1, <2>1, <3>2, MoveFacts
        <4> QED
          BY <1>1, <2>2, <4>1 DEF Exact
      <3> QED
        BY <3>1, <3>2
    <2>4. Born(disk[s]) => ledger'[s][disk[s].gen] <= ledger[s][disk[s].gen]
      <3>1. CASE s = t
        BY <1>1, <2>1, <3>1, MovedRowFalls
      <3>2. CASE s # t
        <4>1. \A g \in 1..MaxGen : ledger'[s][g] = ledger[s][g]
          BY <1>1, <2>1, <3>2, OthersStay
        <4> QED
          BY <1>3, <4>1
      <3> QED
        BY <3>1, <3>2
    <2> QED
      BY <1>2, <2>2, <2>3, <2>4 DEF FollowsOn
  <1>5. ASSUME Load, NEW s \in Sids
        PROVE  FollowsOn(s)
    <2>1. disk' = mem' /\ UNCHANGED ledger /\ mem'[s] = Merged(s)
      BY <1>1, <1>5, LoadFacts
    <2>2. Merged(s).gen = disk[s].gen /\ Merged(s).born = disk[s].born
          /\ Merged(s).status = disk[s].status
      BY <1>1, MergedFacts
    <2> QED
      BY <1>3, <2>1, <2>2 DEF FollowsOn, Follows, Sealed
  <1>6. ASSUME Close, NEW s \in Sids
        PROVE  FollowsOn(s)
    <2>1. up /\ disk' = mem /\ UNCHANGED ledger
      BY <1>6 DEF Close
    <2>2. Follows(mem[s], disk[s])
      BY <1>1, <2>1 DEF Exact
    <2> QED
      BY <1>3, <2>1, <2>2 DEF FollowsOn
  <1>7. ASSUME \E torn, corrupt \in BOOLEAN : Crash(torn, corrupt), NEW s \in Sids
        PROVE  FollowsOn(s)
    <2>1. UNCHANGED <<disk, ledger>>
      BY <1>7 DEF Crash
    <2> QED
      BY <1>2, <1>3, <2>1 DEF FollowsOn
  <1>8. ASSUME UNCHANGED vars \/ \E d \in Days : DayTurns(d), NEW s \in Sids
        PROVE  FollowsOn(s)
    <2>1. UNCHANGED <<disk, ledger>>
      BY <1>8 DEF vars, DayTurns
    <2> QED
      BY <1>2, <1>3, <2>1 DEF FollowsOn
  <1> QED
    BY <1>4, <1>5, <1>6, <1>7, <1>8 DEF Next

LEMMA DurableExact ==
  ASSUME ExactInv, ExactInv', \A s \in Sids : FollowsOn(s)
  PROVE  Durable!Next
  <1>1. ASSUME NEW s \in Sids
        PROVE  /\ durableLife[s] \in Durable!Lives /\ durableLife'[s] \in Durable!Lives
               /\ \/ Durable!Older(durableLife[s], durableLife'[s])
                  \/ Durable!Reborn(durableLife[s], durableLife'[s])
    <2> DEFINE d == disk[s]
               e == disk'[s]
               x == Effective(s, d)
               z == Effective(s, d)'
    <2>1. d \in Record /\ e \in Record /\ Exact(s) /\ Exact(s)' /\ MaxGen \in Nat
          /\ ledger[s] \in [1..MaxGen -> 0..NoRow] /\ ledger'[s] \in [1..MaxGen -> 0..NoRow]
      BY BoundsAssumption DEF ExactInv, TypeOK
    <2>2. /\ d.gen \in 0..MaxGen /\ e.gen \in 0..MaxGen /\ d.p \in 0..P0 /\ e.p \in 0..P0
          /\ d.status \in {"bound", "sealed"} /\ e.status \in {"bound", "sealed"}
      BY <2>1 DEF Record
    <2>3. (Born(d) => x = ledger[s][d.gen]) /\ (~Born(d) => x = P0)
      BY EffectiveIsRow
    <2>4. (Born(e) => z = ledger'[s][e.gen]) /\ (~Born(e) => z = P0)
      <3>1. /\ (Born(d) => Effective(s, d) = ledger[s][d.gen])'
            /\ (~Born(d) => Effective(s, d) = P0)'
        BY EffectiveIsRow, PTL
      <3> QED
        BY <3>1 DEF Born
    <2>5. x \in 0..P0
      <3>1. CASE Born(d)
        <4>1. d.gen \in 1..MaxGen /\ ledger[s][d.gen] <= d.p
          BY <2>1, <2>2, <3>1 DEF Exact, Born
        <4> QED
          BY <2>1, <2>2, <2>3, <3>1, <4>1, P0Type
      <3> QED
        BY <2>3, <3>1, P0Type
    <2>6. z \in 0..P0
      <3>1. CASE Born(e)
        <4>1. e.gen \in 1..MaxGen /\ ledger'[s][e.gen] <= e.p
          BY <2>1, <2>2, <3>1 DEF Exact, Born
        <4> QED
          BY <2>1, <2>2, <2>4, <3>1, <4>1, P0Type
      <3> QED
        BY <2>4, <3>1, P0Type
    <2>7. durableLife[s] = [gen |-> d.gen, p |-> x, status |-> d.status]
      BY DEF durableLife
    <2>8. durableLife'[s] = [gen |-> e.gen, p |-> z, status |-> e.status]
      BY DEF durableLife
    <2>9. Follows(e, d) /\ (Born(d) => ledger'[s][d.gen] <= ledger[s][d.gen])
      BY DEF FollowsOn
    <2> HIDE DEF x, z, d, e
    <2>10. d.gen \in Nat /\ e.gen \in Nat
      BY <2>2, <2>1
    <2>11. durableLife[s] \in Durable!Lives /\ durableLife'[s] \in Durable!Lives
      BY <2>2, <2>5, <2>6, <2>7, <2>8, <2>10 DEF Durable!Lives
    <2>12. CASE e.gen = d.gen /\ (Sealed(d) => Sealed(e))
      <3>1. z <= x
        BY <2>3, <2>4, <2>5, <2>6, <2>9, <2>12, P0Type DEF Born
      <3> QED
        BY <2>7, <2>8, <2>11, <2>12, <3>1 DEF Durable!Older, Sealed
    <2>13. CASE e.gen = d.gen + 1 /\ (d.gen = 0 \/ Sealed(d))
      BY <2>7, <2>8, <2>11, <2>13 DEF Durable!Reborn, Sealed
    <2> QED
      BY <2>9, <2>11, <2>12, <2>13 DEF Follows
  <1>2. durableLife' \in [Sids -> Durable!Lives]
    BY <1>1 DEF durableLife
  <1> QED
    BY <1>1, <1>2 DEF Durable!Next

(* What a restart reads only ages or is reborn, although handlers are        *)
(* abandoned at any await, as long as every ledger row reaches the file and  *)
(* bindings.json stays readable.                                             *)
THEOREM DurableImplementsAgingAborted ==
  ASSUME Intact, "corrupt" \notin Faults
  PROVE  Spec => DurableSpec
  <1>1. Init => Durable!Init
    <2> SUFFICES ASSUME Init PROVE Durable!Init
      OBVIOUS
    <2>1. \A s \in Sids : disk[s] = NoRecord
      BY DEF Init
    <2>2. ~Born(NoRecord)
      BY NoRecordProperties DEF Born
    <2>3. \A s \in Sids : [gen |-> disk[s].gen, p |-> Effective(s, disk[s]),
                           status |-> disk[s].status]
                            = [gen |-> 0, p |-> P0, status |-> "bound"]
      BY <2>1, <2>2, NoRecordProperties DEF Effective
    <2> QED
      BY <2>3 DEF Durable!Init, Durable!Unborn, durableLife
  <1>2. ExactInv /\ [Next]_vars => [Durable!Next]_durableLife
    BY ExactKeeps, DiskFollows, DurableExact
  <1> QED
    BY <1>1, <1>2, RowsAreExact, PTL DEF Spec, DurableSpec, Durable!Spec
==============================================================================
