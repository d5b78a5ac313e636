---------------------------- MODULE FarewellProofs ----------------------------
(* The two-step farewell, for any number of sessions, names, tokens, lives   *)
(* and crashes, with exports and saves that may fail.                        *)
EXTENDS Farewell, FiniteSetTheorems, TLAPS

(* The token a session has in flight is the last one handed out for it. *)
Latest(s, t) == \A u \in DOMAIN issued : issued[u].sid = s => u <= t

TokensInv ==
  /\ \E n \in 0..MaxTokens : DOMAIN issued = 1..n
  /\ \A s \in Sids : pending[s] # 0 => Latest(s, pending[s])

(* A second call that was accepted is about the life that runs, holds the   *)
(* last token of its session, and had it in time.                           *)
CommitInv ==
  ~Free => /\ commit \in Commits
           /\ commit.token \in DOMAIN issued
           /\ issued[commit.token].sid = commit.sid
           /\ issued[commit.token].gen = mem[commit.sid].gen
           /\ issued[commit.token].run = crashes
           /\ commit.since < issued[commit.token].expires
           /\ Latest(commit.sid, commit.token)
           /\ pending[commit.sid] = 0
           /\ mem[commit.sid].gen > 0
           /\ mem[commit.sid].status = "bound" <=> commit.at # "sealed"

(* The table on disk is never ahead of memory: an older life, or the same   *)
(* one, not sealed before it is sealed in memory.                           *)
Behind(d, m) == \/ d.gen < m.gen
                \/ d.gen = m.gen /\ (d.status = "sealed" => m.status = "sealed")

DiskInv == \A s \in Sids : Behind(disk[s], mem[s])

FInv == TypeOK /\ TokensInv /\ CommitInv /\ DiskInv /\ IrreversibleOnceTold

------------------------------------------------------------------------------
LEMMA InitFInv == Init => FInv
  <1> SUFFICES ASSUME Init PROVE FInv
    OBVIOUS
  <1> USE BoundsAssumption, TTLAssumption
  <1>1. TypeOK
    <2>1. NoRecord \in Records
      BY NamesAssumption DEF NoRecord, Records
    <2>2. DOMAIN issued = {} /\ files = [f \in Sids \X Names |-> Blank]
      BY DEF Init
    <2> QED
      BY <2>1, <2>2 DEF Init, TypeOK
  <1>2. TokensInv
    <2>1. DOMAIN issued = 1..0 /\ 0 \in 0..MaxTokens
      BY DEF Init
    <2> QED
      BY <2>1 DEF Init, TokensInv
  <1>3. CommitInv
    BY DEF Init, CommitInv, Free
  <1>4. DiskInv /\ IrreversibleOnceTold
    BY DEF Init, DiskInv, Behind, IrreversibleOnceTold, NoRecord
  <1> QED
    BY <1>1, <1>2, <1>3, <1>4 DEF FInv

------------------------------------------------------------------------------
(* What a step of Next is, for each part of the invariant. *)

LEMMA HatchedType ==
  ASSUME NEW r \in Records, NEW n \in Names, r.gen < MaxGen
  PROVE  Hatched(r, n) \in Records
  BY BoundsAssumption DEF Hatched, Records

(* The fields a farewell sets leave a record a record of the same life. *)
LEMMA RecordFields ==
  ASSUME NEW r \in Records
  PROVE  /\ [r EXCEPT !.path = TRUE] \in Records
         /\ [r EXCEPT !.path = TRUE].gen = r.gen
         /\ [r EXCEPT !.path = TRUE].status = r.status
         /\ [r EXCEPT !.path = TRUE].name = r.name
         /\ [r EXCEPT !.status = "sealed"] \in Records
         /\ [r EXCEPT !.status = "sealed"].gen = r.gen
         /\ [r EXCEPT !.status = "sealed"].status = "sealed"
         /\ [r EXCEPT !.status = "sealed"].name = r.name
         /\ [r EXCEPT !.status = "sealed"].path = r.path
  BY DEF Records

(* A token that is dropped leaves the other sessions theirs. *)
LEMMA Dropped ==
  ASSUME pending \in [Sids -> 0..MaxTokens], NEW s, pending' = [pending EXCEPT ![s] = 0]
  PROVE  /\ pending' \in [Sids -> 0..MaxTokens]
         /\ \A x \in Sids : pending'[x] # 0 => pending'[x] = pending[x]
  <1>1. 0 \in 0..MaxTokens
    BY BoundsAssumption
  <1>2. pending' = [x \in Sids |-> IF x = s THEN 0 ELSE pending[x]]
    OBVIOUS
  <1> QED
    BY <1>1, <1>2

LEMMA BindType ==
  ASSUME FInv, NEW s \in Sids, NEW n \in Names, Bind(s, n)
  PROVE  TypeOK'
  <1> USE DEF FInv, TypeOK
  <1> DEFINE r == IF Bound(mem[s]) THEN [mem[s] EXCEPT !.name = n] ELSE Hatched(mem[s], n)
  <1>1. mem[s] \in Records
    OBVIOUS
  <1>2. r \in Records /\ mem' = [mem EXCEPT ![s] = r] /\ r.status = "bound"
    <2>1. CASE Bound(mem[s])
      BY <1>1, <2>1 DEF Bind, Update, Records, Bound
    <2>2. CASE ~Bound(mem[s])
      BY <1>1, <2>2, HatchedType DEF Bind, Update, Hatched
    <2> QED
      BY <2>1, <2>2
  <1>3. pending[s] # 0 => Bound(mem[s])
    BY DEF Tickets, Bound
  <1>4. pending[s] # 0 => r.gen = mem[s].gen
    BY <1>1, <1>3 DEF Records
  <1> HIDE DEF r
  <1>5. mem' \in [Sids -> Records]
    BY <1>2
  <1>6. disk' \in [Sids -> Records]
    BY <1>5 DEF Bind, Save
  <1>7. \A x \in Sids : pending[x] # 0 => mem'[x].status = "bound" /\ mem'[x].gen = mem[x].gen
    BY <1>2, <1>4
  <1> QED
    BY <1>5, <1>6, <1>7 DEF Bind

LEMMA AskType ==
  ASSUME FInv, NEW s \in Sids, Ask(s)
  PROVE  TypeOK'
  <1> USE DEF FInv, TypeOK
  <1> DEFINE t == 1 + Cardinality(DOMAIN issued)
             ticket == [sid |-> s, gen |-> mem[s].gen, run |-> crashes,
                        expires |-> now + TTL]
  <1>1. t \in Tokens /\ t \in 1..MaxTokens /\ t # 0
    BY BoundsAssumption DEF Ask, Tokens
  <1>2. ticket \in Tickets /\ mem[s].status = "bound"
    <2>1. mem[s].gen \in 1..MaxGen /\ mem[s].status = "bound"
      BY DEF Ask, Bound, Records
    <2>2. now + TTL \in 0..(MaxTime + TTL)
      BY BoundsAssumption, TTLAssumption
    <2> QED
      BY <2>1, <2>2 DEF Tickets
  <1>3. issued' = [u \in DOMAIN issued \cup {t} |-> IF u = t THEN ticket ELSE issued[u]]
    BY DEF Ask
  <1>4. pending' = [pending EXCEPT ![s] = t]
    BY DEF Ask
  <1>5. t \notin DOMAIN issued
    <2>1. PICK n \in 0..MaxTokens : DOMAIN issued = 1..n
      BY DEF TokensInv
    <2>2. Cardinality(1..n) = n
      BY <2>1, FS_Interval, BoundsAssumption
    <2> QED
      BY <2>1, <2>2
  <1> HIDE DEF t, ticket
  <1>6. DOMAIN issued' \subseteq Tokens /\ \A u \in DOMAIN issued' : issued'[u] \in Tickets
    BY <1>1, <1>2, <1>3
  <1>7. \A u \in DOMAIN issued : u \in DOMAIN issued' /\ issued'[u] = issued[u]
    BY <1>3, <1>5
  <1>8. issued'[t] = ticket /\ t \in DOMAIN issued'
    BY <1>3
  <1>9. \A x \in Sids : pending'[x] # 0
         => /\ pending'[x] \in DOMAIN issued'
            /\ mem[x].status = "bound"
            /\ issued'[pending'[x]].sid = x
            /\ issued'[pending'[x]].gen = mem[x].gen
            /\ issued'[pending'[x]].run = crashes
    <2> SUFFICES ASSUME NEW x \in Sids, pending'[x] # 0
                 PROVE  /\ pending'[x] \in DOMAIN issued'
                        /\ mem[x].status = "bound"
                        /\ issued'[pending'[x]].sid = x
                        /\ issued'[pending'[x]].gen = mem[x].gen
                        /\ issued'[pending'[x]].run = crashes
      OBVIOUS
    <2>1. CASE x = s
      BY <1>2, <1>4, <1>8, <2>1 DEF ticket
    <2>2. CASE x # s
      BY <1>4, <1>7, <2>2
    <2> QED
      BY <2>1, <2>2
  <1>10. pending' \in [Sids -> 0..MaxTokens]
    BY <1>1, <1>4 DEF Tokens
  <1>11. reply' \in [Sids -> {"none", "asked", "refused", "error", "sealed"}]
    BY DEF Ask, Answer
  <1>12. UNCHANGED <<mem, disk, files, commit, told, now, crashes>>
    BY DEF Ask
  <1> QED
    BY <1>6, <1>9, <1>10, <1>11, <1>12

(* An accepted call leaves commit in Commits and its session without token. *)
LEMMA AcceptType ==
  ASSUME FInv, NEW s \in Sids, NEW t \in DOMAIN issued, NEW export \in BOOLEAN,
         Accept(s, t, export)
  PROVE  TypeOK' /\ commit' \in Commits
  <1> USE DEF FInv, TypeOK
  <1>1. commit' = [at |-> "verified", sid |-> s, token |-> t, export |-> export,
                   since |-> now]
    BY DEF Accept
  <1>2. commit' \in Commits
    BY <1>1 DEF Commits
  <1>3. pending' = [pending EXCEPT ![s] = 0]
    BY DEF Accept
  <1>4. /\ pending' \in [Sids -> 0..MaxTokens]
        /\ \A x \in Sids : pending'[x] # 0 => pending'[x] = pending[x]
    BY <1>3, BoundsAssumption
  <1>5. UNCHANGED <<mem, disk, files, issued, reply, told, now, crashes>>
    BY DEF Accept
  <1> QED
    BY <1>2, <1>4, <1>5

LEMMA RefuseType ==
  ASSUME FInv, NEW s \in Sids, NEW t, Refuse(s, t)
  PROVE  TypeOK'
  <1> USE DEF FInv, TypeOK
  <1>1. /\ pending' \in [Sids -> 0..MaxTokens]
        /\ \A x \in Sids : pending'[x] # 0 => pending'[x] = pending[x]
    BY BoundsAssumption DEF Refuse
  <1>2. reply' \in [Sids -> {"none", "asked", "refused", "error", "sealed"}]
    BY DEF Refuse, Answer
  <1>3. UNCHANGED <<mem, disk, files, issued, commit, told, now, crashes>>
    BY DEF Refuse
  <1> QED
    BY <1>1, <1>2, <1>3

(* The stage of a commit in progress moves on. *)
LEMMA StageType ==
  ASSUME commit \in Commits, NEW at \in {"verified", "written", "sealed"}, Stage(at)
  PROVE  commit' = [commit EXCEPT !.at = at] /\ commit' \in Commits
  BY DEF Stage, Commits

LEMMA ExportType ==
  ASSUME FInv, Export
  PROVE  /\ TypeOK'
         /\ commit' = [commit EXCEPT !.at = "written"] /\ commit' \in Commits
         /\ \A x \in Sids : /\ mem'[x].gen = mem[x].gen
                            /\ mem'[x].status = mem[x].status
                            /\ mem'[x].name = mem[x].name
  <1> USE DEF FInv, TypeOK
  <1>1. commit \in Commits /\ commit.sid \in Sids
    BY DEF Export, NoCommit, Commits
  <1> DEFINE s == commit.sid
             f == File(s, mem[s].name)
  <1>2. commit' = [commit EXCEPT !.at = "written"] /\ commit' \in Commits
    BY <1>1, StageType DEF Export
  <1>3. mem[s] \in Records /\ f \in DOMAIN files
    BY <1>1 DEF File, Records
  <1>4. mem[s].gen \in 1..MaxGen /\ <<s, mem[s].gen>> \in Lives
    BY <1>1, <1>3 DEF CommitInv, Free, NoCommit, Commits, Export, Records, Lives
  <1>5. mem' = mem \/ mem' = [mem EXCEPT ![s] = [mem[s] EXCEPT !.path = TRUE]]
    BY DEF Export, Update
  <1> DEFINE r == [mem[s] EXCEPT !.path = TRUE]
  <1>a. r \in Records /\ r.gen = mem[s].gen /\ r.status = mem[s].status /\ r.name = mem[s].name
    BY <1>3, RecordFields
  <1>b. mem' = mem \/ mem' = [mem EXCEPT ![s] = r]
    BY <1>5
  <1> HIDE DEF r
  <1>6. mem' \in [Sids -> Records]
    BY <1>a, <1>b
  <1>7. \A x \in Sids : /\ mem'[x].gen = mem[x].gen
                        /\ mem'[x].status = mem[x].status
                        /\ mem'[x].name = mem[x].name
    BY <1>a, <1>b
  <1>8. \/ files' = files
        \/ files' = [files EXCEPT ![f] = <<s, mem[s].gen>>]
        \/ files' = [files EXCEPT ![f] = Broken]
    BY DEF Export
  <1>9. /\ DOMAIN files' = Sids \X Names
        /\ \A x \in DOMAIN files' : files'[x] \in {Blank, Broken} \/ files'[x] \in Lives
    BY <1>4, <1>8
  <1>10. UNCHANGED <<disk, pending, issued, reply, told, now, crashes>>
    BY DEF Export
  <1> QED
    BY <1>2, <1>6, <1>7, <1>9, <1>10

LEMMA SealType ==
  ASSUME FInv, SealRecord
  PROVE  /\ TypeOK'
         /\ commit' = [commit EXCEPT !.at = "sealed"] /\ commit' \in Commits
         /\ mem' = [mem EXCEPT ![commit.sid] = [mem[commit.sid] EXCEPT !.status = "sealed"]]
         /\ mem[commit.sid] \in Records /\ commit.sid \in Sids
  <1> USE DEF FInv, TypeOK
  <1>1. commit \in Commits /\ commit.sid \in Sids
    BY DEF SealRecord, NoCommit, Commits
  <1> DEFINE s == commit.sid
             r == [mem[s] EXCEPT !.status = "sealed"]
  <1>2. commit' = [commit EXCEPT !.at = "sealed"] /\ commit' \in Commits
    BY <1>1, StageType DEF SealRecord
  <1>3. mem' = [mem EXCEPT ![s] = r]
    BY DEF SealRecord, Update
  <1>4. mem' \in [Sids -> Records]
    BY <1>1, <1>3 DEF Records
  <1>5. pending[s] = 0
    BY DEF SealRecord, CommitInv, Free, NoCommit
  <1> HIDE DEF r
  <1>6. \A x \in Sids : pending[x] # 0 => mem'[x] = mem[x]
    BY <1>3, <1>5
  <1>7. UNCHANGED <<disk, files, pending, issued, reply, told, now, crashes>>
    BY DEF SealRecord
  <1>8. TypeOK'
    BY <1>2, <1>4, <1>6, <1>7
  <1> USE DEF r
  <1> QED
    BY <1>1, <1>2, <1>3, <1>8

LEMMA FinishType ==
  ASSUME FInv, Finish
  PROVE  TypeOK' /\ TheEnd \in Ends
  <1> USE DEF FInv, TypeOK
  <1>1. commit \in Commits /\ commit.sid \in Sids
    BY DEF Finish, NoCommit, Commits
  <1>2. mem[commit.sid] \in Records /\ mem[commit.sid].gen \in 1..MaxGen
    BY <1>1 DEF CommitInv, Free, NoCommit, Commits, Finish, Records
  <1>3. TheEnd \in Ends
    BY <1>1, <1>2 DEF TheEnd, Ends, Commits, Records
  <1>4. /\ pending' \in [Sids -> 0..MaxTokens]
        /\ \A x \in Sids : pending'[x] # 0 => pending'[x] = pending[x]
    <2>1. pending' = [pending EXCEPT ![commit.sid] = 0]
      BY DEF Finish
    <2> QED
      BY <2>1, Dropped
  <1>5. /\ reply' \in [Sids -> {"none", "asked", "refused", "error", "sealed"}]
        /\ disk' = mem /\ mem' = mem /\ commit' = NoCommit
        /\ told' = told \cup {TheEnd}
        /\ UNCHANGED <<files, issued, now, crashes>>
    BY DEF Finish, Save, Answer
  <1> QED
    BY <1>3, <1>4, <1>5

LEMMA CrashType ==
  ASSUME FInv, Crash
  PROVE  TypeOK'
  <1> USE DEF FInv, TypeOK
  <1>1. crashes' \in 0..MaxCrashes
    BY BoundsAssumption DEF Crash
  <1>2. \A t \in DOMAIN issued : issued[t] \in Tickets
    OBVIOUS
  <1>3. /\ mem' = disk /\ commit' = NoCommit
        /\ pending' = [s \in Sids |-> 0] /\ reply' = [s \in Sids |-> "none"]
        /\ UNCHANGED <<disk, files, issued, told, now>>
    BY DEF Crash
  <1> QED
    BY <1>1, <1>3, BoundsAssumption

------------------------------------------------------------------------------
(* The record of a session only moves on, except when the table is read    *)
(* back; the disk holds what it held, or what memory now holds.            *)
MovesOn == \A x \in Sids : Behind(mem[x], mem'[x])

LEMMA BehindTransitive ==
  ASSUME NEW a \in Records, NEW b \in Records, NEW c \in Records,
         Behind(a, b), Behind(b, c)
  PROVE  Behind(a, c)
  BY BoundsAssumption DEF Behind, Records

LEMMA DiskStep ==
  ASSUME TypeOK, TypeOK', DiskInv, MovesOn, disk' = disk \/ disk' = mem'
  PROVE  DiskInv' /\ \A x \in Sids : Behind(disk[x], disk'[x])
  <1> SUFFICES ASSUME NEW x \in Sids
               PROVE  Behind(disk'[x], mem'[x]) /\ Behind(disk[x], disk'[x])
    BY DEF DiskInv
  <1>1. disk[x] \in Records /\ mem[x] \in Records /\ mem'[x] \in Records
    BY DEF TypeOK
  <1>2. Behind(disk[x], mem'[x])
    BY <1>1, BehindTransitive DEF DiskInv, MovesOn
  <1>3. Behind(disk[x], disk[x]) /\ Behind(mem'[x], mem'[x])
    BY DEF Behind
  <1> QED
    BY <1>2, <1>3

(* What is sealed on disk, or replaced there by a later life, stays so. *)
Over(e) == \/ disk[e.sid].gen > e.gen
           \/ disk[e.sid].gen = e.gen /\ disk[e.sid].status = "sealed"

LEMMA OverStays ==
  ASSUME TypeOK, TypeOK', NEW e \in Ends, Over(e),
         \A x \in Sids : Behind(disk[x], disk'[x])
  PROVE  Over(e)'
  <1>1. e.sid \in Sids /\ e.gen \in Int
    BY BoundsAssumption DEF Ends
  <1>2. disk[e.sid].gen \in Int /\ disk'[e.sid].gen \in Int
    BY <1>1, BoundsAssumption DEF TypeOK, Records
  <1>3. Behind(disk[e.sid], disk'[e.sid])
    BY <1>1
  <1> QED
    BY <1>1, <1>2, <1>3 DEF Over, Behind

LEMMA ToldStep ==
  ASSUME TypeOK, TypeOK', DiskInv, IrreversibleOnceTold, MovesOn,
         disk' = disk \/ disk' = mem', told' = told
  PROVE  DiskInv' /\ IrreversibleOnceTold'
  <1>1. DiskInv' /\ \A x \in Sids : Behind(disk[x], disk'[x])
    BY DiskStep
  <1>2. \A e \in told : e \in Ends /\ Over(e)
    BY DEF TypeOK, IrreversibleOnceTold, Over
  <1>3. \A e \in told : Over(e)'
    BY <1>1, <1>2, OverStays
  <1> QED
    BY <1>1, <1>3 DEF IrreversibleOnceTold, Over

(* A step that leaves the tokens, or drops some. *)
LEMMA TokensStep ==
  ASSUME TokensInv, issued' = issued,
         \A x \in Sids : pending'[x] # 0 => pending'[x] = pending[x]
  PROVE  TokensInv'
  BY DEF TokensInv, Latest

(* A step outside a commit that starts none. *)
LEMMA FreeStep ==
  ASSUME Free, commit' = commit
  PROVE  CommitInv'
  BY DEF CommitInv, Free

------------------------------------------------------------------------------
LEMMA BindInv ==
  ASSUME FInv, NEW s \in Sids, NEW n \in Names, Bind(s, n)
  PROVE  FInv'
  <1>1. TypeOK /\ TypeOK'
    BY BindType DEF FInv
  <1>2. MovesOn
    <2> SUFFICES ASSUME NEW x \in Sids PROVE Behind(mem[x], mem'[x])
      BY DEF MovesOn
    <2>1. mem[x] \in Records /\ mem[s] \in Records
      BY <1>1 DEF TypeOK
    <2>2. CASE x # s
      BY <1>1, <2>2 DEF Bind, Update, TypeOK, Behind
    <2>3. CASE x = s /\ Bound(mem[s])
      <3>1. mem'[x] = [mem[s] EXCEPT !.name = n]
        BY <1>1, <2>3 DEF Bind, Update, TypeOK
      <3>2. mem'[x].gen = mem[x].gen /\ mem[x].status = "bound"
        BY <2>1, <2>3, <3>1 DEF Records, Bound
      <3> QED
        BY <2>1, <2>3, <3>1, <3>2 DEF Records, Behind
    <2>4. CASE x = s /\ ~Bound(mem[s])
      <3>1. mem'[x] = Hatched(mem[s], n)
        BY <1>1, <2>4 DEF Bind, Update, TypeOK
      <3> QED
        BY <2>1, <2>4, <3>1, BoundsAssumption DEF Hatched, Records, Behind
    <2> QED
      BY <2>2, <2>3, <2>4
  <1>3. DiskInv' /\ IrreversibleOnceTold'
    BY <1>1, <1>2, ToldStep DEF FInv, Bind, Save
  <1>4. TokensInv' /\ CommitInv'
    BY TokensStep, FreeStep DEF FInv, Bind
  <1> QED
    BY <1>1, <1>3, <1>4 DEF FInv

LEMMA PersistInv ==
  ASSUME FInv, Persist
  PROVE  FInv'
  <1>1. TypeOK /\ TypeOK'
    BY DEF FInv, TypeOK, Persist, Save
  <1>2. MovesOn
    BY DEF Persist, MovesOn, Behind
  <1>3. DiskInv' /\ IrreversibleOnceTold'
    BY <1>1, <1>2, ToldStep DEF FInv, Persist, Save
  <1>4. TokensInv' /\ CommitInv'
    BY TokensStep, FreeStep DEF FInv, Persist
  <1> QED
    BY <1>1, <1>3, <1>4 DEF FInv

(* The token handed out beats every earlier one. *)
LEMMA AskInv ==
  ASSUME FInv, NEW s \in Sids, Ask(s)
  PROVE  FInv'
  <1>1. TypeOK /\ TypeOK'
    BY AskType DEF FInv
  <1>2. MovesOn
    BY DEF Ask, MovesOn, Behind
  <1>3. DiskInv' /\ IrreversibleOnceTold'
    BY <1>1, <1>2, ToldStep DEF FInv, Ask
  <1>4. CommitInv'
    BY FreeStep DEF Ask
  <1>5. PICK n \in 0..MaxTokens : DOMAIN issued = 1..n
    BY DEF FInv, TokensInv
  <1>6. 1 + Cardinality(DOMAIN issued) = n + 1
    <2>1. Cardinality(1..n) = n
      BY <1>5, FS_Interval, BoundsAssumption
    <2> QED
      BY <1>5, <2>1
  <1>7. n + 1 \in 1..MaxTokens /\ n \in Nat
    BY <1>5, <1>6, BoundsAssumption DEF Ask, Tokens
  <1>8. DOMAIN issued' = 1..(n + 1)
    BY <1>5, <1>6, <1>7 DEF Ask
  <1>9. \A u \in 1..n : issued'[u] = issued[u]
    BY <1>5, <1>6, <1>7 DEF Ask
  <1>10. issued'[n + 1].sid = s /\ pending' = [pending EXCEPT ![s] = n + 1]
    BY <1>6, <1>7 DEF Ask
  <1>11. ASSUME NEW x \in Sids, pending'[x] # 0
         PROVE  \A u \in DOMAIN issued' : issued'[u].sid = x => u <= pending'[x]
    <2>1. CASE x = s
      <3>1. pending'[x] = n + 1
        BY <1>1, <1>10, <2>1 DEF TypeOK
      <3> QED
        BY <1>7, <1>8, <3>1 DEF Latest
    <2>2. CASE x # s
      <3>1. pending'[x] = pending[x] /\ Latest(x, pending[x])
        BY <1>1, <1>10, <1>11, <2>2 DEF TypeOK, FInv, TokensInv
      <3>2. \A u \in DOMAIN issued' : issued'[u].sid = x => u \in 1..n
        BY <1>7, <1>8, <1>10, <2>2
      <3> QED
        BY <1>5, <1>9, <3>1, <3>2 DEF Latest
    <2> QED
      BY <2>1, <2>2
  <1>12. TokensInv'
    <2>1. \E m \in 0..MaxTokens : DOMAIN issued' = 1..m
      BY <1>7, <1>8
    <2> QED
      BY <1>11, <2>1 DEF TokensInv, Latest
  <1> QED
    BY <1>1, <1>3, <1>4, <1>12 DEF FInv

LEMMA RefuseInv ==
  ASSUME FInv, NEW s \in Sids, NEW t, Refuse(s, t)
  PROVE  FInv'
  <1>1. TypeOK /\ TypeOK'
    BY RefuseType DEF FInv
  <1>2. MovesOn
    BY DEF Refuse, MovesOn, Behind
  <1>3. DiskInv' /\ IrreversibleOnceTold'
    BY <1>1, <1>2, ToldStep DEF FInv, Refuse
  <1>4. \A x \in Sids : pending'[x] # 0 => pending'[x] = pending[x]
    BY <1>1 DEF Refuse, TypeOK
  <1>5. TokensInv' /\ CommitInv'
    BY <1>4, TokensStep, FreeStep DEF FInv, Refuse
  <1> QED
    BY <1>1, <1>3, <1>5 DEF FInv

(* What the gate verified is what CommitInv says of the call. *)
LEMMA AcceptInv ==
  ASSUME FInv, NEW s \in Sids, NEW t \in DOMAIN issued, NEW export \in BOOLEAN,
         Accept(s, t, export)
  PROVE  FInv'
  <1>1. TypeOK /\ TypeOK' /\ commit' \in Commits
    BY AcceptType DEF FInv
  <1>2. MovesOn
    BY DEF Accept, MovesOn, Behind
  <1>3. DiskInv' /\ IrreversibleOnceTold'
    BY <1>1, <1>2, ToldStep DEF FInv, Accept
  <1>4. pending' = [pending EXCEPT ![s] = 0] /\ UNCHANGED <<mem, issued, crashes>>
    BY DEF Accept
  <1>5. /\ pending'[s] = 0
        /\ \A x \in Sids : pending'[x] # 0 => pending'[x] = pending[x]
    BY <1>1, <1>4 DEF TypeOK
  <1>6. TokensInv'
    BY <1>4, <1>5, TokensStep DEF FInv
  <1>7. /\ commit'.sid = s /\ commit'.token = t /\ commit'.since = now
        /\ commit'.at = "verified"
    BY DEF Accept
  <1>8. /\ t = pending[s] /\ t # 0 /\ now < issued[t].expires
        /\ mem[s].gen > 0 /\ mem[s].status = "bound"
    <2>1. t \in 1..MaxTokens /\ issued[t] \in Tickets /\ now \in Int
      BY <1>1, BoundsAssumption DEF TypeOK, Tokens
    <2>2. issued[t].expires \in Int
      BY <2>1, BoundsAssumption, TTLAssumption DEF Tickets
    <2>3. ~(now >= issued[t].expires) /\ t = pending[s]
      BY DEF Accept, Valid, Expired
    <2> QED
      BY <2>1, <2>2, <2>3 DEF Accept, Bound
  <1>9. /\ issued[t].sid = s /\ issued[t].gen = mem[s].gen
        /\ issued[t].run = crashes /\ Latest(s, t)
    BY <1>1, <1>8 DEF TypeOK, FInv, TokensInv
  <1>10. Latest(s, t)'
    BY <1>4, <1>9 DEF Latest
  <1>11. CommitInv'
    BY <1>1, <1>4, <1>5, <1>7, <1>8, <1>9, <1>10 DEF CommitInv
  <1> QED
    BY <1>1, <1>3, <1>6, <1>11 DEF FInv

(* The commit goes on: its session and its token are the same. *)
LEMMA CommitStep ==
  ASSUME FInv, ~Free, commit \in Commits, NEW at,
         commit' = [commit EXCEPT !.at = at], commit' \in Commits,
         UNCHANGED <<pending, issued, crashes>>,
         mem'[commit.sid].gen = mem[commit.sid].gen,
         mem'[commit.sid].status = "bound" <=> at # "sealed"
  PROVE  CommitInv'
  <1>1. /\ commit'.sid = commit.sid /\ commit'.token = commit.token
        /\ commit'.since = commit.since /\ commit'.at = at
    BY DEF Commits
  <1>2. Latest(commit.sid, commit.token) => Latest(commit.sid, commit.token)'
    BY <1>1 DEF Latest
  <1> QED
    BY <1>1, <1>2 DEF FInv, CommitInv

LEMMA ExportInv ==
  ASSUME FInv, Export
  PROVE  FInv'
  <1>1. /\ TypeOK /\ TypeOK'
        /\ commit' = [commit EXCEPT !.at = "written"] /\ commit' \in Commits
        /\ \A x \in Sids : /\ mem'[x].gen = mem[x].gen
                           /\ mem'[x].status = mem[x].status
    BY ExportType DEF FInv
  <1>2. MovesOn
    BY <1>1 DEF MovesOn, Behind
  <1>3. DiskInv' /\ IrreversibleOnceTold'
    BY <1>1, <1>2, ToldStep DEF FInv, Export
  <1>4. ~Free /\ commit \in Commits /\ commit.sid \in Sids /\ commit.at = "verified"
    BY <1>1 DEF Export, Free, NoCommit, Commits, TypeOK
  <1>5. mem[commit.sid].status = "bound"
    BY <1>4 DEF FInv, CommitInv
  <1>6. CommitInv'
    BY <1>1, <1>4, <1>5, CommitStep DEF Export
  <1>7. TokensInv'
    BY TokensStep DEF Export, FInv
  <1> QED
    BY <1>1, <1>3, <1>6, <1>7 DEF FInv

LEMMA SealInv ==
  ASSUME FInv, SealRecord
  PROVE  FInv'
  <1>1. /\ TypeOK /\ TypeOK'
        /\ commit' = [commit EXCEPT !.at = "sealed"] /\ commit' \in Commits
        /\ mem' = [mem EXCEPT ![commit.sid] = [mem[commit.sid] EXCEPT !.status = "sealed"]]
        /\ mem[commit.sid] \in Records /\ commit.sid \in Sids
    BY SealType DEF FInv
  <1>2. /\ mem'[commit.sid] = [mem[commit.sid] EXCEPT !.status = "sealed"]
        /\ \A x \in Sids : x # commit.sid => mem'[x] = mem[x]
    BY <1>1 DEF TypeOK
  <1>3. mem'[commit.sid].gen = mem[commit.sid].gen /\ mem'[commit.sid].status = "sealed"
    BY <1>1, <1>2, RecordFields
  <1>4. MovesOn
    BY <1>2, <1>3 DEF MovesOn, Behind
  <1>5. DiskInv' /\ IrreversibleOnceTold'
    BY <1>1, <1>4, ToldStep DEF FInv, SealRecord
  <1>6. ~Free /\ commit \in Commits
    BY <1>1 DEF SealRecord, Free, NoCommit, TypeOK
  <1>7. CommitInv'
    BY <1>1, <1>3, <1>6, CommitStep DEF SealRecord
  <1>8. TokensInv'
    BY TokensStep DEF SealRecord, FInv
  <1> QED
    BY <1>1, <1>5, <1>7, <1>8 DEF FInv

(* What the answer says is what the save that precedes it wrote. *)
LEMMA FinishInv ==
  ASSUME FInv, Finish
  PROVE  FInv'
  <1>1. TypeOK /\ TypeOK' /\ TheEnd \in Ends
    BY FinishType DEF FInv
  <1>2. /\ mem' = mem /\ disk' = mem /\ commit' = NoCommit
        /\ pending' = [pending EXCEPT ![commit.sid] = 0]
        /\ told' = told \cup {TheEnd} /\ issued' = issued
    BY DEF Finish, Save
  <1>3. MovesOn
    BY <1>2 DEF MovesOn, Behind
  <1>4. DiskInv' /\ \A x \in Sids : Behind(disk[x], disk'[x])
    BY <1>1, <1>2, <1>3, DiskStep DEF FInv
  <1>5. \A e \in told : Over(e)'
    <2>1. \A e \in told : e \in Ends /\ Over(e)
      BY <1>1 DEF TypeOK, FInv, IrreversibleOnceTold, Over
    <2> QED
      BY <1>1, <1>4, <2>1, OverStays
  <1>6. mem[commit.sid].status = "sealed"
    <2>1. commit \in Commits /\ commit.sid \in Sids /\ ~Free /\ commit.at = "sealed"
      BY <1>1 DEF Finish, Free, NoCommit, Commits, TypeOK
    <2>2. mem[commit.sid].status # "bound"
      BY <2>1 DEF FInv, CommitInv
    <2> QED
      BY <1>1, <2>1, <2>2 DEF TypeOK, Records
  <1>7. /\ disk'[TheEnd.sid].gen = TheEnd.gen
        /\ disk'[TheEnd.sid].status = "sealed"
    BY <1>2, <1>6 DEF TheEnd
  <1>8. IrreversibleOnceTold'
    BY <1>2, <1>5, <1>7 DEF IrreversibleOnceTold, Over
  <1>9. TokensInv'
    BY <1>1, <1>2, Dropped, TokensStep DEF FInv, TypeOK
  <1>10. CommitInv'
    BY <1>2 DEF CommitInv, Free
  <1> QED
    BY <1>1, <1>4, <1>8, <1>9, <1>10 DEF FInv

LEMMA FinishFailsInv ==
  ASSUME FInv, FinishFails
  PROVE  FInv'
  <1>1. TypeOK /\ TypeOK'
    BY DEF FInv, TypeOK, FinishFails, Answer
  <1>2. MovesOn
    BY DEF FinishFails, MovesOn, Behind
  <1>3. DiskInv' /\ IrreversibleOnceTold'
    BY <1>1, <1>2, ToldStep DEF FInv, FinishFails
  <1>4. TokensInv' /\ CommitInv'
    BY TokensStep DEF FInv, FinishFails, CommitInv, Free
  <1> QED
    BY <1>1, <1>3, <1>4 DEF FInv

(* A restart: no token and no call is left, and the disk is what it was. *)
LEMMA CrashInv ==
  ASSUME FInv, Crash
  PROVE  FInv'
  <1>1. TypeOK'
    BY CrashType
  <1>2. \A x \in Sids : pending'[x] = 0
    BY DEF Crash
  <1>3. TokensInv'
    BY <1>2, TokensStep DEF FInv, Crash
  <1>4. CommitInv'
    BY DEF Crash, CommitInv, Free
  <1>5. DiskInv' /\ IrreversibleOnceTold'
    BY DEF FInv, Crash, DiskInv, Behind, IrreversibleOnceTold
  <1> QED
    BY <1>1, <1>3, <1>4, <1>5 DEF FInv

LEMMA TickInv ==
  ASSUME FInv, Tick
  PROVE  FInv'
  <1>1. now' \in 0..MaxTime
    BY BoundsAssumption DEF FInv, TypeOK, Tick
  <1>2. UNCHANGED <<mem, disk, files, pending, issued, commit, reply, told, crashes>>
    BY DEF Tick
  <1>3. TypeOK'
    BY <1>1, <1>2 DEF FInv, TypeOK
  <1>4. TokensInv' /\ CommitInv' /\ DiskInv' /\ IrreversibleOnceTold'
    BY <1>2 DEF FInv, TokensInv, Latest, CommitInv, Free, DiskInv, Behind,
                IrreversibleOnceTold
  <1> QED
    BY <1>3, <1>4 DEF FInv

LEMMA StutterInv ==
  ASSUME FInv, UNCHANGED vars
  PROVE  FInv'
  BY DEF vars, FInv, TypeOK, TokensInv, Latest, CommitInv, Free, DiskInv, Behind,
         IrreversibleOnceTold

LEMMA NextInv ==
  ASSUME FInv, [Next]_vars
  PROVE  FInv'
  <1>1. ASSUME NEW s \in Sids, NEW n \in Names, Bind(s, n) PROVE FInv'
    BY <1>1, BindInv
  <1>2. ASSUME NEW s \in Sids, Ask(s) PROVE FInv'
    BY <1>2, AskInv
  <1>3. ASSUME NEW s \in Sids, NEW t \in DOMAIN issued \cup {Junk}, Refuse(s, t)
        PROVE  FInv'
    BY <1>3, RefuseInv
  <1>4. ASSUME NEW s \in Sids, NEW t \in DOMAIN issued, NEW export \in BOOLEAN,
               Accept(s, t, export)
        PROVE  FInv'
    BY <1>4, AcceptInv
  <1>5. CASE Persist \/ Export \/ SealRecord \/ Finish \/ FinishFails
    BY <1>5, PersistInv, ExportInv, SealInv, FinishInv, FinishFailsInv
  <1>6. CASE Crash \/ Tick \/ UNCHANGED vars
    BY <1>6, CrashInv, TickInv, StutterInv
  <1> QED
    BY <1>1, <1>2, <1>3, <1>4, <1>5, <1>6 DEF Next

------------------------------------------------------------------------------
(* The invariant of the two-step farewell: tokens are handed out in order   *)
(* and only the last one of a session is in flight, a call that was         *)
(* accepted holds it, and the table on disk is never ahead of memory.       *)
THEOREM FarewellInvariance == Spec => []FInv
  <1>1. FInv /\ [Next]_vars => FInv'
    BY NextInv
  <1> QED
    BY InitFInv, <1>1, PTL DEF Spec

(* Every reachable state has the types the module declares, and a token in  *)
(* flight is always of a life that still goes on, in this run.              *)
THEOREM FarewellTypeCorrect == Spec => []TypeOK
  <1>1. FInv => TypeOK
    BY DEF FInv
  <1> QED
    BY FarewellInvariance, <1>1, PTL

(* No crash, failed save or later call brings back a life whose end the     *)
(* user was told of (_commit_seal saves before it answers).                 *)
THEOREM Irreversible == Spec => []IrreversibleOnceTold
  <1>1. FInv => IrreversibleOnceTold
    BY DEF FInv
  <1> QED
    BY FarewellInvariance, <1>1, PTL

------------------------------------------------------------------------------
(* A record that ceases to be bound in its own life was sealed by the call  *)
(* that is in progress, and CommitInv says how that call came to be.        *)
Consented(s) ==
  /\ ~Free /\ commit.sid = s
  /\ commit.since < issued[commit.token].expires
  /\ issued[commit.token].sid = s
  /\ issued[commit.token].gen = mem[s].gen
  /\ issued[commit.token].run = crashes
  /\ \A t \in DOMAIN issued : issued[t].sid = s => t <= commit.token

Ended(s) == Bound(mem[s]) /\ ~Bound(mem'[s]) /\ mem'[s].gen = mem[s].gen

LEMMA StillBound ==
  ASSUME NEW s, mem'[s].gen = mem[s].gen, mem'[s].status = mem[s].status
  PROVE  ~Ended(s)
  BY DEF Ended, Bound

LEMMA BindEndsNone ==
  ASSUME FInv, NEW x \in Sids, NEW n \in Names, Bind(x, n), NEW s \in Sids
  PROVE  ~Ended(s)
  <1>1. mem \in [Sids -> Records] /\ mem[x] \in Records
    BY DEF FInv, TypeOK
  <1>2. CASE Bound(mem[x])
    <2>1. mem' = [mem EXCEPT ![x] = [mem[x] EXCEPT !.name = n]]
      BY <1>2 DEF Bind, Update
    <2>2. mem'[s].gen = mem[s].gen /\ mem'[s].status = mem[s].status
      BY <1>1, <2>1 DEF Records
    <2> QED
      BY <2>2, StillBound
  <1>3. CASE ~Bound(mem[x])
    <2>1. mem' = [mem EXCEPT ![x] = Hatched(mem[x], n)]
      BY <1>3 DEF Bind, Update
    <2> QED
      BY <1>1, <1>3, <2>1 DEF Ended
  <1> QED
    BY <1>2, <1>3

LEMMA SealConsented ==
  ASSUME FInv, SealRecord, NEW s \in Sids, Ended(s)
  PROVE  Consented(s)
  <1>1. s = commit.sid
    BY SealType DEF FInv, TypeOK, Ended
  <1>2. ~Free
    BY DEF SealRecord, Free, NoCommit, FInv, TypeOK
  <1> QED
    BY <1>1, <1>2 DEF FInv, CommitInv, Latest, Consented

(* The table read back is never ahead, so a restart ends no life. *)
LEMMA CrashEndsNone ==
  ASSUME FInv, Crash, NEW s \in Sids
  PROVE  ~Ended(s)
  <1>1. mem[s] \in Records /\ disk[s] \in Records /\ mem'[s] = disk[s]
    BY DEF FInv, TypeOK, Crash
  <1>2. Behind(disk[s], mem[s])
    BY DEF FInv, DiskInv
  <1> QED
    BY <1>1, <1>2, BoundsAssumption DEF Behind, Ended, Bound, Records

LEMMA NextConsented ==
  ASSUME FInv, [Next]_vars, NEW s \in Sids, Ended(s)
  PROVE  Consented(s)
  <1>1. ASSUME NEW x \in Sids, NEW n \in Names, Bind(x, n) PROVE FALSE
    BY <1>1, BindEndsNone
  <1>2. CASE Export
    BY <1>2, ExportType, StillBound
  <1>3. CASE SealRecord
    BY <1>3, SealConsented
  <1>4. CASE Crash
    BY <1>4, CrashEndsNone
  <1>5. CASE mem' = mem
    BY <1>5, StillBound
  <1>6. CASE \/ Persist \/ \E x \in Sids : Ask(x)
             \/ \E x \in Sids, t \in DOMAIN issued \cup {Junk} : Refuse(x, t)
             \/ \E x \in Sids, t \in DOMAIN issued, export \in BOOLEAN :
                                                       Accept(x, t, export)
             \/ Finish \/ FinishFails \/ Tick \/ UNCHANGED vars
    <2>1. mem' = mem
      BY <1>6 DEF Persist, Ask, Refuse, Accept, Finish, FinishFails, Tick, vars
    <2> QED
      BY <1>5, <2>1
  <1> QED
    BY <1>1, <1>2, <1>3, <1>4, <1>6 DEF Next

(* A life ends only by a second call that presented, in time, the token     *)
(* last handed out for this session, in this life and this run.             *)
THEOREM Consent == Spec => ConsentedSeal
  <1>1. FInv /\ [Next]_vars
          => [\A s \in Sids :
                Bound(mem[s]) /\ ~Bound(mem'[s]) /\ mem'[s].gen = mem[s].gen
                  => /\ ~Free /\ commit.sid = s
                     /\ commit.since < issued[commit.token].expires
                     /\ issued[commit.token].sid = s
                     /\ issued[commit.token].gen = mem[s].gen
                     /\ issued[commit.token].run = crashes
                     /\ \A t \in DOMAIN issued :
                          issued[t].sid = s => t <= commit.token]_vars
    BY NextConsented DEF Ended, Consented
  <1> QED
    BY FarewellInvariance, <1>1, PTL DEF Spec, ConsentedSeal

------------------------------------------------------------------------------
(* The anthology, when every save succeeds: memory is ahead of the disk     *)
(* only for the session of the call in progress, whose record on disk is    *)
(* still bound, and a path in a record is the path of her own text.         *)
Hers(r, s) == r.path => files[File(s, r.name)] = <<s, r.gen>>

SessionText(s) ==
  /\ disk[s].status = "bound" => ~disk[s].path
  /\ Hers(disk[s], s) /\ Hers(mem[s], s)
  /\ IF ~Free /\ commit.sid = s
     THEN /\ disk[s].status = "bound"
          /\ commit.at = "verified" => mem[s] = disk[s]
     ELSE mem[s] = disk[s]

TextInv == \A s \in Sids : SessionText(s)

LEMMA InitText == Init => TextInv
  BY DEF Init, TextInv, SessionText, Hers, Free, NoRecord

(* A session that a step does not touch keeps its text. *)
LEMMA SameText ==
  ASSUME NEW s \in Sids, SessionText(s), mem'[s] = mem[s], disk'[s] = disk[s],
         \A n \in Names : files'[File(s, n)] = files[File(s, n)],
         mem[s].name \in Names, disk[s].name \in Names,
         (~Free /\ commit.sid = s) <=> (~Free /\ commit.sid = s)',
         (commit.at = "verified")' => commit.at = "verified"
  PROVE  SessionText(s)'
  BY DEF SessionText, Hers

LEMMA BindText ==
  ASSUME Faults \cap {"save", "bind"} = {}, FInv, TextInv,
         NEW x \in Sids, NEW n \in Names, Bind(x, n)
  PROVE  TextInv'
  <1> SUFFICES ASSUME NEW s \in Sids PROVE SessionText(s)'
    BY DEF TextInv
  <1>1. mem[s] \in Records /\ mem[x] \in Records /\ mem \in [Sids -> Records]
    BY DEF FInv, TypeOK
  <1>2. /\ SessionText(s) /\ Free /\ mem[s] = disk[s]
        /\ disk' = mem' /\ commit' = commit /\ files' = files
    BY DEF TextInv, SessionText, Bind, Save
  <1>3. CASE s # x
    <2>1. mem'[s] = mem[s]
      BY <1>1, <1>3 DEF Bind, Update
    <2> QED
      BY <1>2, <2>1 DEF SessionText, Hers, Free
  <1>4. CASE s = x
    <2>1. mem'[s].path = FALSE
      <3>1. CASE Bound(mem[s])
        <4>1. mem'[s] = [mem[s] EXCEPT !.name = n] /\ mem[s].status = "bound"
          BY <1>1, <1>4, <3>1 DEF Bind, Update, Bound
        <4>2. mem[s].path = FALSE
          BY <1>1, <1>2, <4>1 DEF SessionText, Records
        <4> QED
          BY <1>1, <4>1, <4>2 DEF Records
      <3>2. CASE ~Bound(mem[s])
        BY <1>1, <1>4, <3>2 DEF Bind, Update, Hatched
      <3> QED
        BY <3>1, <3>2
    <2> QED
      BY <1>2, <2>1 DEF SessionText, Hers, Free
  <1> QED
    BY <1>3, <1>4

LEMMA PersistText ==
  ASSUME TextInv, Persist
  PROVE  TextInv'
  <1> SUFFICES ASSUME NEW s \in Sids PROVE SessionText(s)'
    BY DEF TextInv
  <1>1. SessionText(s) /\ mem[s] = disk[s] /\ Free
    BY DEF TextInv, SessionText, Persist
  <1> QED
    BY <1>1 DEF Persist, Save, SessionText, Hers, Free

LEMMA AcceptText ==
  ASSUME TextInv, FInv, NEW x \in Sids, NEW t, NEW export, Accept(x, t, export)
  PROVE  TextInv'
  <1> SUFFICES ASSUME NEW s \in Sids PROVE SessionText(s)'
    BY DEF TextInv
  <1>1. /\ SessionText(s) /\ mem[s] = disk[s] /\ Free /\ ~Free'
        /\ commit'.sid = x /\ mem' = mem /\ disk' = disk /\ files' = files
        /\ mem[x].status = "bound"
    BY DEF TextInv, SessionText, Accept, Free, NoCommit, Bound
  <1> QED
    BY <1>1 DEF SessionText, Hers

(* The file written is the one of this session; no other record names it. *)
LEMMA ExportText ==
  ASSUME TextInv, FInv, Export
  PROVE  TextInv'
  <1> DEFINE c == commit.sid
             f == File(c, mem[c].name)
  <1>1. /\ mem \in [Sids -> Records] /\ disk \in [Sids -> Records] /\ c \in Sids
        /\ DOMAIN files = Sids \X Names /\ ~Free /\ commit.at = "verified"
    BY DEF FInv, TypeOK, Export, Free, NoCommit, Commits
  <1>2. /\ commit' = [commit EXCEPT !.at = "written"] /\ commit' \in Commits
        /\ disk' = disk
    BY ExportType DEF Export
  <1>3. commit'.sid = c /\ commit'.at = "written" /\ ~Free'
    BY <1>2, <1>1 DEF FInv, TypeOK, Free, NoCommit, Commits
  <1>4. SessionText(c) /\ mem[c] = disk[c] /\ ~mem[c].path /\ disk[c].status = "bound"
    BY <1>1 DEF TextInv, SessionText
  <1>5. mem[c] \in Records /\ f \in Sids \X Names
    BY <1>1 DEF Records, File
  <1>6. \/ /\ files' = [files EXCEPT ![f] = <<c, mem[c].gen>>]
           /\ mem' = [mem EXCEPT ![c] = [mem[c] EXCEPT !.path = TRUE]]
        \/ /\ mem' = mem
           /\ files' = files \/ files' = [files EXCEPT ![f] = Broken]
    BY DEF Export, Update
  <1> SUFFICES ASSUME NEW s \in Sids PROVE SessionText(s)'
    BY DEF TextInv
  <1>7. CASE s = c
    <2>1. Hers(mem[s], s)'
      <3>1. CASE mem' = mem
        BY <1>4, <1>7, <3>1 DEF Hers
      <3>2. CASE /\ files' = [files EXCEPT ![f] = <<c, mem[c].gen>>]
                 /\ mem' = [mem EXCEPT ![c] = [mem[c] EXCEPT !.path = TRUE]]
        <4>1. mem'[c] = [mem[c] EXCEPT !.path = TRUE]
          BY <1>1, <3>2
        <4>2. mem'[c].gen = mem[c].gen /\ mem'[c].name = mem[c].name
          BY <1>5, <4>1, RecordFields
        <4>3. files'[f] = <<c, mem[c].gen>>
          BY <1>1, <1>5, <3>2
        <4> QED
          BY <1>7, <4>2, <4>3 DEF Hers
      <3> QED
        BY <1>6, <3>1, <3>2
    <2> QED
      BY <1>2, <1>3, <1>4, <1>7, <2>1 DEF SessionText, Hers
  <1>8. CASE s # c
    <2>1. \A n \in Names : File(s, n) # f /\ File(s, n) \in Sids \X Names
      BY <1>8 DEF File
    <2>2. \A n \in Names : files'[File(s, n)] = files[File(s, n)]
      BY <1>1, <1>6, <2>1
    <2>3. mem'[s] = mem[s] /\ mem[s].name \in Names /\ disk[s].name \in Names
      BY <1>1, <1>6, <1>8 DEF Records
    <2>4. SessionText(s)
      BY DEF TextInv
    <2> QED
      BY <1>1, <1>2, <1>3, <1>8, <2>2, <2>3, <2>4, SameText
  <1> QED
    BY <1>7, <1>8

LEMMA SealText ==
  ASSUME TextInv, FInv, SealRecord
  PROVE  TextInv'
  <1> DEFINE c == commit.sid
  <1>1. /\ commit' = [commit EXCEPT !.at = "sealed"] /\ commit' \in Commits
        /\ mem' = [mem EXCEPT ![c] = [mem[c] EXCEPT !.status = "sealed"]]
        /\ mem[c] \in Records /\ c \in Sids
        /\ disk' = disk /\ files' = files
    BY SealType DEF SealRecord
  <1>2. ~Free /\ commit \in Commits /\ mem \in [Sids -> Records] /\ disk \in [Sids -> Records]
    BY DEF FInv, TypeOK, SealRecord, Free, NoCommit
  <1>3. commit'.sid = c /\ commit'.at = "sealed" /\ ~Free'
    BY <1>1, <1>2 DEF Free, NoCommit, Commits
  <1> SUFFICES ASSUME NEW s \in Sids PROVE SessionText(s)'
    BY DEF TextInv
  <1>4. SessionText(s)
    BY DEF TextInv
  <1>5. CASE s = c
    <2>1. mem'[s] = [mem[s] EXCEPT !.status = "sealed"]
      BY <1>1, <1>2, <1>5
    <2>2. /\ mem'[s].gen = mem[s].gen /\ mem'[s].name = mem[s].name
          /\ mem'[s].path = mem[s].path
      BY <1>1, <1>5, <2>1, RecordFields
    <2> QED
      BY <1>1, <1>2, <1>3, <1>4, <1>5, <2>2 DEF SessionText, Hers
  <1>6. CASE s # c
    <2>1. mem'[s] = mem[s] /\ mem[s].name \in Names /\ disk[s].name \in Names
      BY <1>1, <1>2, <1>6 DEF Records
    <2> QED
      BY <1>1, <1>3, <1>2, <1>4, <1>6, <2>1, SameText
  <1> QED
    BY <1>5, <1>6

LEMMA FinishText ==
  ASSUME TextInv, FInv, Finish
  PROVE  TextInv'
  <1> SUFFICES ASSUME NEW s \in Sids PROVE SessionText(s)'
    BY DEF TextInv
  <1>1. /\ SessionText(s) /\ mem' = mem /\ disk' = mem /\ files' = files /\ Free'
    BY DEF TextInv, Finish, Save, Free
  <1>2. mem[s].status = "bound" => ~mem[s].path
    <2>1. CASE s = commit.sid
      <3>1. mem[s].status # "bound"
        BY <2>1 DEF Finish, FInv, TypeOK, CommitInv, Free, NoCommit, Commits
      <3> QED
        BY <3>1
    <2>2. CASE s # commit.sid
      BY <1>1, <2>2 DEF SessionText
    <2> QED
      BY <2>1, <2>2
  <1> QED
    BY <1>1, <1>2 DEF SessionText, Hers

(* The process restarts from the disk. *)
LEMMA CrashText ==
  ASSUME TextInv, Crash
  PROVE  TextInv'
  BY DEF TextInv, SessionText, Crash, Hers, Free

LEMMA NextText ==
  ASSUME Faults \cap {"save", "bind"} = {}, FInv, TextInv, [Next]_vars
  PROVE  TextInv'
  <1>1. ASSUME NEW x \in Sids, NEW n \in Names, Bind(x, n) PROVE TextInv'
    BY <1>1, BindText
  <1>2. ASSUME NEW x \in Sids, NEW t \in DOMAIN issued, NEW export \in BOOLEAN,
               Accept(x, t, export)
        PROVE  TextInv'
    BY <1>2, AcceptText
  <1>3. CASE Persist \/ Export \/ SealRecord \/ Finish \/ Crash
    BY <1>3, PersistText, ExportText, SealText, FinishText, CrashText
  <1>4. CASE FinishFails
    BY <1>4 DEF FinishFails
  <1>5. CASE \/ \E x \in Sids : Ask(x)
             \/ \E x \in Sids, t \in DOMAIN issued \cup {Junk} : Refuse(x, t)
             \/ Tick \/ UNCHANGED vars
    <2>1. UNCHANGED <<mem, disk, files, commit>>
      BY <1>5 DEF Ask, Refuse, Tick, vars
    <2> QED
      BY <2>1 DEF TextInv, SessionText, Hers, Free
  <1> QED
    BY <1>1, <1>2, <1>3, <1>4, <1>5 DEF Next

(* If every save of the table succeeds, whatever exports fail and whenever  *)
(* the process is killed, the anthology that a sealed record points to is   *)
(* the text of the life that was sealed.                                    *)
THEOREM HerText ==
  ASSUME Faults \cap {"save", "bind"} = {}
  PROVE  Spec => []ResourceIsHers
  <1>1. FInv /\ TextInv /\ [Next]_vars => TextInv'
    BY NextText
  <1>2. TextInv => ResourceIsHers
    BY DEF TextInv, SessionText, Hers, ResourceIsHers
  <1> QED
    BY InitText, FarewellInvariance, <1>1, <1>2, PTL DEF Spec

==============================================================================
