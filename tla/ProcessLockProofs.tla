-------------------------- MODULE ProcessLockProofs --------------------------
(* Mutual exclusion of the processes of a data directory, and what follows   *)
(* from it for bindings.json, for any number of processes and inodes; and    *)
(* the rounds of the heartbeat, for any number of companions and any cap.    *)
EXTENDS MCProcessLock, Sequences, TLAPS

(* The file is never unlinked, so all open descriptors are on the inode the  *)
(* path names; and the lock of an inode is held by who thinks it holds it.   *)
LockInv ==
  /\ TypeOK
  /\ \A p \in Procs : fd[p] # 0 => fd[p] = path
  /\ \A p \in Procs : pc[p] \in Holding => holder[fd[p]] = p
  /\ \A i \in Inodes : holder[i] # Nobody => pc[holder[i]] \in Holding /\ fd[holder[i]] = i
  /\ NoLostUpdate

LEMMA Exclusive == LockInv => MutualExclusion
  <1> SUFFICES ASSUME LockInv, NEW p \in Procs, NEW q \in Procs,
                      pc[p] \in Holding, pc[q] \in Holding
               PROVE  p = q
    BY DEF MutualExclusion
  <1>1. fd[p] = path /\ fd[q] = path
    BY DEF LockInv, TypeOK, HasFile
  <1> QED
    BY <1>1 DEF LockInv

LEMMA InitLockInv == Init => LockInv
  <1> SUFFICES ASSUME Init PROVE LockInv
    OBVIOUS
  <1>1. TypeOK
    BY BoundsAssumption DEF Init, TypeOK, Places, HasFile, Holding
  <1> QED
    BY <1>1, NobodyAssumption DEF Init, LockInv, NoLostUpdate, Holding

LEMMA NextType ==
  ASSUME LockInv, [Next]_vars
  PROVE  TypeOK'
  <1> USE BoundsAssumption, NobodyAssumption
      DEF LockInv, TypeOK, Goto, Places, HasFile, Holding, Inodes
  <1>1. CASE UNCHANGED vars
    BY <1>1 DEF vars
  <1>2. ASSUME NEW p \in Procs, Open(p) PROVE TypeOK'
    BY <1>2 DEF Open
  <1>3. ASSUME NEW p \in Procs, Lock(p) PROVE TypeOK'
    BY <1>3 DEF Lock
  <1>4. ASSUME NEW p \in Procs, WriteHolder(p) PROVE TypeOK'
    BY <1>4 DEF WriteHolder
  <1>5. ASSUME NEW p \in Procs, Build(p) \/ CloseUnsaved(p) \/ Start(p) PROVE TypeOK'
    <2>1. CASE Build(p)
      BY <2>1 DEF Build
    <2>2. CASE CloseUnsaved(p)
      BY <2>2 DEF CloseUnsaved
    <2>3. CASE Start(p)
      <3>1. fd[p] = 0 /\ "start" \notin HasFile
        BY <2>3 DEF Start
      <3>2. \A q \in Procs : pc'[q] \in HasFile <=> fd'[q] # 0
        BY <2>3, <3>1 DEF Start
      <3>3. pc' \in [Procs -> Places]
        BY <2>3 DEF Start
      <3> QED
        BY <2>3, <3>2, <3>3 DEF Start
    <2> QED
      BY <1>5, <2>1, <2>2, <2>3
  <1>6. ASSUME NEW p \in Procs, Save(p) PROVE TypeOK'
    <2>1. pc[p] = "serving" /\ disk + 1 \in 0..MaxSaves
      BY <1>6 DEF Save
    <2>2. pc' = pc \/ pc' = [pc EXCEPT ![p] = "closed"]
      BY <1>6 DEF Save
    <2>3. /\ pc' \in [Procs -> Places]
          /\ \A q \in Procs : pc'[q] \in HasFile <=> pc[q] \in HasFile
      <3>1. CASE pc' = pc
        BY <3>1
      <3>2. CASE pc' = [pc EXCEPT ![p] = "closed"]
        <4>1. pc' \in [Procs -> Places]
          BY <3>2
        <4>2. \A q \in Procs : pc'[q] = IF q = p THEN "closed" ELSE pc[q]
          BY <3>2
        <4>3. "closed" \in HasFile /\ pc[p] \in HasFile
          BY <2>1
        <4> QED
          BY <4>1, <4>2, <4>3
      <3> QED
        BY <2>2, <3>1, <3>2
    <2>4. copy' \in [Procs -> 0..MaxSaves] /\ disk' \in 0..MaxSaves
      BY <1>6, <2>1 DEF Save
    <2>5. UNCHANGED <<path, inodes, holder, fd, pid>>
      BY <1>6 DEF Save
    <2> QED
      BY <2>3, <2>4, <2>5
  <1>7. ASSUME NEW p \in Procs, Unlock(p) PROVE TypeOK'
    BY <1>7 DEF Unlock
  <1>8. ASSUME NEW p \in Procs, Refuse(p) \/ Fail(p) \/ CloseFile(p) \/ Die(p)
        PROVE  TypeOK'
    <2>1. PICK place \in {"refused", "failed", "ended"} : Goto(p, place)
      BY <1>8 DEF Refuse, Fail, CloseFile, Die
    <2>2. fd' = [fd EXCEPT ![p] = 0] /\ UNCHANGED <<path, inodes, pid, disk, copy>>
      BY <1>8 DEF Refuse, Fail, CloseFile, Die
    <2>3. holder' \in [Inodes -> Procs \cup {Nobody}]
      BY <1>8 DEF Refuse, Fail, CloseFile, Die
    <2>4. /\ \A q \in Procs : pc'[q] \in HasFile <=> fd'[q] # 0
          /\ pc' \in [Procs -> Places]
      BY <2>1, <2>2
    <2>5. fd' \in [Procs -> 0..MaxInodes]
      BY <2>2
    <2> QED
      BY <2>2, <2>3, <2>4, <2>5
  <1> QED
    BY <1>1, <1>2, <1>3, <1>4, <1>5, <1>6, <1>7, <1>8 DEF Next

LEMMA NextLockInv ==
  ASSUME LockInv, [Next]_vars
  PROVE  LockInv'
  <1>1. TypeOK'
    BY NextType
  <1>2. \A p \in Procs : pc[p] \in Holding => fd[p] \in Inodes /\ fd[p] = path
    BY DEF LockInv, TypeOK, HasFile, Inodes
  <1> DEFINE Rest == /\ \A p \in Procs : fd[p] # 0 => fd[p] = path
                     /\ \A p \in Procs : pc[p] \in Holding => holder[fd[p]] = p
                     /\ \A i \in Inodes : holder[i] # Nobody => pc[holder[i]] \in Holding /\ fd[holder[i]] = i
                     /\ NoLostUpdate
  <1> USE DEF Goto, Holding
  <1>3. CASE UNCHANGED vars
    BY <1>3 DEF vars, LockInv, NoLostUpdate, TypeOK
  <1>4. ASSUME NEW p \in Procs, Open(p)
        PROVE  Rest'
    BY <1>4, BoundsAssumption
    DEF Open, LockInv, TypeOK, NoLostUpdate, HasFile, Inodes, Places
  <1>5. ASSUME NEW p \in Procs, Lock(p)
        PROVE  Rest'
    BY <1>5, NobodyAssumption DEF Lock, LockInv, TypeOK, NoLostUpdate, HasFile, Inodes
  <1>6. ASSUME NEW p \in Procs, WriteHolder(p) \/ Build(p) \/ CloseUnsaved(p) \/ Start(p)
        PROVE  Rest'
    BY <1>6 DEF WriteHolder, Build, CloseUnsaved, Start, LockInv, TypeOK, NoLostUpdate
  <1>7. ASSUME NEW p \in Procs, Save(p)
        PROVE  Rest'
    BY <1>7, Exclusive DEF MutualExclusion, Save, LockInv, TypeOK, NoLostUpdate
  <1>8. ASSUME NEW p \in Procs, Unlock(p)
        PROVE  Rest'
    <2>1. fd[p] \in Inodes /\ \A q \in Procs \ {p} : pc[q] \notin Holding
      BY <1>2, <1>8, Exclusive DEF MutualExclusion, Unlock
    <2>2. /\ pc'[p] \notin Holding /\ \A q \in Procs \ {p} : pc'[q] = pc[q]
          /\ UNCHANGED <<path, fd, disk, copy>>
      BY <1>8 DEF Unlock, LockInv, TypeOK
    <2>3. \A i \in Inodes : holder'[i] = Nobody
      <3>1. \A i \in Inodes : holder[i] # Nobody => i = fd[p] \/ holder[i] = p
        BY <2>1 DEF LockInv, TypeOK
      <3>2. \A i \in Inodes : holder[i] = p => i = fd[p]
        BY NobodyAssumption DEF LockInv
      <3> QED
        BY <1>8, <2>1, <3>1, <3>2 DEF Unlock, LockInv, TypeOK
    <2> QED
      BY <2>1, <2>2, <2>3 DEF LockInv, NoLostUpdate
  <1>9. ASSUME NEW p \in Procs, Refuse(p) \/ Fail(p) \/ CloseFile(p)
        PROVE  Rest'
    <2>1. /\ fd'[p] = 0 /\ pc'[p] \notin Holding /\ pc[p] \notin Holding
          /\ \A q \in Procs \ {p} : fd'[q] = fd[q] /\ pc'[q] = pc[q]
          /\ UNCHANGED <<path, holder, disk, copy>>
      BY <1>9 DEF Refuse, Fail, CloseFile, LockInv, TypeOK
    <2>2. \A i \in Inodes : holder[i] # Nobody => holder[i] \in Procs
      BY DEF LockInv, TypeOK
    <2> QED
      BY <2>1, <2>2 DEF LockInv, NoLostUpdate
  <1>10. ASSUME NEW p \in Procs, Die(p)
         PROVE  Rest'
    <2>1. /\ fd'[p] = 0 /\ pc'[p] \notin Holding
          /\ \A q \in Procs \ {p} : fd'[q] = fd[q] /\ pc'[q] = pc[q]
          /\ UNCHANGED <<path, disk, copy>>
      BY <1>10 DEF Die, LockInv, TypeOK
    <2>2. \A i \in Inodes : /\ holder'[i] # Nobody => holder[i] # p /\ holder'[i] = holder[i]
                            /\ holder[i] # p => holder'[i] = holder[i]
      BY <1>10, NobodyAssumption DEF Die
    <2>3. \A i \in Inodes : holder[i] # Nobody => holder[i] \in Procs
      BY DEF LockInv, TypeOK
    <2>4. \A q \in Procs \ {p} : pc[q] \in Holding => holder'[fd[q]] = q
      BY <1>2, <2>2 DEF LockInv
    <2> QED
      BY <2>1, <2>2, <2>3, <2>4 DEF LockInv, NoLostUpdate
  <1> QED
    BY <1>1, <1>3, <1>4, <1>5, <1>6, <1>7, <1>8, <1>9, <1>10 DEF Next, LockInv

(* Who holds the lock holds the inode of the path, and what a process serves *)
(* was loaded under it (acquire, release, main).                             *)
THEOREM LockInvariance == Spec => []LockInv
  <1>1. LockInv /\ [Next]_vars => LockInv'
    BY NextLockInv
  <1> QED
    BY <1>1, InitLockInv, PTL DEF Spec

(* ProcessLock.acquire and release: at most one process at a time owns the   *)
(* data directory.                                                           *)
THEOREM Mutex == Spec => []MutualExclusion
  BY Exclusive, LockInvariance, PTL

(* The table a process saves is the one on disk, changed by itself alone.    *)
THEOREM LostUpdateFree == Spec => []NoLostUpdate
  <1>1. LockInv => NoLostUpdate
    BY DEF LockInv
  <1> QED
    BY <1>1, LockInvariance, PTL

(* acquire, if its lock call works, raises ProcessLockError only against a   *)
(* living owner.                                                             *)
THEOREM Refusal == Spec => RefusedByTheLiving
  <1>1. LockInv /\ [Next]_vars
          => [\A p \in Procs : pc[p] = "opened" /\ pc'[p] = "refused"
                => \E q \in Procs \ {p} : pc[q] \in Holding]_vars
    <2> SUFFICES ASSUME LockInv, Next, NEW p \in Procs,
                        pc[p] = "opened", pc'[p] = "refused"
                 PROVE  \E q \in Procs \ {p} : pc[q] \in Holding
      BY DEF vars
    <2>1. PICK r \in Procs : pc'[r] # pc[r] /\ r = p
      OBVIOUS
    <2>2. Refuse(p)
      BY DEF Next, Open, Lock, Refuse, Fail, WriteHolder, Build, Save, CloseUnsaved,
             Unlock, CloseFile, Die, Start, Goto, LockInv, TypeOK
    <2>3. holder[fd[p]] # Nobody /\ fd[p] \in Inodes
      BY <2>2 DEF Refuse, LockInv, TypeOK, HasFile, Inodes
    <2>4. holder[fd[p]] \in Procs /\ pc[holder[fd[p]]] \in Holding
      BY <2>3 DEF LockInv, TypeOK
    <2>5. holder[fd[p]] # p
      BY <2>4 DEF Holding
    <2> QED
      BY <2>4, <2>5
  <1> QED
    BY <1>1, LockInvariance, PTL DEF Spec, RefusedByTheLiving

------------------------------------------------------------------------------
(* The rounds of the heartbeat. *)

Bound == Len(companions)

(* How many companions stand between the cursor and the i-th of them.        *)
Distance(start, n, i) == IF i > start THEN i - 1 - start ELSE i - 1 - start + n

Distinct(s) == \A i, j \in 1..Len(s) : s[i] = s[j] => i = j

(* Who has waited has the cursor behind him: Cap places for every round.     *)
RoundsInv ==
  /\ companions \in Seq(Sessions) /\ Distinct(companions)
  /\ batch \in Seq(Sessions) /\ Distinct(batch)
  /\ cursor \in Nat /\ visiting \in Sessions \cup {Rot!NoVisit} /\ churn \in 0..MaxChurn
  /\ waited \in [Sessions -> Nat]
  /\ Cap > 0 => \A i \in 1..Bound :
                  waited[companions[i]] * Cap + Distance(cursor % Bound, Bound, i) < Bound

LEMMA RoundsParameters == Cap \in Nat /\ MaxChurn \in Nat
  BY RotationConstants DEF Rot!RotationAssumption

(* The cursor wraps around at most once. *)
LEMMA Wraps ==
  ASSUME NEW n \in Nat, n > 0, NEW x \in Nat
  PROVE  /\ x % n \in 0..(n - 1)
         /\ x < n => x % n = x
         /\ n <= x /\ x < 2 * n => x % n = x - n
  <1> DEFINE q == x \div n
             m == x % n
  <1>1. q \in Int /\ m \in 0..(n - 1) /\ x = n * q + m
    OBVIOUS
  <1> HIDE DEF q, m
  <1>2. ASSUME q >= 2 PROVE x >= 2 * n
    BY <1>1, <1>2
  <1>3. ASSUME q <= -1 PROVE FALSE
    BY <1>1, <1>3
  <1>4. q = 0 => x = m
    BY <1>1
  <1>5. q = 1 => x = n + m
    BY <1>1
  <1>6. m \in 0..(n - 1) /\ (x < n => m = x) /\ (n <= x /\ x < 2 * n => m = x - n)
    BY <1>1, <1>2, <1>3, <1>4, <1>5
  <1> QED
    BY <1>6 DEF m

(* A round that takes a part of the list: who is near the cursor is in it,   *)
(* nobody twice, and who is not is Cap places nearer afterwards.             *)
Taken(c, cap, start, b, next) ==
  /\ b \in Seq(Sessions) /\ Distinct(b)
  /\ next \in 0..(Len(c) - 1)
  /\ \A i \in 1..Len(c) :
       /\ Distance(next, Len(c), i) \in 0..(Len(c) - 1)
       /\ \/ \E j \in 1..Len(b) : b[j] = c[i]
          \/ Distance(next, Len(c), i) + cap = Distance(start, Len(c), i)

LEMMA RoundTakes ==
  ASSUME NEW c \in Seq(Sessions), Distinct(c), NEW cap \in Nat \ {0}, cap < Len(c),
         NEW start \in 0..(Len(c) - 1)
  PROVE  Taken(c, cap, start, SubSeq(c \o c, start + 1, start + cap), (start + cap) % Len(c))
  <1> DEFINE n == Len(c)
             d == c \o c
             b == SubSeq(d, start + 1, start + cap)
             next == (start + cap) % n
  <1>1. n \in Nat /\ n > 0 /\ start \in Nat /\ start < n /\ cap \in Nat /\ cap > 0 /\ cap < n
    OBVIOUS
  <1>2. /\ d \in Seq(Sessions) /\ Len(d) = n + n
        /\ \A k \in 1..(n + n) : d[k] = IF k <= n THEN c[k] ELSE c[k - n]
    OBVIOUS
  <1>b. b = SubSeq(d, start + 1, start + cap)
    OBVIOUS
  <1> HIDE DEF d, b
  <1>3. /\ b \in Seq(Sessions) /\ Len(b) = cap
        /\ \A j \in 1..cap : b[j] = d[start + j]
    <2> DEFINE f == start + 1
               l == start + cap
    <2>1. f \in 1..Len(d) /\ l \in 1..Len(d) /\ f \in Nat /\ l \in Nat /\ f <= l
      BY <1>1, <1>2
    <2>2. b = SubSeq(d, f, l)
      BY <1>b
    <2> HIDE DEF f, l
    <2>3. Len(b) = l - f + 1 /\ \A j \in 1..(l - f + 1) : b[j] = d[f + j - 1]
      BY <1>1, <1>2, <2>1, <2>2
    <2>4. l - f + 1 = cap /\ \A j \in 1..cap : f + j - 1 = start + j
      BY <1>1 DEF f, l
    <2>5. Len(b) = cap
      BY <2>3, <2>4
    <2>6. \A j \in 1..cap : b[j] = d[start + j]
      BY <2>3, <2>4
    <2>7. b \in Seq(Sessions)
      BY <1>2, <1>b
    <2> QED
      BY <2>5, <2>6, <2>7
  <1>4. next = IF start + cap < n THEN start + cap ELSE start + cap - n
    BY <1>1, Wraps
  <1> HIDE DEF n, next
  <1>5. \A i, j \in 1..n : c[i] = c[j] => i = j
    BY DEF Distinct, n
  <1>6. \A j \in 1..cap : b[j] = IF start + j <= n THEN c[start + j] ELSE c[start + j - n]
    BY <1>1, <1>2, <1>3
  <1>7. Distinct(b)
    <2> SUFFICES ASSUME NEW j \in 1..cap, NEW k \in 1..cap, b[j] = b[k]
                 PROVE  j = k
      BY <1>3 DEF Distinct
    <2> DEFINE u == IF start + j <= n THEN start + j ELSE start + j - n
               v == IF start + k <= n THEN start + k ELSE start + k - n
    <2>1. u \in 1..n /\ v \in 1..n
      BY <1>1
    <2>2. b[j] = c[u] /\ b[k] = c[v]
      BY <1>6
    <2>3. u = v
      BY <1>5, <2>1, <2>2
    <2> QED
      BY <1>1, <2>3
  <1>8. next \in 0..(n - 1)
    BY <1>1, <1>4
  <1>9. ASSUME NEW i \in 1..n
        PROVE  /\ Distance(next, n, i) \in 0..(n - 1)
               /\ \/ \E j \in 1..Len(b) : b[j] = c[i]
                  \/ Distance(next, n, i) + cap = Distance(start, n, i)
    <2>1. Distance(next, n, i) \in 0..(n - 1) /\ Distance(start, n, i) \in 0..(n - 1)
      BY <1>1, <1>8 DEF Distance
    <2>2. CASE Distance(start, n, i) < cap
      <3> DEFINE j == Distance(start, n, i) + 1
      <3>1. j \in 1..cap
        BY <1>1, <2>1, <2>2
      <3>2. (IF start + j <= n THEN start + j ELSE start + j - n) = i
        BY <1>1 DEF Distance
      <3> HIDE DEF j
      <3>3. b[j] = c[i]
        BY <1>6, <3>1, <3>2
      <3> QED
        BY <1>3, <2>1, <3>1, <3>3
    <2>3. CASE Distance(start, n, i) >= cap
      <3>1. Distance(next, n, i) + cap = Distance(start, n, i)
        BY <1>1, <1>4, <2>3 DEF Distance
      <3> QED
        BY <2>1, <3>1
    <2> QED
      BY <1>1, <2>1, <2>2, <2>3
  <1> QED
    BY <1>3, <1>7, <1>8, <1>9 DEF Taken, n, b, d, next

(* Whoever is Distance away is less than a whole list away. *)
LEMMA DistanceBound ==
  ASSUME NEW n \in Nat, n > 0, NEW x \in Nat, NEW i \in 1..n
  PROVE  Distance(x % n, n, i) \in 0..(n - 1)
  <1>1. x % n \in 0..(n - 1)
    BY Wraps
  <1> DEFINE start == x % n
  <1> HIDE DEF start
  <1>2. start \in 0..(n - 1)
    BY <1>1 DEF start
  <1>3. Distance(start, n, i) \in 0..(n - 1)
    BY <1>2 DEF Distance
  <1> QED
    BY <1>3 DEF start

(* Nobody has waited: the rounds are as they should be. *)
LEMMA NobodyWaits ==
  ASSUME NEW c \in Seq(Sessions), NEW x \in Nat, NEW w, \A s \in Sessions : w[s] = 0,
         NEW cap \in Nat
  PROVE  \A i \in 1..Len(c) : w[c[i]] * cap + Distance(x % Len(c), Len(c), i) < Len(c)
  <1> SUFFICES ASSUME NEW i \in 1..Len(c)
               PROVE  w[c[i]] * cap + Distance(x % Len(c), Len(c), i) < Len(c)
    OBVIOUS
  <1>1. Len(c) \in Nat /\ Len(c) > 0 /\ w[c[i]] = 0
    OBVIOUS
  <1> DEFINE e == Distance(x % Len(c), Len(c), i)
  <1>2. e \in 0..(Len(c) - 1)
    BY <1>1, DistanceBound
  <1> HIDE DEF e
  <1>3. 0 * cap + e < Len(c)
    BY <1>1, <1>2
  <1> QED
    BY <1>1, <1>3 DEF e

LEMMA InitRounds ==
  ASSUME Rot!Init
  PROVE  RoundsInv
  <1>1. /\ companions = <<>> /\ cursor = 0 /\ batch = <<>> /\ visiting = Rot!NoVisit
        /\ waited = [s \in Sessions |-> 0] /\ churn = 0
    BY DEF Rot!Init
  <1>2. <<>> \in Seq(Sessions) /\ Len(<<>>) = 0 /\ Distinct(<<>>)
    BY DEF Distinct
  <1> QED
    BY <1>1, <1>2, RoundsParameters DEF RoundsInv, Bound

(* A round begins. *)
LEMMA WakeKeeps ==
  ASSUME RoundsInv, Rot!Wake
  PROVE  RoundsInv'
  <1> DEFINE n == Len(companions)
             start == cursor % n
  <1>1. /\ companions \in Seq(Sessions) /\ Distinct(companions) /\ cursor \in Nat /\ n \in Nat
        /\ waited \in [Sessions -> Nat]
        /\ visiting \in Sessions \cup {Rot!NoVisit} /\ churn \in 0..MaxChurn
        /\ Cap \in Nat
    BY RoundsParameters DEF RoundsInv
  <1>2. /\ companions' = companions /\ visiting' = visiting /\ churn' = churn
        /\ waited' = [s \in Sessions |-> IF s \in Rot!ToSet(companions) \ Rot!ToSet(batch')
                                         THEN Rot!Capped(waited[s] + 1) ELSE 0]
    BY DEF Rot!Wake
  <1>3. /\ \A s \in Sessions : Rot!Capped(waited[s] + 1) \in Nat
                               /\ Rot!Capped(waited[s] + 1) <= waited[s] + 1
        /\ waited' \in [Sessions -> Nat]
    <2>1. \A s \in Sessions : Rot!Capped(waited[s] + 1) \in Nat
                              /\ Rot!Capped(waited[s] + 1) <= waited[s] + 1
      BY <1>1 DEF Rot!Capped, Rot!N
    <2> QED
      BY <1>2, <2>1
  <1>4. CASE Cap = 0 \/ n <= Cap
    <2>1. batch' = companions /\ cursor' = cursor
      BY <1>4 DEF Rot!Wake, Rot!N
    <2>2. \A s \in Sessions : waited'[s] = 0
      BY <1>2, <2>1
    <2>3. \A i \in 1..n : waited'[companions[i]] * Cap + Distance(cursor % n, n, i) < n
      BY <1>1, <2>2, NobodyWaits
    <2> QED
      BY <1>1, <1>2, <1>3, <2>1, <2>3 DEF RoundsInv, Bound
  <1>5. CASE Cap > 0 /\ Cap < n
    <2>1. batch' = SubSeq(companions \o companions, start + 1, start + Cap) /\ cursor' = (start + Cap) % n
      BY <1>1, <1>5 DEF Rot!Wake, Rot!N, Rot!Batch, Rot!Advance, Rot!Start
    <2>2. start \in 0..(n - 1)
      BY <1>1, <1>5, Wraps
    <2> HIDE DEF start
    <2>a. Taken(companions, Cap, start, batch', cursor')
      BY <1>1, <1>5, <2>1, <2>2, RoundTakes
    <2>3. /\ batch' \in Seq(Sessions) /\ Distinct(batch')
          /\ cursor' \in 0..(n - 1)
          /\ \A i \in 1..n : /\ Distance(cursor', n, i) \in 0..(n - 1)
                             /\ \/ \E j \in 1..Len(batch') : batch'[j] = companions[i]
                                \/ Distance(cursor', n, i) + Cap = Distance(start, n, i)
      BY <2>a DEF Taken
    <2>4. cursor' \in Nat /\ cursor' % n = cursor'
      <3>1. n \in Nat /\ n > 0 /\ cursor' \in 0..(n - 1)
        BY <1>1, <1>5, <2>3
      <3> HIDE DEF n
      <3>2. \A y \in 0..(n - 1) : y \in Nat /\ y % n = y
        BY <3>1, Wraps
      <3> QED
        BY <3>1, <3>2
    <2>5. ASSUME NEW i \in 1..n
          PROVE  waited'[companions[i]] * Cap + Distance(cursor', n, i) < n
      <3> DEFINE s == companions[i]
                 e == Distance(cursor', n, i)
                 f == Distance(start, n, i)
      <3>1. s \in Sessions /\ e \in 0..(n - 1)
        BY <1>1, <2>3
      <3>2. CASE \E j \in 1..Len(batch') : batch'[j] = s
        <4>1. s \in Rot!ToSet(batch')
          BY <2>3, <3>2 DEF Rot!ToSet
        <4>2. waited'[s] = 0
          BY <1>2, <3>1, <4>1
        <4> HIDE DEF s, e
        <4>3. 0 * Cap + e < n
          BY <1>1, <3>1
        <4> QED
          BY <4>2, <4>3 DEF s, e
      <3>3. CASE e + Cap = f
        <4> DEFINE w == waited[s]
                   x == waited'[s]
        <4>1. x \in Nat /\ w \in Nat /\ x <= w + 1
          <5>1. x = 0 \/ x = Rot!Capped(w + 1)
            BY <1>2, <3>1
          <5>2. Rot!Capped(w + 1) \in Nat /\ Rot!Capped(w + 1) <= w + 1 /\ w \in Nat
            BY <1>1, <1>3, <3>1
          <5> QED
            BY <5>1, <5>2
        <4>2. w * Cap + f < n
          <5>1. \A k \in 1..Bound : waited[companions[k]] * Cap + Distance(cursor % Bound, Bound, k) < Bound
            BY <1>5 DEF RoundsInv
          <5> QED
            BY <5>1 DEF Bound, start
        <4> HIDE DEF w, x, e, f, s
        <4>3. x * Cap <= (w + 1) * Cap
          BY <1>1, <4>1
        <4>4. (w + 1) * Cap = w * Cap + Cap /\ x * Cap \in Nat /\ w * Cap \in Nat
          BY <1>1, <4>1
        <4>5. x * Cap + e < n
          BY <1>1, <3>1, <3>3, <4>2, <4>3, <4>4
        <4> QED
          BY <4>5 DEF x, e, s
      <3> QED
        BY <2>3, <3>2, <3>3
    <2>6. \A i \in 1..n : waited'[companions[i]] * Cap + Distance(cursor' % n, n, i) < n
      BY <2>4, <2>5
    <2> QED
      BY <1>1, <1>2, <1>3, <2>3, <2>4, <2>6 DEF RoundsInv, Bound
  <1> QED
    BY <1>1, <1>4, <1>5

LEMMA VisitKeeps ==
  ASSUME RoundsInv, Rot!Visit
  PROVE  RoundsInv'
  <1>1. /\ batch # <<>> /\ visiting' = Head(batch) /\ batch' = Tail(batch)
        /\ UNCHANGED <<companions, cursor, waited, churn>>
    BY DEF Rot!Visit
  <1>2. batch \in Seq(Sessions) /\ Distinct(batch)
    BY DEF RoundsInv
  <1>3. /\ batch' \in Seq(Sessions) /\ visiting' \in Sessions
        /\ Len(batch') = Len(batch) - 1 /\ \A i \in 1..Len(batch') : batch'[i] = batch[i + 1]
    BY <1>1, <1>2
  <1>4. Distinct(batch')
    <2> SUFFICES ASSUME NEW i \in 1..Len(batch'), NEW j \in 1..Len(batch'), batch'[i] = batch'[j]
                 PROVE  i = j
      BY DEF Distinct
    <2>1. i + 1 \in 1..Len(batch) /\ j + 1 \in 1..Len(batch) /\ batch[i + 1] = batch[j + 1]
      BY <1>2, <1>3
    <2>2. i + 1 = j + 1
      BY <1>2, <2>1 DEF Distinct
    <2> QED
      BY <2>2
  <1> QED
    BY <1>1, <1>3, <1>4 DEF RoundsInv, Bound

LEMMA BindKeeps ==
  ASSUME RoundsInv, NEW s \in Sessions, Rot!Bind(s)
  PROVE  RoundsInv'
  <1>1. /\ churn < MaxChurn /\ churn' = churn + 1 /\ companions' = Append(companions, s)
        /\ waited' = [t \in Sessions |-> 0] /\ UNCHANGED <<cursor, batch, visiting>>
        /\ \A i \in 1..Len(companions) : companions[i] # s
    BY DEF Rot!Bind, Rot!ToSet, RoundsInv
  <1>2. companions \in Seq(Sessions) /\ Distinct(companions) /\ cursor \in Nat
    BY DEF RoundsInv
  <1>3. /\ companions' \in Seq(Sessions) /\ Len(companions') = Len(companions) + 1
        /\ \A i \in 1..Len(companions') :
             companions'[i] = IF i = Len(companions) + 1 THEN s ELSE companions[i]
    BY <1>1, <1>2
  <1>4. Distinct(companions')
    <2> SUFFICES ASSUME NEW i \in 1..Len(companions'), NEW j \in 1..Len(companions'),
                        companions'[i] = companions'[j]
                 PROVE  i = j
      BY DEF Distinct
    <2> QED
      BY <1>1, <1>2, <1>3 DEF Distinct
  <1>5. waited' \in [Sessions -> Nat] /\ \A t \in Sessions : waited'[t] = 0
    BY <1>1
  <1>6. Cap \in Nat /\ churn' \in 0..MaxChurn
    BY <1>1, RoundsParameters DEF RoundsInv
  <1>7. \A i \in 1..Len(companions') :
          waited'[companions'[i]] * Cap + Distance(cursor % Len(companions'), Len(companions'), i)
            < Len(companions')
    BY <1>2, <1>3, <1>5, <1>6, NobodyWaits
  <1> QED
    BY <1>1, <1>3, <1>4, <1>5, <1>6, <1>7 DEF RoundsInv, Bound

LEMMA UnbindKeeps ==
  ASSUME RoundsInv, NEW s \in Sessions, Rot!Unbind(s)
  PROVE  RoundsInv'
  <1>1. PICK k \in 1..Len(companions) : companions' = Rot!RemoveAt(companions, k)
    BY DEF Rot!Unbind, Rot!N
  <1>2. /\ churn < MaxChurn /\ churn' = churn + 1
        /\ waited' = [t \in Sessions |-> 0] /\ UNCHANGED <<cursor, batch, visiting>>
    BY DEF Rot!Unbind
  <1>3. companions \in Seq(Sessions) /\ Distinct(companions) /\ cursor \in Nat
    BY DEF RoundsInv
  <1> DEFINE a == SubSeq(companions, 1, k - 1)
             z == SubSeq(companions, k + 1, Len(companions))
  <1>4. /\ a \in Seq(Sessions) /\ Len(a) = k - 1
        /\ \A i \in 1..(k - 1) : a[i] = companions[i]
    BY <1>3
  <1>5. /\ z \in Seq(Sessions) /\ Len(z) = Len(companions) - k
        /\ \A i \in 1..(Len(companions) - k) : z[i] = companions[k + i]
    <2> DEFINE f == k + 1
               l == Len(companions)
    <2>1. f \in Nat /\ l \in Nat /\ f >= 1 /\ f <= l + 1 /\ k \in Nat
      BY <1>3
    <2>2. z = SubSeq(companions, f, l)
      OBVIOUS
    <2> HIDE DEF f, l, z
    <2>3. z \in Seq(Sessions) /\ Len(z) = l - f + 1 /\ \A i \in 1..(l - f + 1) : z[i] = companions[f + i - 1]
      <3>1. CASE f <= l
        BY <1>3, <2>1, <2>2, <3>1 DEF l
      <3>2. CASE f = l + 1
        BY <1>3, <2>1, <2>2, <3>2 DEF l
      <3> QED
        BY <2>1, <3>1, <3>2
    <2>4. l - f + 1 = Len(companions) - k /\ \A i \in Nat : f + i - 1 = k + i
      BY <1>3 DEF f, l
    <2> QED
      BY <2>3, <2>4
  <1>6. companions' = a \o z
    BY <1>1 DEF Rot!RemoveAt
  <1> HIDE DEF a, z
  <1>7. /\ companions' \in Seq(Sessions) /\ Len(companions') = Len(companions) - 1
        /\ \A i \in 1..Len(companions') :
             companions'[i] = IF i < k THEN companions[i] ELSE companions[i + 1]
    <2>b. Len(a) \in Nat /\ Len(z) \in Nat
      BY <1>4, <1>5
    <2>a. /\ a \o z \in Seq(Sessions) /\ Len(a \o z) = Len(a) + Len(z)
          /\ \A i \in 1..(Len(a) + Len(z)) :
               (a \o z)[i] = IF i <= Len(a) THEN a[i] ELSE z[i - Len(a)]
      <3>1. a \in Seq(Sessions) /\ z \in Seq(Sessions)
        BY <1>4, <1>5
      <3> QED
        BY <3>1, <2>b
    <2>1. /\ companions' \in Seq(Sessions) /\ Len(companions') = (k - 1) + (Len(companions) - k)
          /\ \A i \in 1..Len(companions') :
               companions'[i] = IF i <= k - 1 THEN a[i] ELSE z[i - (k - 1)]
      BY <1>4, <1>5, <1>6, <2>a
    <2>2. Len(companions') = Len(companions) - 1
      BY <1>3, <2>1
    <2>3. ASSUME NEW i \in 1..Len(companions'), i < k
          PROVE  companions'[i] = companions[i]
      BY <1>4, <2>1, <2>3
    <2>4. ASSUME NEW i \in 1..Len(companions'), ~(i < k)
          PROVE  companions'[i] = companions[i + 1]
      <3>1. i - (k - 1) \in 1..(Len(companions) - k) /\ k + (i - (k - 1)) = i + 1
        BY <1>3, <2>2, <2>4
      <3>2. companions'[i] = z[i - (k - 1)]
        BY <2>1, <2>4
      <3> QED
        BY <1>5, <3>1, <3>2
    <2> QED
      BY <2>1, <2>2, <2>3, <2>4
  <1>8. Distinct(companions')
    <2> SUFFICES ASSUME NEW i \in 1..Len(companions'), NEW j \in 1..Len(companions'),
                        companions'[i] = companions'[j]
                 PROVE  i = j
      BY DEF Distinct
    <2> DEFINE u == IF i < k THEN i ELSE i + 1
               v == IF j < k THEN j ELSE j + 1
    <2>1. u \in 1..Len(companions) /\ v \in 1..Len(companions) /\ companions[u] = companions[v]
      BY <1>3, <1>7
    <2>2. u = v
      BY <1>3, <2>1 DEF Distinct
    <2> QED
      BY <2>2
  <1>9. waited' \in [Sessions -> Nat] /\ \A t \in Sessions : waited'[t] = 0
    BY <1>2
  <1>10. Cap \in Nat /\ churn' \in 0..MaxChurn
    BY <1>2, RoundsParameters DEF RoundsInv
  <1>11. \A i \in 1..Len(companions') :
          waited'[companions'[i]] * Cap + Distance(cursor % Len(companions'), Len(companions'), i)
            < Len(companions')
    BY <1>3, <1>7, <1>9, <1>10, NobodyWaits
  <1> QED
    BY <1>2, <1>3, <1>7, <1>8, <1>9, <1>10, <1>11 DEF RoundsInv, Bound

LEMMA RoundsStep ==
  ASSUME RoundsInv, [Rot!Next]_rotationVars
  PROVE  RoundsInv'
  <1>1. CASE UNCHANGED rotationVars
    BY <1>1 DEF rotationVars, RoundsInv, Bound
  <1>2. CASE Rot!Leave
    BY <1>2 DEF Rot!Leave, RoundsInv, Bound
  <1>3. ASSUME NEW s \in Sessions, Rot!Bind(s) \/ Rot!Unbind(s)
        PROVE  RoundsInv'
    BY <1>3, BindKeeps, UnbindKeeps
  <1> QED
    BY <1>1, <1>2, <1>3, WakeKeeps, VisitKeeps DEF Rot!Next

LEMMA RoundsAreFair ==
  ASSUME RoundsInv
  PROVE  Rot!TypeOK /\ Rot!WaitBounded
  <1>1. Rot!TypeOK
    <2>1. ASSUME NEW q \in Seq(Sessions), Distinct(q)
          PROVE  Rot!IsInjective(q) /\ Rot!ToSet(q) \subseteq Sessions
      BY <2>1 DEF Distinct, Rot!IsInjective, Rot!ToSet
    <2> QED
      BY <2>1 DEF RoundsInv, Rot!TypeOK
  <1>2. ASSUME Cap > 0, NEW s \in Rot!ToSet(companions)
        PROVE  waited[s] * Cap < Len(companions)
    <2>1. companions \in Seq(Sessions) /\ cursor \in Nat /\ waited \in [Sessions -> Nat] /\ Cap \in Nat
      BY RoundsParameters DEF RoundsInv
    <2>2. PICK i \in 1..Len(companions) : companions[i] = s
      BY <1>2, <2>1 DEF Rot!ToSet
    <2>3. waited[s] * Cap + Distance(cursor % Len(companions), Len(companions), i) < Len(companions)
      BY <1>2, <2>2 DEF RoundsInv, Bound
    <2> DEFINE e == Distance(cursor % Len(companions), Len(companions), i)
    <2>4. Len(companions) \in Nat /\ Len(companions) > 0 /\ s \in Sessions
      BY <2>1, <2>2
    <2>5. e \in 0..(Len(companions) - 1)
      BY <2>1, <2>4, DistanceBound
    <2>6. waited[s] \in Nat
      BY <2>1, <2>4
    <2> DEFINE x == waited[s] * Cap
    <2>7. x \in Nat
      BY <2>1, <2>6
    <2> HIDE DEF e, x
    <2>8. x < Len(companions)
      <3>1. x + e < Len(companions)
        BY <2>3 DEF x, e
      <3> QED
        BY <2>4, <2>5, <2>7, <3>1
    <2> QED
      BY <2>8 DEF x
  <1> QED
    BY <1>1, <1>2 DEF Rot!WaitBounded, Rot!N

(* The two loops of the process: the lock's invariant and the rounds',       *)
(* whatever the cap, however the companions come and go; nobody is left out  *)
(* of N/Cap rounds in a row (_heartbeat_batch).                              *)
THEOREM LoopsAreOrderly == LoopsSpec => []Orderly
  <1> DEFINE Both == LockInv /\ RoundsInv
  <1>1. LoopsInit => Both
    BY InitLockInv, InitRounds DEF LoopsInit
  <1>2. Both /\ [LoopsNext]_<<loop, vars, rotationVars>> => Both'
    <2> SUFFICES ASSUME LockInv, RoundsInv, [LoopsNext]_<<loop, vars, rotationVars>>
                 PROVE  LockInv' /\ RoundsInv'
      OBVIOUS
    <2>1. [Next]_vars /\ [Rot!Next]_rotationVars
      BY DEF LoopsNext
    <2> QED
      BY <2>1, NextLockInv, RoundsStep
  <1>3. Both => Orderly
    BY RoundsAreFair DEF LockInv, Orderly
  <1> QED
    BY <1>1, <1>2, <1>3, PTL DEF LoopsSpec
==============================================================================
