----------------------------- MODULE ProcessLock -----------------------------
(***************************************************************************)
(* The processes that want one Yelos data directory: yelos.lock, an OS     *)
(* lock on the open file (flock; the kernel drops it when its descriptor   *)
(* is closed or its process dies), and the table every process loads once  *)
(* and then saves whole.  main acquires the lock, builds the manager,      *)
(* serves, closes (a last save) and releases.  The lock file stays: the    *)
(* lock is on an inode, and a path that is unlinked and created again      *)
(* names another one.                                                      *)
(***************************************************************************)
EXTENDS Integers

CONSTANTS Procs,      \* process slots; a slot is used again after its process ended
          Nobody,     \* not a process
          MaxInodes,  \* bound: the inodes yelos.lock may get
          MaxSaves    \* bound: how often bindings.json is saved

ASSUME NobodyAssumption == Nobody \notin Procs
ASSUME BoundsAssumption == MaxInodes \in Nat \ {0} /\ MaxSaves \in Nat

VARIABLES path,    \* the inode yelos.lock names, 0: there is no such file
          inodes,  \* how many inodes were created for it
          holder,  \* whose open file holds the lock of each inode
          fd,      \* the inode each process has open, 0: none
          pid,     \* the process the diagnostic text of each inode names
          pc,      \* where each process is
          disk,    \* the version of bindings.json
          copy     \* the version a process holds in memory

vars == <<path, inodes, holder, fd, pid, pc, disk, copy>>

Inodes == 1..MaxInodes

Places == {"start", "opened", "locked", "held", "serving", "closed", "unlocked",
           "refused", "failed", "ended"}

(* Between the flock and the unlock. *)
Holding == {"locked", "held", "serving", "closed"}

(* The lock file is open. *)
HasFile == Holding \cup {"opened", "unlocked"}

TypeOK ==
  /\ path \in 0..MaxInodes /\ inodes \in 0..MaxInodes /\ path <= inodes
  /\ holder \in [Inodes -> Procs \cup {Nobody}]
  /\ fd \in [Procs -> 0..MaxInodes]
  /\ pid \in [Inodes -> Procs \cup {Nobody}]
  /\ pc \in [Procs -> Places]
  /\ \A p \in Procs : pc[p] \in HasFile <=> fd[p] # 0
  /\ disk \in 0..MaxSaves
  /\ copy \in [Procs -> 0..MaxSaves]

Init ==
  /\ path = 0 /\ inodes = 0
  /\ holder = [i \in Inodes |-> Nobody]
  /\ fd = [p \in Procs |-> 0]
  /\ pid = [i \in Inodes |-> Nobody]
  /\ pc = [p \in Procs |-> "start"]
  /\ disk = 0
  /\ copy = [p \in Procs |-> 0]

Goto(p, place) == pc' = [pc EXCEPT ![p] = place]

(* acquire: open(O_CREAT) ... *)
Open(p) ==
  /\ pc[p] = "start"
  /\ \/ path # 0 /\ UNCHANGED <<path, inodes>>
     \/ path = 0 /\ inodes < MaxInodes /\ inodes' = inodes + 1 /\ path' = inodes + 1
  /\ fd' = [fd EXCEPT ![p] = path']
  /\ Goto(p, "opened")
  /\ UNCHANGED <<holder, pid, disk, copy>>

(* Bug: the lock is taken on trust when the text in the file names nobody. *)
Lock_ByText(p) ==
  /\ pc[p] = "opened"
  /\ pid[fd[p]] = Nobody
  /\ holder' = [holder EXCEPT ![fd[p]] = p]
  /\ Goto(p, "locked")
  /\ UNCHANGED <<path, inodes, fd, pid, disk, copy>>

(* ... a lock attempt that does not block ... *)
Lock(p) ==
  /\ pc[p] = "opened"
  /\ holder[fd[p]] = Nobody
  /\ holder' = [holder EXCEPT ![fd[p]] = p]
  /\ Goto(p, "locked")
  /\ UNCHANGED <<path, inodes, fd, pid, disk, copy>>

(* Bug: a lock file that names a process refuses, whether it lives or not. *)
Refuse_ByText(p) ==
  /\ pc[p] = "opened"
  /\ pid[fd[p]] # Nobody
  /\ fd' = [fd EXCEPT ![p] = 0]
  /\ Goto(p, "refused")
  /\ UNCHANGED <<path, inodes, holder, pid, disk, copy>>

(* ... which refuses the process while another one holds the lock ... *)
Refuse(p) ==
  /\ pc[p] = "opened"
  /\ holder[fd[p]] # Nobody
  /\ fd' = [fd EXCEPT ![p] = 0]
  /\ Goto(p, "refused")
  /\ UNCHANGED <<path, inodes, holder, pid, disk, copy>>

(* ... and on any other error of the lock call, which acquire takes for the *)
(* same: "failed" is told apart here, in the code it is not ...             *)
Fail(p) ==
  /\ pc[p] = "opened"
  /\ fd' = [fd EXCEPT ![p] = 0]
  /\ Goto(p, "failed")
  /\ UNCHANGED <<path, inodes, holder, pid, disk, copy>>

(* ... and the diagnostic text, written under the lock. *)
WriteHolder(p) ==
  /\ pc[p] = "locked"
  /\ pid' = [pid EXCEPT ![fd[p]] = p]
  /\ Goto(p, "held")
  /\ UNCHANGED <<path, inodes, holder, fd, disk, copy>>

(* Bug: the manager, and its table, were built before the lock was taken. *)
Build_Early(p) ==
  /\ pc[p] = "held"
  /\ Goto(p, "serving")
  /\ UNCHANGED <<path, inodes, holder, fd, pid, disk, copy>>

(* build_manager: the table is loaded, under the lock. *)
Build(p) ==
  /\ pc[p] = "held"
  /\ copy' = [copy EXCEPT ![p] = disk]
  /\ Goto(p, "serving")
  /\ UNCHANGED <<path, inodes, holder, fd, pid, disk>>

(* A save replaces the whole table with what this process has. *)
Save(p) ==
  /\ pc[p] = "serving" /\ disk < MaxSaves
  /\ disk' = disk + 1
  /\ copy' = [copy EXCEPT ![p] = disk + 1]
  /\ \/ UNCHANGED pc
     \/ Goto(p, "closed")                    \* the last one, in close
  /\ UNCHANGED <<path, inodes, holder, fd, pid>>

(* Close without a save: it failed, and the failure is only logged. *)
CloseUnsaved(p) ==
  /\ pc[p] = "serving"
  /\ Goto(p, "closed")
  /\ UNCHANGED <<path, inodes, holder, fd, pid, disk, copy>>

(* Bug: the lock file is removed with the lock. *)
Unlock_Unlinks(p) ==
  /\ pc[p] = "closed"
  /\ holder' = [holder EXCEPT ![fd[p]] = Nobody]
  /\ path' = 0
  /\ Goto(p, "unlocked")
  /\ UNCHANGED <<inodes, fd, pid, disk, copy>>

(* release: the lock, then the descriptor; the file stays. *)
Unlock(p) ==
  /\ pc[p] = "closed"
  /\ holder' = [holder EXCEPT ![fd[p]] = Nobody]
  /\ Goto(p, "unlocked")
  /\ UNCHANGED <<path, inodes, fd, pid, disk, copy>>

CloseFile(p) ==
  /\ pc[p] = "unlocked"
  /\ fd' = [fd EXCEPT ![p] = 0]
  /\ Goto(p, "ended")
  /\ UNCHANGED <<path, inodes, holder, pid, disk, copy>>

(* The process is killed, or ends on an error: the kernel closes its file. *)
Die(p) ==
  /\ pc[p] \notin {"start", "ended"}
  /\ holder' = [i \in Inodes |-> IF holder[i] = p THEN Nobody ELSE holder[i]]
  /\ fd' = [fd EXCEPT ![p] = 0]
  /\ Goto(p, "ended")
  /\ UNCHANGED <<path, inodes, pid, disk, copy>>

(* Another process starts, with the pid of one that ended. *)
Start(p) ==
  /\ pc[p] \in {"refused", "failed", "ended"}
  /\ Goto(p, "start")
  /\ UNCHANGED <<path, inodes, holder, fd, pid, disk, copy>>

Next == \E p \in Procs :
  \/ Open(p) \/ Lock(p) \/ Refuse(p) \/ Fail(p) \/ WriteHolder(p) \/ Build(p)
  \/ Save(p) \/ CloseUnsaved(p) \/ Unlock(p) \/ CloseFile(p) \/ Die(p) \/ Start(p)

Spec == Init /\ [][Next]_vars

(* Processes are started again and go on, and neither does a kill or an     *)
(* error always come just before one would get the free lock; nothing       *)
(* forces one to stop.                                                      *)
Fairness == \A p \in Procs :
  /\ WF_vars(Start(p)) /\ WF_vars(Open(p)) /\ WF_vars(CloseFile(p))
  /\ SF_vars(Lock(p))

FairSpec == Spec /\ Fairness

------------------------------------------------------------------------------
(* No two processes are between lock and unlock. *)
MutualExclusion ==
  \A p, q \in Procs : pc[p] \in Holding /\ pc[q] \in Holding => p = q

(* A process that serves has the table that is on disk: no save of another *)
(* process is overwritten by one that never saw it.                        *)
NoLostUpdate == \A p \in Procs : pc[p] = "serving" => copy[p] = disk

(* A process whose lock call worked is refused only while another one      *)
(* lives and holds the lock: what a dead process left in the directory     *)
(* never keeps anyone out.                                                 *)
RefusedByTheLiving ==
  [][\A p \in Procs : pc[p] = "opened" /\ pc'[p] = "refused"
       => \E q \in Procs \ {p} : pc[q] \in Holding]_vars

(* The directory is not orphaned: however often its owner dies, another    *)
(* process comes to own it.                                                *)
OwnedAgain == []<>(\E p \in Procs : pc[p] \in Holding)
==============================================================================
