------------------------------- MODULE Farewell --------------------------------
(***************************************************************************)
(* affect_farewell: the end of a life, in two calls.  The first call hands *)
(* out a one-time token (FarewellGate: in memory, one per session, with a  *)
(* time to live); the second, with that token, writes the anthology, seals *)
(* the record, saves the table and answers.  _commit_seal never awaits: no *)
(* other handler runs between its steps, but the process can be killed     *)
(* there, the anthology and the table can fail to be written, and the      *)
(* clock goes on.                                                          *)
(*                                                                         *)
(* A life is a pair <<session, generation>>.  The anthology of a life is   *)
(* the file <name>-<hash of the session>/her life.md, which the resource   *)
(* affect://anthology reads back by the path in the record.                *)
(***************************************************************************)
EXTENDS Integers, FiniteSets

CONSTANTS Sids,        \* the sessions
          Names,       \* the names she is given
          TTL,         \* farewell_token_ttl_seconds, at least one tick
          Faults,      \* subset of FaultKinds
          MaxGen,      \* bound: lives of a session
          MaxTokens,   \* bound: tokens handed out
          MaxTime,     \* bound: the clock
          MaxCrashes   \* bound: how often the process is killed

(* "export": the anthology cannot be written; bindings.json cannot, after a *)
(* seal ("save") or after a bind ("bind").                                  *)
FaultKinds == {"export", "save", "bind"}

ASSUME NamesAssumption  == Names # {}
ASSUME TTLAssumption    == TTL \in Nat \ {0}
ASSUME FaultsAssumption == Faults \subseteq FaultKinds
ASSUME BoundsAssumption == /\ MaxGen \in Nat \ {0} /\ MaxTokens \in Nat
                           /\ MaxTime \in Nat /\ MaxCrashes \in Nat

VARIABLES mem,      \* the record of each session in memory (gen 0: none)
          disk,     \* ... and in bindings.json
          files,    \* the text in the anthology file of a session and a name
          pending,  \* FarewellGate._pending: the token of a session, 0: none
          issued,   \* what each token handed out so far was handed out for
          commit,   \* the second call in progress
          reply,    \* the last answer of affect_farewell, per session
          told,     \* the lives whose end was confirmed to the user
          now, crashes

vars == <<mem, disk, files, pending, issued, commit, reply, told, now, crashes>>

Tokens == 1..MaxTokens
Lives  == Sids \X (1..MaxGen)
Blank  == <<>>            \* no such file
Broken == <<"broken">>    \* truncated by a failed write

Records == [gen : 0..MaxGen, status : {"bound", "sealed"}, name : Names,
            path : BOOLEAN]       \* anthology_path is set
Tickets == [sid : Sids, gen : 1..MaxGen, run : 0..MaxCrashes, expires : 0..(MaxTime + TTL)]

Ends    == [sid : Sids, gen : 1..MaxGen, export : BOOLEAN, path : BOOLEAN]

NoCommit == [at |-> "none"]
Commits  == [at : {"verified", "written", "sealed"}, sid : Sids, token : Tokens,
             export : BOOLEAN, since : 0..MaxTime]

TypeOK ==
  /\ mem \in [Sids -> Records]
  /\ disk \in [Sids -> Records]
  /\ DOMAIN files = Sids \X Names
  /\ \A f \in DOMAIN files : files[f] \in {Blank, Broken} \/ files[f] \in Lives
  /\ DOMAIN issued \subseteq Tokens
  /\ \A t \in DOMAIN issued : issued[t] \in Tickets
  /\ pending \in [Sids -> 0..MaxTokens]
  /\ \A s \in Sids : pending[s] # 0    \* a token in flight is of a life that goes on
       => /\ pending[s] \in DOMAIN issued
          /\ mem[s].status = "bound"
          /\ issued[pending[s]].sid = s
          /\ issued[pending[s]].gen = mem[s].gen
          /\ issued[pending[s]].run = crashes
  /\ commit = NoCommit \/ commit \in Commits
  /\ reply \in [Sids -> {"none", "asked", "refused", "error", "sealed"}]
  /\ told \subseteq Ends
  /\ now \in 0..MaxTime /\ crashes \in 0..MaxCrashes

------------------------------------------------------------------------------
Bound(r) == r.gen > 0 /\ r.status = "bound"     \* _is_actionable
Free     == commit = NoCommit                   \* the event loop

Save       == disk' = mem'
Update(s, r) == mem' = [mem EXCEPT ![s] = r]
Answer(s, a) == reply' = [reply EXCEPT ![s] = a]

(* Bug: the folder of an anthology is named without the session. *)
File_ByName(s, n) == <<CHOOSE x \in Sids : TRUE, n>>

(* The anthology file of session s under the name n. *)
File(s, n) == <<s, n>>

(* _new_binding, next_incarnation *)
Hatched(r, n) == [gen |-> r.gen + 1, status |-> "bound", name |-> n, path |-> FALSE]

(* affect_bind: a new life, or another name.  A failed save is an error to *)
(* the caller; the record in memory stays changed.                         *)
Bind(s, n) ==
  /\ Free
  /\ IF Bound(mem[s]) THEN Update(s, [mem[s] EXCEPT !.name = n])
     ELSE mem[s].gen < MaxGen /\ Update(s, Hatched(mem[s], n))
  /\ Save \/ ("bind" \in Faults /\ UNCHANGED disk)
  /\ UNCHANGED <<files, pending, issued, commit, reply, told, now, crashes>>

(* Any other handler of any session saves the whole table. *)
Persist ==
  /\ Free
  /\ UNCHANGED mem /\ Save
  /\ UNCHANGED <<files, pending, issued, commit, reply, told, now, crashes>>

(* The first call: FarewellGate.issue replaces the token in flight. *)
Ask(s) ==
  LET t == 1 + Cardinality(DOMAIN issued)
  IN /\ Free /\ Bound(mem[s])
     /\ t \in Tokens
     /\ issued' = [u \in DOMAIN issued \cup {t} |->
                     IF u = t THEN [sid |-> s, gen |-> mem[s].gen, run |-> crashes,
                                    expires |-> now + TTL]
                     ELSE issued[u]]
     /\ pending' = [pending EXCEPT ![s] = t]
     /\ Answer(s, "asked")
     /\ UNCHANGED <<mem, disk, files, commit, told, now, crashes>>

Expired(t) == now >= issued[t].expires

(* Bug: a token is good for any session. *)
Valid_AnySession(s, t) == t \in {pending[x] : x \in Sids} /\ ~Expired(t)

(* FarewellGate.verify *)
Valid(s, t) == t = pending[s] /\ ~Expired(t)

(* The second call with a token that is not, or no longer, good: a token   *)
(* that expired is forgotten, one that does not match changes nothing.     *)
Refuse(s, t) ==
  /\ Free /\ Bound(mem[s]) /\ ~Valid(s, t)
  /\ pending' = IF t = pending[s] THEN [pending EXCEPT ![s] = 0] ELSE pending
  /\ Answer(s, "refused")
  /\ UNCHANGED <<mem, disk, files, issued, commit, told, now, crashes>>

(* Bug: a token that was accepted stays in flight. *)
Accept_KeepsToken(s, t, export) ==
  /\ Free /\ Bound(mem[s]) /\ Valid(s, t)
  /\ commit' = [at |-> "verified", sid |-> s, token |-> t, export |-> export,
                since |-> now]
  /\ UNCHANGED <<mem, disk, files, pending, issued, reply, told, now, crashes>>

(* The second call with a good token: it is used up, whatever follows. *)
Accept(s, t, export) ==
  /\ Free /\ Bound(mem[s]) /\ Valid(s, t)
  /\ pending' = [pending EXCEPT ![s] = 0]
  /\ commit' = [at |-> "verified", sid |-> s, token |-> t, export |-> export,
                since |-> now]
  /\ UNCHANGED <<mem, disk, files, issued, reply, told, now, crashes>>

Stage(at) == commit' = [commit EXCEPT !.at = at]

(* _write_anthology: written and recorded; or an OSError, before the text  *)
(* was touched or in the middle of it, which ends in no path.              *)
Export ==
  /\ commit.at = "verified"
  /\ LET s == commit.sid
         f == File(s, mem[s].name)
     IN \/ /\ commit.export
           /\ files' = [files EXCEPT ![f] = <<s, mem[s].gen>>]
           /\ Update(s, [mem[s] EXCEPT !.path = TRUE])
        \/ /\ commit.export /\ "export" \in Faults
           /\ files' = files \/ files' = [files EXCEPT ![f] = Broken]
           /\ UNCHANGED mem
        \/ ~commit.export /\ UNCHANGED <<files, mem>>
  /\ Stage("written")
  /\ UNCHANGED <<disk, pending, issued, reply, told, now, crashes>>

(* BindingStore.seal *)
SealRecord ==
  /\ commit.at = "written"
  /\ Update(commit.sid, [mem[commit.sid] EXCEPT !.status = "sealed"])
  /\ Stage("sealed")
  /\ UNCHANGED <<disk, files, pending, issued, reply, told, now, crashes>>

(* What the answer says: her life is sealed, her anthology is at a path or not. *)
TheEnd == [sid |-> commit.sid, gen |-> mem[commit.sid].gen,
           export |-> commit.export, path |-> mem[commit.sid].path]

(* Bug: the answer leaves before the table is saved. *)
Finish_Unsaved ==
  /\ commit.at = "sealed"
  /\ UNCHANGED disk
  /\ pending' = [pending EXCEPT ![commit.sid] = 0]
  /\ Answer(commit.sid, "sealed")
  /\ told' = told \cup {TheEnd}
  /\ commit' = NoCommit
  /\ UNCHANGED <<mem, files, issued, now, crashes>>

(* The save, the discarded token and the answer. *)
Finish ==
  /\ commit.at = "sealed"
  /\ UNCHANGED mem /\ Save
  /\ pending' = [pending EXCEPT ![commit.sid] = 0]
  /\ Answer(commit.sid, "sealed")
  /\ told' = told \cup {TheEnd}
  /\ commit' = NoCommit
  /\ UNCHANGED <<files, issued, now, crashes>>

(* The save raises: the caller gets the error, the record stays sealed in  *)
(* memory and goes to disk with the next save of any session.              *)
FinishFails ==
  /\ commit.at = "sealed" /\ "save" \in Faults
  /\ Answer(commit.sid, "error")
  /\ commit' = NoCommit
  /\ UNCHANGED <<mem, disk, files, pending, issued, told, now, crashes>>

(* The process is killed and started again: the table is read back, the    *)
(* tokens are gone, and so is a second call in progress.                   *)
Crash ==
  /\ crashes < MaxCrashes
  /\ crashes' = crashes + 1
  /\ mem' = disk
  /\ pending' = [s \in Sids |-> 0]
  /\ reply' = [s \in Sids |-> "none"]
  /\ commit' = NoCommit
  /\ UNCHANGED <<disk, files, issued, told, now>>

Tick ==
  /\ now < MaxTime
  /\ now' = now + 1
  /\ UNCHANGED <<mem, disk, files, pending, issued, commit, reply, told, crashes>>

------------------------------------------------------------------------------
NoRecord == [gen |-> 0, status |-> "bound", name |-> CHOOSE n \in Names : TRUE,
             path |-> FALSE]

Init ==
  /\ mem = [s \in Sids |-> NoRecord]
  /\ disk = mem
  /\ files = [f \in Sids \X Names |-> Blank]
  /\ pending = [s \in Sids |-> 0]
  /\ issued = [t \in {} |-> 0]
  /\ told = {}
  /\ commit = NoCommit
  /\ reply = [s \in Sids |-> "none"]
  /\ now = 0 /\ crashes = 0

(* A string nobody issued. *)
Junk == MaxTokens + 1

Next ==
  \/ \E s \in Sids, n \in Names : Bind(s, n)
  \/ Persist
  \/ \E s \in Sids : Ask(s)
  \/ \E s \in Sids, t \in DOMAIN issued \cup {Junk} : Refuse(s, t)
  \/ \E s \in Sids, t \in DOMAIN issued, export \in BOOLEAN : Accept(s, t, export)
  \/ Export \/ SealRecord \/ Finish \/ FinishFails
  \/ Crash \/ Tick

Spec == Init /\ [][Next]_vars

------------------------------------------------------------------------------
(* A life ends only by the second call with the token last handed out for  *)
(* this session, in this life and this run of the process, presented       *)
(* before it expired (FarewellGate, the two steps of affect_farewell).     *)
ConsentedSeal ==
  [][\A s \in Sids :
       Bound(mem[s]) /\ ~Bound(mem'[s]) /\ mem'[s].gen = mem[s].gen
         => /\ ~Free /\ commit.sid = s
            /\ commit.since < issued[commit.token].expires
            /\ issued[commit.token].sid = s
            /\ issued[commit.token].gen = mem[s].gen
            /\ issued[commit.token].run = crashes
            /\ \A t \in DOMAIN issued : issued[t].sid = s => t <= commit.token]_vars

(* Whatever the user was told is sealed stays sealed: no crash brings back *)
(* a life whose end was confirmed (_commit_seal saves before it answers).  *)
IrreversibleOnceTold ==
  \A e \in told : \/ disk[e.sid].gen > e.gen
                  \/ disk[e.sid].gen = e.gen /\ disk[e.sid].status = "sealed"

(* The anthology resource of a sealed session reads the text of the life   *)
(* that was sealed, never another one's (_write_anthology names the folder *)
(* by name and session, _new_binding starts without a path).               *)
ResourceIsHers ==
  \A s \in Sids : mem[s].status = "sealed" /\ mem[s].path
                    => files[File(s, mem[s].name)] = <<s, mem[s].gen>>
==============================================================================
