--------------------------------- MODULE Topics ---------------------------------
(***************************************************************************)
(* The life of the topics of L3: at night the entries of L2 that belong to *)
(* none are assigned to one or found new ones, topics alike for some       *)
(* nights are merged, one that has come apart is split, and those nothing  *)
(* grows in fall dormant and die.                                          *)
(*                                                                         *)
(* What vectors and keywords decide is a choice here.  The step works on   *)
(* its own copies, writes the topics, then the entries, then the journal;  *)
(* the process may be killed before each.                                  *)
(***************************************************************************)
EXTENDS Integers, Sequences, FiniteSets, FiniteSetsExt

CONSTANTS MinGroup, SplitMin, BlockMin,   \* entries of a new topic, of one to split, of a block
          MinMembers, MinDays,            \* of an active topic
          DormantDays, DeadDays, RequiredNights,
          MaxEntries, MaxTopics, LastDusk  \* bounds: entries and deaths together, ...

TopicsAssumption ==
  /\ {MinGroup, BlockMin, RequiredNights} \subseteq Nat \ {0}
  /\ {SplitMin, MinMembers, MinDays, DormantDays, DeadDays, MaxEntries, MaxTopics, LastDusk} \subseteq Nat
  /\ DormantDays <= DeadDays

VARIABLES topics,   \* topics.json: the nodes in order, and the streaks of alike pairs
          filed,    \* l2.json: the topic of each entry there is, 0 for none
          sheet,    \* the step that runs: its stage and its copies
          eve,      \* the night
          annals    \* history: nights on which a pair was alike, deaths of the process, topics that
                    \* were dead when a merge made them the elder, entries a merge took from the
                    \* dead, ...

tvars == <<topics, filed, sheet, eve, annals>>

Dead == "dead"
NoSheet == [stage |-> "none"]

Nodes == sheet.nodes
Living(nodes) == {t \in DOMAIN nodes : nodes[t].state \in {"nascent", "active"}}
Pairs == {p \in (1..MaxTopics) \X (1..MaxTopics) : p[1] < p[2]}

------------------------------------------------------------------------------
(* born_topic, also for the child of a split *)
BornTopic(members) ==
  [state |-> "nascent", members |-> members, replay |-> members, born |-> eve, last |-> eve,
   days |-> {eve}, end |-> "none"]

(* grow *)
Grow(t, e) ==
  LET g == [t EXCEPT !.members = @ \cup {e}, !.replay = @ \cup {e}, !.last = eve,
                     !.days = @ \cup {eve}]
  IN CASE t.state = "dormant" -> [g EXCEPT !.state = "active"]
       [] t.state = "nascent" /\ Cardinality(g.members) >= MinMembers
          /\ Cardinality(g.days) >= MinDays -> [g EXCEPT !.state = "active"]
       [] OTHER -> g

(* apply_dormancy and apply_death, one after the other *)
Aged(t, weak) ==
  LET idle  == eve - t.last
      slept == IF t.state = "active" /\ idle >= DormantDays THEN [t EXCEPT !.state = "dormant"] ELSE t
  IN IF slept.state = "dormant" /\ idle >= DeadDays /\ weak
     THEN [slept EXCEPT !.state = Dead, !.end = "age"] ELSE slept

(* merge *)
Merge(nodes, elder, younger) ==
  [nodes EXCEPT ![elder].members = @ \cup nodes[younger].members,
                ![elder].replay = @ \cup nodes[younger].members,
                ![younger].state = Dead, ![younger].end = "merge"]

(* merge_candidates: nights a pair was alike without a break. *)
Streak(alike) ==
  [p \in Pairs |-> IF p \in alike THEN sheet.streak[p] + 1 ELSE 0]

(* _elder_younger: by the day, then by the id, a hash. *)
Elder(nodes, p, flip) ==
  LET a == nodes[p[1]] b == nodes[p[2]]
  IN IF a.born < b.born \/ (a.born = b.born /\ ~flip) THEN <<p[1], p[2]>> ELSE <<p[2], p[1]>>

Before(p, q) == p[1] < q[1] \/ (p[1] = q[1] /\ p[2] < q[2])

------------------------------------------------------------------------------
Idle == sheet.stage = "none"

(* New entries, with a vector, are in L2 before the step. *)
Arrive ==
  /\ Idle
  /\ annals.came + annals.deaths < MaxEntries
  /\ annals' = [annals EXCEPT !.came = @ + 1]
  /\ filed' = [d \in DOMAIN filed \cup {annals'.came} |-> IF d = annals'.came THEN 0 ELSE filed[d]]
  /\ UNCHANGED <<topics, sheet, eve>>

Begin ==
  /\ Idle /\ annals.night < eve
  /\ sheet' = [stage |-> "assign", nodes |-> topics.nodes, streak |-> topics.streak,
               filed |-> filed, todo |-> {e \in DOMAIN filed : filed[e] = 0}, wait |-> {}]
  /\ UNCHANGED <<topics, filed, eve, annals>>

(* Bug: a topic that is dead takes an entry. *)
Assign_Dead ==
  /\ sheet.stage = "assign" /\ sheet.todo # {}
  /\ LET e == Min(sheet.todo)
     IN sheet' \in
          {[sheet EXCEPT !.nodes[t] = Grow(@, e), !.filed[e] = t, !.todo = @ \ {e}] : t \in DOMAIN Nodes}
          \cup {[sheet EXCEPT !.todo = @ \ {e}, !.wait = @ \cup {e}]}
  /\ UNCHANGED <<topics, filed, eve, annals>>

(* assign_topic: the nearest topic that is not dead, if it is near enough. *)
Assign ==
  /\ sheet.stage = "assign" /\ sheet.todo # {}
  /\ LET e == Min(sheet.todo)
     IN sheet' \in
          {[sheet EXCEPT !.nodes[t] = Grow(@, e), !.filed[e] = t, !.todo = @ \ {e}] :
             t \in {t \in DOMAIN Nodes : Nodes[t].state # Dead}}
          \cup {[sheet EXCEPT !.todo = @ \ {e}, !.wait = @ \cup {e}]}
  /\ UNCHANGED <<topics, filed, eve, annals>>

(* connected_components of those left: each group founds a topic. *)
Found ==
  /\ sheet.stage = "assign" /\ sheet.todo = {} /\ Len(Nodes) < MaxTopics
  /\ \E group \in SUBSET sheet.wait :
       /\ Cardinality(group) >= MinGroup
       /\ sheet' = [sheet EXCEPT !.nodes = Append(@, BornTopic(group)),
                                 !.filed = [e \in DOMAIN @ |-> IF e \in group THEN Len(Nodes) + 1 ELSE @[e]],
                                 !.wait = @ \ group]
  /\ UNCHANGED <<topics, filed, eve, annals>>

(* merge_candidates: which pairs are alike tonight, and which have been    *)
(* often enough in a row.                                                  *)
Compare ==
  /\ sheet.stage = "assign" /\ sheet.todo = {}
  /\ \E alike \in SUBSET {p \in Pairs : {p[1], p[2]} \subseteq Living(Nodes)} :
       LET fires  == {p \in alike : Streak(alike)[p] >= RequiredNights}
           nights == [p \in Pairs |-> IF p \in alike THEN annals.alike[p] \cup {eve} ELSE {}]
       IN /\ sheet' = [sheet EXCEPT !.stage = "merge", !.streak = Streak(alike), !.todo = fires]
          /\ annals' = [annals EXCEPT !.alike = nights,
                                      !.early = @ \/ \E p \in fires :
                                                       Cardinality(nights[p]) + annals.deaths < RequiredNights]
  /\ UNCHANGED <<topics, filed, eve>>

(* The pairs that fire are merged in turn, even when an earlier merge of   *)
(* this night has ended one of the two.                                    *)
MergeOne ==
  /\ sheet.stage = "merge"
  /\ \E p \in sheet.todo, flip \in BOOLEAN :
       LET ey == Elder(Nodes, p, flip)
       IN /\ \A q \in sheet.todo \ {p} : Before(p, q)
          /\ sheet' = [sheet EXCEPT
               !.nodes = Merge(@, ey[1], ey[2]),
               !.filed = [e \in DOMAIN @ |-> IF @[e] = ey[2] THEN ey[1] ELSE @[e]],
               !.todo = @ \ {p}]
          /\ annals' = [annals EXCEPT
               !.buried = IF Nodes[ey[1]].state = Dead THEN @ \cup {ey[1]} ELSE @,
               !.twice = IF Nodes[ey[2]].state = Dead THEN @ \cup Nodes[ey[2]].members ELSE @]
  /\ UNCHANGED <<topics, filed, eve>>

Merged == sheet.stage = "merge" /\ sheet.todo = {}

(* split_candidates and split: a block leaves and is a topic of its own. *)
Split ==
  /\ Merged /\ Len(Nodes) < MaxTopics
  /\ \E t \in DOMAIN Nodes :
       LET usable == Nodes[t].members \cap DOMAIN sheet.filed
       IN /\ Nodes[t].state = "active" /\ Cardinality(usable) >= SplitMin
          /\ \E block \in SUBSET usable :
               /\ Cardinality(block) >= BlockMin /\ Cardinality(usable \ block) >= BlockMin
               /\ sheet' = [sheet EXCEPT
                    !.nodes = Append([@ EXCEPT ![t].members = @ \ block, ![t].replay = @ \ block],
                                     BornTopic(block)),
                    !.filed = [e \in DOMAIN @ |-> IF e \in block THEN Len(Nodes) + 1 ELSE @[e]]]
  /\ UNCHANGED <<topics, filed, eve, annals>>

(* Dormancy and death, and the first write. *)
WriteTopics ==
  /\ Merged
  /\ \E weak \in SUBSET DOMAIN Nodes :
       LET nodes == [t \in DOMAIN Nodes |-> Aged(Nodes[t], t \in weak)]
       IN /\ topics' = [nodes |-> nodes, streak |-> sheet.streak]
          /\ sheet' = [sheet EXCEPT !.stage = "entries", !.nodes = nodes]
  /\ UNCHANGED <<filed, eve, annals>>

WriteEntries ==
  /\ sheet.stage = "entries"
  /\ filed' = sheet.filed /\ sheet' = [sheet EXCEPT !.stage = "mark"]
  /\ UNCHANGED <<topics, eve, annals>>

(* mark_done, and the capacity step: an entry may leave L2 and its topic. *)
MarkDone ==
  /\ sheet.stage = "mark"
  /\ \/ annals' = [annals EXCEPT !.night = eve] /\ UNCHANGED <<topics, filed>>
     \/ \E e \in DOMAIN filed :
          /\ filed' = [d \in DOMAIN filed \ {e} |-> filed[d]]
          /\ topics' = IF filed[e] = 0 THEN topics ELSE [topics EXCEPT !.nodes[filed[e]].members = @ \ {e}]
          /\ annals' = [annals EXCEPT !.night = eve, !.evicted = TRUE]
  /\ sheet' = NoSheet
  /\ UNCHANGED eve

(* Before its first write a death only has the step begin again. *)
Die ==
  /\ sheet.stage \in {"entries", "mark"} /\ annals.came + annals.deaths < MaxEntries
  /\ sheet' = NoSheet
  /\ annals' = [annals EXCEPT !.deaths = @ + 1]
  /\ UNCHANGED <<topics, filed, eve>>

Dusk ==
  /\ Idle /\ eve < LastDusk /\ eve' = eve + 1
  /\ UNCHANGED <<topics, filed, sheet, annals>>

Init ==
  /\ topics = [nodes |-> <<>>, streak |-> [p \in Pairs |-> 0]] /\ filed = <<>>
  /\ sheet = NoSheet /\ eve = 1
  /\ annals = [alike |-> [p \in Pairs |-> {}], night |-> 0, came |-> 0, deaths |-> 0, buried |-> {},
               twice |-> {}, evicted |-> FALSE, early |-> FALSE]

Next ==
  \/ Arrive \/ Begin \/ Assign \/ Found \/ Compare \/ MergeOne \/ Split \/ WriteTopics \/ WriteEntries
  \/ MarkDone \/ Die \/ Dusk

Spec == Init /\ [][Next]_tvars

------------------------------------------------------------------------------
TypeOK ==
  /\ DOMAIN filed \subseteq 1..annals.came /\ \A e \in DOMAIN filed : filed[e] \in 0..Len(topics.nodes)
  /\ \A t \in DOMAIN topics.nodes :
       topics.nodes[t].state \in {"nascent", "active", "dormant", Dead}
  /\ eve \in 1..LastDusk

Written == Idle

(* Between nights an entry is a member of the topic it is filed under, and *)
(* of one living topic at most, unless the process died between the two    *)
(* files.  Of two merges of one night that share a topic the second may    *)
(* find its younger dead: only what it then takes once more is in both     *)
(* elders.                                                                 *)
FiledOnce ==
  Written /\ annals.deaths = 0 =>
    \A e \in DOMAIN filed :
      /\ filed[e] # 0 => e \in topics.nodes[filed[e]].members
      /\ e \notin annals.twice =>
           Cardinality({t \in DOMAIN topics.nodes :
                          topics.nodes[t].state # Dead /\ e \in topics.nodes[t].members}) <= 1

(* The topic of an entry is dead only of age, never of a merge; but where  *)
(* the second of two merges found its elder dead, which then took what is  *)
(* buried with it.                                                         *)
NotBuried ==
  Written /\ annals.deaths = 0 =>
    \A e \in DOMAIN filed :
      filed[e] # 0 /\ topics.nodes[filed[e]].end = "merge" => filed[e] \in annals.buried

(* The members of a topic are what its events replay, but for those the    *)
(* capacity step took, of which no event tells.                            *)
ReplayAgrees ==
  \A t \in DOMAIN topics.nodes :
    /\ topics.nodes[t].members \subseteq topics.nodes[t].replay
    /\ ~annals.evicted => topics.nodes[t].members = topics.nodes[t].replay

(* Two topics are merged when they were alike on that many nights in a     *)
(* row; each death of the process may count one night twice.               *)
MergedInTime == ~annals.early

(* A dead topic stays dead and takes nothing, but for such an elder. *)
DeadStaysDead ==
  [][\A t \in DOMAIN topics.nodes :
       topics.nodes[t].state = Dead =>
         /\ t \in DOMAIN topics'.nodes /\ topics'.nodes[t].state = Dead
         /\ t \notin annals'.buried => topics'.nodes[t].members \subseteq topics.nodes[t].members]_tvars
=================================================================================
