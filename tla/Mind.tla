---------------------------------- MODULE Mind ----------------------------------
(* What goes on beside the sessions' own records: the deep modules she      *)
(* wishes, ages and remembers with, and the tools that configure, replay    *)
(* and evolve her.  They share no state: each behaviour follows one of      *)
(* them, the others stand still.                                            *)
EXTENDS Grown

CONSTANTS
  Parts,         \* what a behaviour may follow, here or in a module beside this one
  Buckets, WindowMax, SegmentMax, L2Cap, MinForVectors, LastNight, MaxEvents, MaxFaults,
  MinGroup, SplitMin, BlockMin, MinMembers, MinDays, DormantDays, DeadDays, RequiredNights,
  MaxEntries, MaxTopics, LastDusk,
  Keywords, Learned, Queries, Retention(_, _), MinHistory, ReunionDays, Skews,
  MaxPool, LastAsked, MaxAsked,
  Runs, MaxLines, MaxBreaks,
  Beat, DayLength, Tiers, LastIndex, MaxRecords,
  Hours, MaxEdits

VARIABLE part
VARIABLES flow, counted, semantic, cached, cursor, journal, job, dusk, memo
VARIABLES topics, filed, sheet, eve, annals
VARIABLES pool, spoken, daybook, view
VARIABLES lineage, cutOff, overlay, evolving, known
VARIABLES time, fake, proxy, begun, slot, trace, events
VARIABLES file, older, env, evolved, config, hours, edits

nvars == <<flow, counted, semantic, cached, cursor, journal, job, dusk, memo>>
tvars == <<topics, filed, sheet, eve, annals>>
rvars == <<pool, spoken, daybook, view>>
evars == <<lineage, cutOff, overlay, evolving, known>>
xvars == <<time, fake, proxy, begun, slot, trace, events>>
svars == <<file, older, env, evolved, config, hours, edits>>

Night   == INSTANCE NightJob WITH EventKinds <- Buckets
Grouped == INSTANCE Topics
Again   == INSTANCE Recall WITH Words <- Keywords, LastDay <- LastAsked
Evolved == INSTANCE Lineage
Replay  == INSTANCE Bench WITH cursor <- time
Set     == INSTANCE Settings

ASSUME Constants ==
  /\ Night!NightJobAssumption /\ Grouped!TopicsAssumption /\ Again!RecallAssumption
  /\ Evolved!LineageAssumption /\ Replay!BenchAssumption /\ Set!SettingsAssumption

------------------------------------------------------------------------------
vars == <<part, fvars, mvars, avars, bvars, nvars, tvars, rvars, evars, xvars, svars>>

Init ==
  /\ part \in Parts
  /\ Field!Init /\ Wants!Init /\ Age!Init /\ Printed!Init /\ Night!Init /\ Grouped!Init /\ Again!Init
  /\ Evolved!Init /\ Replay!Init /\ Set!Init

Others(p) ==
  /\ part = p /\ UNCHANGED part
  /\ p # "field" => UNCHANGED fvars
  /\ p # "mind" => UNCHANGED mvars
  /\ p # "age" => UNCHANGED avars
  /\ p # "book" => UNCHANGED bvars
  /\ p # "night" => UNCHANGED nvars
  /\ p # "topics" => UNCHANGED tvars
  /\ p # "recall" => UNCHANGED rvars
  /\ p # "lineage" => UNCHANGED evars
  /\ p # "bench" => UNCHANGED xvars
  /\ p # "settings" => UNCHANGED svars

Next ==
  \/ Others("field") /\ Field!Next
  \/ Others("mind") /\ Wants!Next
  \/ Others("age") /\ Age!Next
  \/ Others("book") /\ Printed!Next
  \/ Others("night") /\ Night!Next
  \/ Others("topics") /\ Grouped!Next
  \/ Others("recall") /\ Again!Next
  \/ Others("lineage") /\ Evolved!Next
  \/ Others("bench") /\ Replay!Next
  \/ Others("settings") /\ Set!Next

Spec == Init /\ [][Next]_vars

------------------------------------------------------------------------------
(* Every part is well typed; those that stand still are as they began.      *)
TypeOK ==
  /\ part = "mind" => Wants!TypeOK
  /\ part = "age" => Age!TypeOK
  /\ part = "book" => Printed!TypeOK
  /\ part = "night" => Night!TypeOK
  /\ part = "topics" => Grouped!TypeOK
  /\ part = "recall" => Again!TypeOK
  /\ part = "lineage" => Evolved!TypeOK
  /\ part = "bench" => Replay!TypeOK
  /\ part = "settings" => Set!TypeOK

(* What she wants is what the core would want, is felt in time, is said     *)
(* once and is remembered as it was said (intrinsic).                       *)
Wishes ==
  /\ part = "field" => Field!FieldLagBounded
  /\ part = "mind" =>
       /\ Wants!ThresholdIsCore /\ Wants!OneDeepDream /\ Wants!FallBetweenWords
       /\ Wants!WordsAreMoments /\ Wants!DreamOfOneNight

(* The days that made her older are each in the ledger once, however the    *)
(* settlement fails, and what the book tells of them agrees with it         *)
(* (finitude).                                                              *)
Aged ==
  /\ part = "age" =>
       /\ Age!ExpressedWithinP /\ Age!DaysAreRows /\ Age!LinearIsCore
       /\ Age!AnnouncedForward /\ Age!ConcernPaidOnce
  /\ part = "book" =>
       /\ Printed!NotPastTheLedger /\ Printed!ForecastInOrder /\ Printed!RingsSumUp
       /\ Printed!FieldsTold /\ Printed!OneEdition

(* Each episode is summarised once and each summary is of one topic that is *)
(* alive, however a night is interrupted and taken up again; to ask again   *)
(* shows the same (memory).                                                 *)
Memory ==
  /\ part = "night" => Night!BehindTheCursor /\ Night!SummarisedOnce /\ Night!OneDayEach
  /\ part = "topics" =>
       Grouped!FiledOnce /\ Grouped!NotBuried /\ Grouped!ReplayAgrees /\ Grouped!MergedInTime
  /\ part = "recall" => Again!AskAgain /\ Again!NoteOfAbsence

(* The lineage explains the overlay, the trace of a replay adds up, and no  *)
(* setting hides one above it (evolution, bench, config).                   *)
Tools ==
  /\ part = "lineage" => Evolved!LineageExplains /\ Evolved!RollbackRestores /\ Evolved!SlowDrift
  /\ part = "bench" => Replay!BeatsFillTheGaps /\ Replay!SealedAsTold /\ Replay!TraceAddsUp
  /\ part = "settings" => Set!FileBeforeEnv /\ Set!RefusedForCause /\ Set!QuietAround

(* What no step may do: make her younger, wake a dead topic, weaken what    *)
(* was recalled, forecast a shorter life for a quiet day, or bring back     *)
(* what a book left out.                                                    *)
MindSteps ==
  /\ Age!DeepNeverYounger /\ Grouped!DeadStaysDead /\ Again!RecalledKept
  /\ Printed!ForecastHonest /\ Printed!LeftOutStaysOut
================================================================================
