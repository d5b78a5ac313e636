-------------------------------- MODULE Session --------------------------------
(* The subsystems around a session that share no state with each other:    *)
(* each behaviour follows one of them, the others stand still.             *)
EXTENDS Integers, Sequences, FiniteSets

CONSTANTS
  Policies, Levels, Drafts, DayLength, MinGap, Budget, Stride, MaxNow, MaxCrashes, MaxVerdicts,
  Surfaces, MaxDay, MaxFaults,
  Kinds, Strengths, Qs, Hypotheses, Quota, MinN, Rows, HalfDays, MaxFires, MaxKills,
  Values, Betas, MaxTicks, MaxPushed,
  Texts, FirstMode, Silence, Window, MaxTurns, MaxFeeds, MaxResets, MaxLives, MaxMoment, MaxTrouble

VARIABLE part
VARIABLES policy, manner, kept, turn, verdicts, now, crashes
VARIABLES concern, concernDisk, step, today, injections, faults
VARIABLES shadow, shadowDisk, rows, calls, round, clock, lives
VARIABLES channel, ticked, pushed, baseDay
VARIABLES soul, soulDisk, notes, feeds, glance, heard, call, moment, tale

ArbVars == <<policy, manner, kept, turn, verdicts>>
ConVars == <<concern, concernDisk, step, today, injections, faults>>
DeepVars == <<shadow, shadowDisk, rows, calls, round, clock, lives>>
BaseVars == <<channel, ticked, pushed, baseDay>>
HearVars == <<soul, soulDisk, notes, feeds, glance, heard, call, moment, tale>>

Arb  == INSTANCE Arbitration
Con  == INSTANCE Concern
Deep == INSTANCE DeepShadow WITH Window <- Rows, MaxCrashes <- MaxKills
Base == INSTANCE Baselines
Hear == INSTANCE Hearing

ASSUME Constants ==
  /\ Arb!ArbitrationAssumption /\ Con!ConcernAssumption
  /\ Deep!DeepShadowAssumption /\ Base!BaselinesAssumption /\ Hear!HearingAssumption

vars == <<part, ArbVars, now, crashes, ConVars, DeepVars, BaseVars, HearVars>>

Init ==
  /\ part \in {"arbitration", "concern", "deep shadow", "baselines", "hearing"}
  /\ Arb!Init /\ Con!Init /\ Deep!Init /\ Base!Init /\ Hear!Init

Others(p) ==
  /\ part = p /\ UNCHANGED part
  /\ p # "arbitration" => UNCHANGED <<ArbVars, now, crashes>>
  /\ p # "concern" => UNCHANGED ConVars
  /\ p # "deep shadow" => UNCHANGED DeepVars
  /\ p # "baselines" => UNCHANGED BaseVars
  /\ p # "hearing" => UNCHANGED HearVars

Next ==
  \/ Others("arbitration") /\ Arb!Next
  \/ Others("concern") /\ Con!Next
  \/ Others("deep shadow") /\ Deep!Next
  \/ Others("baselines") /\ Base!Next
  \/ Others("hearing") /\ Hear!Next

Spec == Init /\ [][Next]_vars

------------------------------------------------------------------------------
(* Every part is well typed; those that stand still are as they began.      *)
TypeOK ==
  /\ part = "arbitration" => Arb!TypeOK
  /\ part = "concern" => Con!TypeOK
  /\ part = "deep shadow" => Deep!TypeOK
  /\ part = "baselines" => Base!TypeOK
  /\ part = "hearing" => Hear!TypeOK

(* What the arbiter does to a draft is spaced and rationed.                *)
Spaced == part = "arbitration" => Arb!InterventionGap /\ Arb!ConservativeBudget

(* Swallows, recoveries and settlements are each on record once; and what  *)
(* the user has had reset, neither the engine nor she decides from.         *)
Remembered ==
  /\ part = "arbitration" => Arb!SwallowsRemembered /\ Arb!SettledOnce /\ Arb!RecoverOnce
  /\ part = "hearing" => Hear!ResetForgets /\ Hear!GlanceOfNow

(* No policy of the deep pipeline is harsher than the core's table.        *)
Gentle == part = "arbitration" => Arb!NarrowNeverSwallows /\ Arb!NeverHarsherThanCore

(* The engine is told of a concern, a day pays for it and a prediction is  *)
(* settled once each, but for crashes and failing calls; and the shadow     *)
(* hears the user as the engine does, but for an echo of the agent.         *)
ShadowKept ==
  /\ part = "concern" => Con!InjectionBounded /\ Con!HighAgrees
  /\ part = "deep shadow" => Deep!SettledOnceEach /\ Deep!Accounted /\ Deep!WithinQuota
  /\ part = "hearing" => Hear!ShadowKnowsNoMore /\ Hear!HeldForEcho

(* A detector fires once a day; its gate closes only on two judgements.    *)
ShadowSteps == Deep!OncePerDay /\ Deep!TierEarned

(* The decayed histograms say what the days say; the detectors are         *)
(* monotone and silent without a past.                                     *)
BaselinesRight ==
  part = "baselines" => Base!DayAnchored /\ Base!WeekIsMedian /\ Base!DetectorsMonotone
================================================================================
