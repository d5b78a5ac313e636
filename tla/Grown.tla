--------------------------------- MODULE Grown ---------------------------------
(* What she wishes and how she ages: the deep intrinsic with the field of   *)
(* her needs, the deep finitude with the book it prints.  Each keeps its    *)
(* own state.                                                               *)
EXTENDS Integers, Sequences, FiniteSets

CONSTANTS
  MaxCatchup, FieldBeats, Gaps,
  Surfaces, Shown, Policies, CapBase, LastHour, MaxBeats, MaxRaises, MaxKills,
  Lifespan, Wear, MinSamples, Ways, Lived, LastDay, MaxTroubles,
  Models, Intensities, Calendar, MinSample, PerEpoch, WordOrder,
  LastPage, MaxWords, MaxGens, MaxSlips, MaxEditions

VARIABLES fieldTs, wall, felt
VARIABLES mind, mindDisk, hour, pulse, wish, diary, history
VARIABLES aging, agingDisk, settled, way, date, past
VARIABLES life, lines, torn, page, shelf, press, slips

fvars == <<fieldTs, wall, felt>>
mvars == <<mind, mindDisk, hour, pulse, wish, diary, history>>
avars == <<aging, agingDisk, settled, way, date, past>>
bvars == <<life, lines, torn, page, shelf, press, slips>>

Field   == INSTANCE FieldClock WITH MaxBeats <- FieldBeats
Wants   == INSTANCE DeepIntrinsic
Age     == INSTANCE DeepFinitude
Printed == INSTANCE Book WITH Window <- Calendar, Rank <- WordOrder

ASSUME GrownConstants ==
  /\ Field!FieldClockAssumption /\ Wants!DeepIntrinsicAssumption
  /\ Age!DeepFinitudeAssumption /\ Printed!BookAssumption

================================================================================
