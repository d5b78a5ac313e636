-------------------------------- MODULE Lineage --------------------------------
(***************************************************************************)
(* Evolution: generations of the one gene that may drift, the daily cap of *)
(* her own words, proposed by a strategy, guarded, judged by the bench,    *)
(* written to the overlay the program starts from and recorded, line by    *)
(* line, in the lineage; and the rollback to an accepted generation.       *)
(*                                                                         *)
(* Every other gene is iron: no strategy proposes it.  The direction of a  *)
(* proposal is a hash of the deployment and the generation, and the score  *)
(* is the bench's: both are free here.  Values are hundredths while they   *)
(* are proposed.                                                           *)
(***************************************************************************)
EXTENDS Integers, Sequences, FiniteSets, FiniteSetsExt

CONSTANTS Runs,        \* what the command line may ask for: [velocity (percent), strategy]
          MaxLines,    \* bound of lines of the lineage
          MaxBreaks    \* bound of kills and of lines the disk had no room for

Lo == 1
Hi == 6
Hatch == 3

LineageAssumption ==
  /\ \A r \in Runs : r.velocity \in 0..100
                     /\ r.strategy \in {"pattern_search", "grid_descent", "nelder_mead"}
  /\ {MaxLines, MaxBreaks} \subseteq Nat

VARIABLES lineage,    \* the lines of lineage.jsonl: records, and bad ones
          cutOff,     \* its last line has no end: the next is written on to it
          overlay,    \* evolution.overlay.json: [gen, cap]
          evolving,   \* what the process is about to append after the overlay, if anything
          known       \* history: the cap in force before the last overlay, whether the
                      \* lineage knows it, the overlays of the accepted, how often it broke

evars == <<lineage, cutOff, overlay, evolving, known>>

NoLine == [gen |-> 0]
BadLine == [gen |-> 0, verdict |-> "bad", parent |-> 0, after |-> 0, to |-> 0]

------------------------------------------------------------------------------
(* What _read_all reads of them. *)
Records == Range(lineage) \ {BadLine}
Accepted == {r \in Records : r.verdict = "accepted"}

(* _last_accepted_gen and _next_seq *)
LastAccepted == IF Accepted = {} THEN 0 ELSE Max({r.gen : r \in Accepted})
NextSeq == 1 + (IF Records = {} THEN 0 ELSE Max({r.gen : r \in Records}))

(* reconstruct: along the parents down to the hatch, the last change wins. *)
reconstruct(gen) == IF gen = 0 THEN Hatch ELSE (CHOOSE r \in Accepted : r.gen = gen).after

(* _read_all skips what cannot be read; append knows nothing of the line   *)
(* before.                                                                 *)
Appended(line) ==
  IF cutOff THEN [lineage EXCEPT ![Len(lineage)] = BadLine] ELSE Append(lineage, line)

Round(h) ==     \* half to even
  LET down == h \div 100
      rest == h % 100
  IN IF rest < 50 \/ (rest = 50 /\ down % 2 = 0) THEN down ELSE down + 1

(* GeneSpec.clip and clamp_step: a step is a share of the whole range. *)
Bound(velocity) == velocity * (Hi - Lo)
Clamp(old, proposed, bound) ==
  LET near == Min({Max({proposed, 100 * old - bound}), 100 * old + bound})
  IN Round(Min({Max({near, 100 * Lo}), 100 * Hi}))

(* propose, by strategy *)
Proposed(old, r, dir) ==
  CASE r.strategy = "pattern_search" -> Clamp(old, 100 * old + dir * Bound(r.velocity), Bound(r.velocity))
    [] r.strategy = "grid_descent" -> Clamp(old, 100 * old + (dir * Bound(r.velocity)) \div 4, Bound(r.velocity) \div 4)
    [] r.strategy = "nelder_mead" -> Clamp(old, 100 * old + (dir * Bound(r.velocity)) \div 2, Bound(r.velocity))

(* check_mutation_set *)
StepAllowed(old, new, velocity) == 100 * Max({new - old, old - new}) <= Bound(velocity)

Line(verdict, parent, after, to) ==
  [gen |-> NextSeq, verdict |-> verdict, parent |-> parent, after |-> after, to |-> to]

------------------------------------------------------------------------------
Init ==
  /\ lineage = <<>>
  /\ cutOff = FALSE
  /\ overlay = [gen |-> 0, cap |-> Hatch]
  /\ evolving = NoLine
  /\ known = [prior |-> Hatch, told |-> TRUE, kept |-> {}, broke |-> 0]

MayWrite == evolving = NoLine /\ Len(lineage) < MaxLines

(* The cap in force changes; a ghost remembers the one before. *)
Deploy(cap, gen, line) ==
  /\ overlay' = [gen |-> gen, cap |-> cap]
  /\ evolving' = line
  /\ known' = [known EXCEPT !.prior = overlay.cap]

(* run_generations, one of them: without a bench, or without a candidate,  *)
(* the generation is only recorded as skipped; a guard or the bench may    *)
(* reject it.                                                              *)
NotTaken ==
  /\ MayWrite
  /\ \E r \in Runs, dir \in {-1, 1} :
       LET old == reconstruct(LastAccepted)
           new == Proposed(old, r, dir)
       IN \E verdict \in {"skipped", "rejected_guard_static", "rejected_fitness"} :
            /\ verdict = "rejected_guard_static" => new # old /\ ~StepAllowed(old, new, r.velocity)
            /\ verdict = "rejected_fitness" => new # old /\ StepAllowed(old, new, r.velocity)
            /\ lineage' = Appended(Line(verdict, LastAccepted, old, 0))
  /\ cutOff' = FALSE
  /\ UNCHANGED <<overlay, evolving, known>>

(* An accepted one reaches the overlay first. *)
Take ==
  /\ MayWrite
  /\ \E r \in Runs, dir \in {-1, 1} :
       LET old == reconstruct(LastAccepted)
           new == Proposed(old, r, dir)
       IN /\ new # old
          /\ StepAllowed(old, new, r.velocity)
          /\ Deploy(new, NextSeq, Line("accepted", LastAccepted, new, 0))
  /\ UNCHANGED <<lineage, cutOff>>

(* rollback, to the hatch or to an accepted generation. *)
Rollback ==
  /\ MayWrite
  /\ \E gen \in {0} \cup {r.gen : r \in Accepted} :
       Deploy(reconstruct(gen), gen, Line("rollback", 0, reconstruct(gen), gen))
  /\ UNCHANGED <<lineage, cutOff>>

(* ... and then the lineage. *)
Record ==
  /\ evolving # NoLine
  /\ lineage' = Appended(evolving)
  /\ cutOff' = FALSE
  /\ evolving' = NoLine
  /\ known' = [known EXCEPT !.told = ~cutOff,
                            !.kept = IF evolving.verdict = "accepted" /\ ~cutOff
                                     THEN @ \cup {<<evolving.gen, overlay.cap>>} ELSE @]
  /\ UNCHANGED overlay

Broken == [known EXCEPT !.broke = @ + 1, !.told = FALSE]

(* The process is killed between the two files. *)
Kill ==
  /\ evolving # NoLine /\ known.broke < MaxBreaks
  /\ evolving' = NoLine
  /\ known' = Broken
  /\ UNCHANGED <<lineage, cutOff, overlay>>

(* The disk takes a part of the line only: os.write says so, nobody asks.  *)
CutShort ==
  /\ evolving # NoLine /\ known.broke < MaxBreaks
  /\ lineage' = Appended(BadLine)
  /\ cutOff' = TRUE
  /\ evolving' = NoLine
  /\ known' = Broken
  /\ UNCHANGED overlay

Next == NotTaken \/ Take \/ Rollback \/ Record \/ Kill \/ CutShort

Spec == Init /\ [][Next]_evars

------------------------------------------------------------------------------
Verdicts == {"accepted", "rollback", "skipped", "rejected_guard_static", "rejected_fitness"}

TypeOK ==
  /\ \A l \in Range(lineage) : l = BadLine \/ (l.gen \in Nat \ {0} /\ l.verdict \in Verdicts /\ l.after \in Lo..Hi)
  /\ cutOff \in BOOLEAN
  /\ overlay.cap \in Lo..Hi /\ overlay.gen \in Nat
  /\ known.prior \in Lo..Hi /\ known.told \in BOOLEAN /\ known.broke \in 0..MaxBreaks

(* What is in force is what the lineage says last: the accepted or rolled  *)
(* back record at its end, unless a break came between the two files       *)
(* (theory/evolution/axioms.md, A4).                                       *)
LineageExplains ==
  LET effective == {i \in DOMAIN lineage : lineage[i].verdict \in {"accepted", "rollback"}}
  IN known.told /\ evolving = NoLine
       => overlay.cap = IF effective = {} THEN Hatch ELSE lineage[Max(effective)].after

(* A rollback to a generation gives the very overlay that generation wrote *)
(* when it was accepted, whatever was lost or rolled back since (A4).      *)
RollbackRestores ==
  /\ \A k \in known.kept : \E r \in Accepted : r.gen = k[1] /\ r.after = k[2]
  /\ \A i, j \in DOMAIN lineage :
       i < j /\ BadLine \notin {lineage[i], lineage[j]} => lineage[i].gen < lineage[j].gen

(* From one accepted overlay to the next the cap moves by at most a step   *)
(* of the widest run (A3), if no rollback or break is in between.          *)
SlowDrift ==
  LET widest == Max({Bound(r.velocity) : r \in Runs})
  IN evolving # NoLine /\ evolving.verdict = "accepted" /\ known.told
       /\ (\A r \in Records : r.verdict # "rollback")
     => 100 * Max({overlay.cap - known.prior, known.prior - overlay.cap}) <= widest

(* The same without the condition on rollbacks: A3 as axioms.md states it. *)
SlowDriftAlways ==
  LET widest == Max({Bound(r.velocity) : r \in Runs})
  IN evolving # NoLine /\ evolving.verdict = "accepted"
     => 100 * Max({overlay.cap - known.prior, known.prior - overlay.cap}) <= widest
==============================================================================
