------------------------------ MODULE MCSession --------------------------------
(* What a session may find: drafts, readings of the shadow, texts.           *)
EXTENDS Session

CONSTANT K   \* a detector

MCPolicies == {"core", "conservative", "smooth", "duel"}
MCLevels   == {100, 40, 10}

Draft(action, pressure, expr, sentences) ==
  [action |-> action, pressure |-> pressure, expr |-> expr, sentences |-> sentences,
   byte |-> 100, even |-> TRUE, plain |-> TRUE, allowed |-> TRUE, silenced |-> FALSE]
High == Draft("withdraw", 80, 50, 1)

MCDrafts ==
  {High, Draft("withdraw", 60, 50, 1), [Draft("withdraw", 20, 50, 1) EXCEPT !.byte = 250],
   Draft("hold", 20, 20, 1), [Draft("hold", 20, 70, 2) EXCEPT !.even = FALSE],
   Draft("recover", 20, 50, 1), Draft("recover", 20, 50, 4),
   Draft("express", 20, 80, 4), Draft("express", 60, 80, 9)}
  \cup {Draft(a, 80, 80, 1) : a \in {"guard", "reach_out", "explore", "unknown"}}
  \cup {[High EXCEPT !.silenced = TRUE], [High EXCEPT !.plain = FALSE]}

Surface(p, w, d) == [pressure |-> p, warmth |-> w, damage |-> d]
NoWarmth == 999

MCSurfaces ==
  {Surface(20, 70, 0), Surface(60, 70, 0), Surface(70, 44, 50), Surface(20, 44, 0),
   Surface(59, NoWarmth, 60)}

MCKinds     == {K}
MCStrengths == {5, 80}
MCQs        == {50, 95}

MCValues == {5, 44, 100}
MCBetas  == {-10, 15}

MCTexts == {"good morning"}
================================================================================
