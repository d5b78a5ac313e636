------------------------------- MODULE MCMind ---------------------------------
(* What the parts of Mind may meet in a small life; beside them her words,  *)
(* in behaviours of their own: her sentences, the advice for the host, and  *)
(* the text of a scenario.                                                  *)
EXTENDS Mind

VARIABLES surface, asked, advice
VARIABLES fade, model, uttered
VARIABLES tree, script

gvars == <<surface, asked, advice>>
vvars == <<fade, model, uttered>>
dvars == <<tree, script>>

------------------------------------------------------------------------------
(* Wishes: the field of her needs, and the deep decision. *)
MCGaps == {1, 2, 5}

Shows(c, e, p, q, b, a, f) ==
  [contact |-> c, expression |-> e, pressure |-> p, quiet |-> q, budget |-> b, action |-> a, phase |-> f]
Calm   == Shows(60, 60, 20, 10, 80, "hold", "active")
Heavy  == Shows(70, 70, 70, 10, 80, "hold", "active")

MCSurfaces == {Calm, Heavy, Shows(20, 20, 20, 10, 80, "reach_out", "active"),
               Shows(20, 60, 20, 10, 80, "hold", "active"),
               Shows(70, 44, 20, 50, 80, "reach_out", "active"),
               Shows(70, 45, 20, 10, 20, "hold", "active"),
               Shows(70, 45, 20, 10, 80, "hold", "dormant")}
MCShown == {Calm}

(* poisson_budget may propose whatever threshold proposes. *)
MCPolicies == {"field_crossing", "poisson_budget"}

(* Ageing: a life of two ordinary days, and its book. *)
DayOf(i, s, h, c, sh) == [interacted |-> i, seen |-> s, high |-> h, concern |-> c, shadow |-> sh]
Way(m, t) == [model |-> m, track |-> t]

MCWear == <<0, 10, 31, 60>>
MCWays == {Way("linear", "fixed"), Way("weibull", "order_parameter"),
           Way("event", "order_parameter"), Way("reserve", "fixed")}
MCLived == {DayOf(TRUE, TRUE, 0, 0, FALSE), DayOf(TRUE, TRUE, 1, 1, TRUE),
            DayOf(FALSE, TRUE, 2, 0, TRUE)}

MCModels == {"reserve", "event"}
MCIntensities == {[high |-> 0, concern |-> 0], [high |-> 2, concern |-> 1]}
MCWordOrder == <<2, 3, 1>>

(* Memory: the night, the topics it makes, and what is recalled by day. *)
MCBuckets == {"convo", "moment"}

Question(text, k, affect, scorer) == [text |-> text, k |-> k, affect |-> affect, scorer |-> scorer]
Faded(days, strength) == (100 * strength) \div (strength + 100 * days)

MCKeywords == {"a", "b", "c"}
MCLearned  == {[kws |-> {"a"}, warm |-> 20], [kws |-> {"b", "c"}, warm |-> 80]}
MCQueries  == {Question({"a"}, 2, 80, "rrf"), Question({"a"}, 3, 80, "emotion_first"),
               Question({"b", "c"}, 2, -1, "linear")}
MCSkews    == {0, 1}

(* The advice for the host. *)
Decisions == {"withdraw", "recover", "reach_out", "explore", "guard", "express", "hold"}

MCFeelings == {<<"action", a>> : a \in Decisions}
              \cup {<<"strain", 6>>, <<"fatigue", 7>>, <<"warmth", 7>>, <<"warmth", 3>>,
                    <<"warmth", 5>>, <<"damage", 3>>, <<"autonomy", 3>>, <<"quiet", 6>>,
                    <<"quiet", 5>>, <<"expression", 7>>, <<"caution", 6>>,
                    <<"phase", "dormant">>, <<"paused", TRUE>>, <<"allowed", FALSE>>}

(* Tools: evolution, the replay of scenarios, the settings. *)
MCRuns  == [velocity : {5, 10, 20}, strategy : {"pattern_search", "grid_descent", "nelder_mead"}]
MCTiers == {[pressure |-> 450, fatigue |-> 400], [pressure |-> -200, fatigue |-> 20]}
MCHours == {0, 1, 8, 23}

MCParts == {"field", "mind", "age", "book", "night", "topics", "recall", "guidance",
            "lineage", "bench", "settings", "voice", "dsl"}

------------------------------------------------------------------------------
(* Words: the advice for the host, her own sentences, and the text of a     *)
(* scenario.                                                                *)
Advised == INSTANCE Guidance WITH Feelings <- MCFeelings, MaxFelt <- 2

Spoken == INSTANCE Voice WITH
            Occasions <- {"concern", "dream"}, TierR <- {"dream"},
            Route <- [concern |-> <<"distilled", "template", "lexicon">>,
                      dream |-> <<"distilled", "markov", "template", "lexicon">>],
            Lexicon <- [concern |-> <<<<"a", ".">>, <<"b", ".">>, <<"c", ",", "d", ".">>, <<"e", ".">>>>,
                        dream |-> <<<<"x", ".">>, <<"y", "z", ".">>>>],
            Core <- [concern |-> 2, dream |-> 1],
            Patterns <- [concern |-> <<<<"open", "tail">>>>, dream |-> <<<<"head", "theme">>>>],
            Slots <- [open |-> <<<<"a">>, <<"b", "b">>, <<"c">>>>, tail |-> <<<<".">>, <<"d", ".">>>>,
                      head |-> <<<<"x">>, <<"y">>>>,
                      theme |-> <<<<"t", ".">>, <<"u", ".">>, <<"v", ".">>>>],
            Particles <- [concern |-> {"mm"}, dream |-> {}], Theme <- <<"v", ".">>,
            Forbidden <- {[pattern |-> <<"b", "b">>, only |-> FALSE], [pattern |-> <<"e">>, only |-> TRUE]},
            Generated <- {<<"a", ".">>, <<"e", ".">>, <<"c", "d", ".">>, <<"x", "z", ".">>,
                          <<"y", "z", "x", ".">>},
            Earlier <- {<<"x", ".">>, <<"y", "z", ".">>, <<"y", "z", "x", ".">>, <<"z", "x", "y", "z">>},
            MinCorpus <- 3, MaxLen <- 4, LongLimit <- 3, SlotMax <- 3, ClosureMax <- 5,
            Ps <- {0, 10, 30, 50, 70, 90}

Text == INSTANCE Dsl WITH Strings <- {"digits", "word_true", "colon"}, MaxWidth <- 2

ASSUME MCConstants == Advised!GuidanceAssumption /\ Spoken!VoiceAssumption /\ Text!DslAssumption

MCInit == Init /\ Advised!Init /\ Spoken!Init /\ Text!Init

MCNext ==
  \/ Next /\ UNCHANGED <<gvars, vvars, dvars>>
  \/ part = "guidance" /\ Advised!Next /\ UNCHANGED <<vars, vvars, dvars>>
  \/ part = "voice" /\ Spoken!Next /\ UNCHANGED <<vars, gvars, dvars>>
  \/ part = "dsl" /\ Text!Next /\ UNCHANGED <<vars, gvars, vvars>>

MCSpec == MCInit /\ [][MCNext]_<<vars, gvars, vvars, dvars>>

------------------------------------------------------------------------------
(* The two compilers of advice agree and explain themselves, she always has *)
(* a word, always one of her own, and a scenario survives its text          *)
(* (guidance, primal, bench).                                               *)
Words ==
  /\ part = "guidance" => Advised!TypeOK /\ Advised!NoDrift /\ Advised!ReunionOnlyAdds /\ Advised!Explained
  /\ part = "voice" => Spoken!TypeOK /\ Spoken!WordsOnlyFade /\ Spoken!NeverMute /\ Spoken!NoWordAdded
  /\ part = "dsl" => Text!RoundTrip
================================================================================
