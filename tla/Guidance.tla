-------------------------------- MODULE Guidance --------------------------------
(***************************************************************************)
(* The compiler from what she feels (the surface of the engine) to advice  *)
(* for the host: tone, length, pace, whether to respect a pause, and a few *)
(* hints.  It exists twice: the compiler of version 0.1, still used for    *)
(* the profile "chat" when nothing is known of a reunion, and a table of   *)
(* rules with an interpreter that also explains every hint it gave or      *)
(* held back.                                                              *)
(*                                                                         *)
(* A surface is a function from the paths the engine has set; numbers are  *)
(* in tenths.  Hints are their keys: the phrases are left out.             *)
(***************************************************************************)
EXTENDS Integers, Sequences, SequencesExt, FiniteSets, FiniteSetsExt

CONSTANTS Feelings,   \* what the engine may set: pairs <<path, value>>
          MaxFelt     \* bound: so many paths are set at once

Levels == {"strain", "fatigue", "warmth", "damage", "autonomy", "quiet", "expression", "caution"}
Decisions == {"withdraw", "recover", "reach_out", "explore", "guard", "express", "hold"}

GuidanceAssumption ==
  /\ \A f \in Feelings : \/ f[1] \in Levels /\ f[2] \in 0..10
                         \/ f[1] = "action" /\ f[2] \in Decisions
                         \/ f[1] = "phase" /\ f[2] \in {"active", "dormant"}
                         \/ f[1] \in {"paused", "allowed"} /\ f[2] \in BOOLEAN
  /\ MaxFelt \in Nat

VARIABLES surface,   \* the cached surface of the session
          asked,     \* the last question: [mode, profile, reunion, concern]
          advice     \* the answer: [given, audit]

gvars == <<surface, asked, advice>>

None == "none"
Defense == 0
Care == 1
Tired == 2
Warmth == 3

Get(path, default) == IF path \in DOMAIN surface THEN surface[path] ELSE default
AtLeast(path, n) == path \in DOMAIN surface /\ surface[path] >= n
AtMost(path, n) == path \in DOMAIN surface /\ surface[path] <= n
Decided(a) == Get("action", "hold") = a

(* The element that ranks highest. *)
Most(seq, rank, default) ==
  IF seq = <<>> THEN default
  ELSE CHOOSE x \in ToSet(seq) : \A y \in ToSet(seq) : rank[x] >= rank[y]

ToneRank == [brief |-> 4, gentle |-> 3, neutral |-> 2, direct |-> 1, warm |-> 0]
LengthRank == [medium |-> 0, long |-> 1, short |-> 2]
PaceRank == [steady |-> 0, relaxed |-> 1, give_space |-> 2]

JoinTone(tones) == Most(tones, ToneRank, "neutral")
JoinLength(lengths) == Most(lengths, LengthRank, "medium")
JoinPace(paces) == Most(paces, PaceRank, "steady")

Some(seq) == SelectSeq(seq, LAMBDA x : x # None)
Field(rules, f) == [i \in DOMAIN rules |-> rules[i][f]]

R(when, tone, length, pace, hint, prio, cuts) ==
  [when |-> when, tone |-> tone, length |-> length, pace |-> pace, pause |-> FALSE,
   hint |-> hint, prio |-> prio, cuts |-> cuts, only |-> FALSE]
Pausing(r) == [r EXCEPT !.pause = TRUE]
Only(r) == [r EXCEPT !.only = TRUE]     \* of the group "decision_action": the first that fires

------------------------------------------------------------------------------
(* The compiler of 0.1. *)
(* The cases of the decision, and the rest of them. *)
LegacyCases(concern) ==
  <<R(Decided("withdraw"), "gentle", "short", "give_space", "WITHDRAW", Tired, TRUE),
    R(Decided("recover"), "warm", None, None, "RECOVER", Warmth, FALSE),
    R(Decided("reach_out"), "warm", None, None, "REACH_OUT", Warmth, FALSE),
    R(Decided("explore"), "neutral", None, "relaxed", "EXPLORE", Warmth, FALSE),
    R(Decided("guard"), "brief", "short", None, "GUARD_DECISION", Defense, TRUE),
    R(Decided("express") /\ AtLeast("warmth", 7), "warm", "long", None, "EXPRESS", Warmth, FALSE),
    R(Decided("hold"), "neutral", None, None, None, Warmth, FALSE),
    R(AtLeast("strain", 6), None, "short", "give_space", "STRAIN", Tired, TRUE),
    R(AtLeast("fatigue", 7), None, "short", None, "FATIGUE", Tired, TRUE),
    R(AtLeast("warmth", 7), "warm", None, None, "WARM_HIGH", Warmth, FALSE),
    R(AtMost("warmth", 3), "gentle", None, None, "WARM_LOW", Warmth, FALSE),
    R(AtLeast("damage", 3), "gentle", None, None, "DAMAGE", Warmth, FALSE),
    Pausing(R(AtMost("autonomy", 3) \/ Get("paused", FALSE), "brief", None, None, "AUTONOMY", Defense, FALSE)),
    R(AtLeast("quiet", 6), None, "short", "give_space", "QUIET", Tired, TRUE),
    R(AtLeast("expression", 7), None, "long", None, "EXPRESSION", Warmth, FALSE),
    R(Get("phase", "active") = "dormant", "gentle", None, None, "DORMANT", Warmth, FALSE),
    R(AtLeast("caution", 6), None, None, None, "CAUTION", Warmth, FALSE),
    R(concern, "gentle", None, None, "CONCERN", Care, FALSE),
    Pausing(R(~Get("allowed", TRUE), None, None, None, "GUARD_BLOCKED", Defense, FALSE))>>

(* A steward is never told to be short, to give space or to be cut off.    *)
LegacyLength(lengths, steward) ==
  IF "long" \in ToSet(lengths) /\ (steward \/ "short" \notin ToSet(lengths)) THEN "long"
  ELSE IF ~steward /\ "short" \in ToSet(lengths) THEN "short" ELSE "medium"

(* The hints of the candidates in order, each once, and so many of them.   *)
Given(rules, order, cap) ==
  LET keys == FoldLeft(LAMBDA got, i : IF rules[i].hint \in ToSet(got) THEN got
                                       ELSE Append(got, rules[i].hint), <<>>, order)
  IN SubSeq(keys, 1, Min({cap, Len(keys)}))

Ordered(rules, ids) ==
  SortSeq(SelectSeq([i \in DOMAIN rules |-> i], LAMBDA i : i \in ids),
          LAMBDA i, j : \/ rules[i].prio < rules[j].prio
                        \/ (rules[i].prio = rules[j].prio /\ i < j))

Legacy(q) ==
  LET all == LegacyCases(q.concern)
      fired == SelectSeq(all, LAMBDA r : r.when)
      steward == q.mode = "steward"
      hits == {i \in DOMAIN all : /\ all[i].when /\ all[i].hint # None
                                  /\ ~(steward /\ all[i].cuts)}
  IN [tone |-> JoinTone(Some(Field(fired, "tone"))),
      length |-> LegacyLength(Field(fired, "length"), steward),
      pace |-> IF steward THEN "steady" ELSE JoinPace(Some(Field(fired, "pace"))),
      hints |-> Given(all, Ordered(all, hits), 3),
      respect_pause |-> \E i \in DOMAIN fired : fired[i].pause]

------------------------------------------------------------------------------
(* The table of rules. *)
DEFAULT_RULESET(q) ==
  <<Only(R(Decided("withdraw"), "gentle", "short", "give_space", "WITHDRAW", Tired, TRUE)),
    Only(R(Decided("recover"), "warm", None, None, "RECOVER", Warmth, FALSE)),
    Only(R(Decided("reach_out"), "warm", None, None, "REACH_OUT", Warmth, FALSE)),
    Only(R(Decided("explore"), "neutral", None, "relaxed", "EXPLORE", Warmth, FALSE)),
    Only(R(Decided("guard"), "brief", "short", None, "GUARD_DECISION", Defense, TRUE)),
    Only(R(Decided("express") /\ AtLeast("warmth", 7), "warm", "long", None, "EXPRESS", Warmth, FALSE)),
    Only(R(Decided("hold"), "neutral", None, None, None, Warmth, FALSE)),
    R(AtLeast("strain", 6), None, "short", "give_space", "STRAIN", Tired, TRUE),
    R(AtLeast("fatigue", 7), None, "short", None, "FATIGUE", Tired, TRUE),
    R(AtLeast("warmth", 7), "warm", None, None, "WARM_HIGH", Warmth, FALSE),
    R(AtMost("warmth", 3), "gentle", None, None, "WARM_LOW", Warmth, FALSE),
    R(AtLeast("damage", 3), "gentle", None, None, "DAMAGE", Warmth, FALSE),
    Pausing(R(AtMost("autonomy", 3), "brief", None, None, "AUTONOMY", Defense, FALSE)),
    Pausing(R(Get("paused", FALSE), "brief", None, None, "AUTONOMY", Defense, FALSE)),
    R(AtLeast("quiet", 6), None, "short", "give_space", "QUIET", Tired, TRUE),
    R(AtLeast("expression", 7), None, "long", None, "EXPRESSION", Warmth, FALSE),
    R(Get("phase", "active") = "dormant", "gentle", None, None, "DORMANT", Warmth, FALSE),
    R(q.reunion, "gentle", None, None, "DORMANT", Warmth, FALSE),
    R(AtLeast("caution", 6), None, None, None, "CAUTION", Warmth, FALSE),
    R(q.concern, "gentle", None, None, "CONCERN", Care, FALSE),
    Pausing(R(~Get("allowed", TRUE), None, None, None, "GUARD_BLOCKED", Defense, FALSE))>>

(* resolve_profile: an unknown name is "chat". *)
resolve_profile(q) ==
  [cap |-> IF q.profile = "coding" THEN 2 ELSE 3,
   drops |-> IF q.profile = "coding" THEN {Warmth} ELSE {},
   keeps |-> IF q.profile = "coding" THEN {"CAUTION"} ELSE {},
   steward |-> q.mode = "steward", voice |-> q.profile = "voice"]

(* _fires, and of the exclusive group only the first. *)
Fired(rules) ==
  {i \in DOMAIN rules : rules[i].when /\ ~(rules[i].only /\ \E j \in 1..(i - 1) : rules[j].only /\ rules[j].when)}

(* evaluate: the advice, and for each candidate the reason it was held     *)
(* back, if it was.                                                        *)
Evaluate(q) ==
  LET rules == DEFAULT_RULESET(q)
      eff == resolve_profile(q)
      fired == Fired(rules)
      felt == Field(SelectSeq([i \in DOMAIN rules |-> [r |-> rules[i], on |-> i \in fired]], LAMBDA x : x.on), "r")
      of == {i \in fired : rules[i].hint # None}
      cut == {i \in of : eff.steward /\ rules[i].cuts}
      dropped == {i \in of \ cut : rules[i].prio \in eff.drops /\ rules[i].hint \notin eff.keeps}
      order == Ordered(rules, of \ (cut \cup dropped))
      hints == Given(rules, order, eff.cap)
      lengths == SelectSeq(Some(Field(felt, "length")), LAMBDA l : ~(l = "short" /\ eff.steward))
      tone == JoinTone(Some(Field(felt, "tone")))
      length == JoinLength(lengths)
      pace == IF eff.steward THEN "steady" ELSE JoinPace(Some(Field(felt, "pace")))
      Reason(i) == CASE i \in cut -> "steward"
                     [] i \in dropped -> "profile_drop"
                     [] i \in ToSet(order) /\ rules[i].hint \notin ToSet(hints) -> "cap"
                     [] \E j \in ToSet(order) : /\ rules[j].hint = rules[i].hint
                                                /\ Ordered(rules, {i, j}) = <<j, i>> /\ i # j -> "dedup"
                     [] OTHER -> None
  IN [given |-> [tone |-> tone, length |-> length, pace |-> pace, hints |-> hints,
                 respect_pause |-> \E i \in fired : rules[i].pause],
      voice |-> IF ~eff.voice THEN None
                ELSE IF length = "short" \/ tone \in {"brief", "gentle"} THEN "slow" ELSE "normal",
      audit |-> [i \in of |-> Reason(i)]]

(* build_guidance *)
build_guidance(q) ==
  IF q.profile = "chat" /\ ~q.reunion
  THEN [given |-> Legacy(q), voice |-> None, audit |-> <<>>] ELSE Evaluate(q)

------------------------------------------------------------------------------
Questions == [mode : {"steward", "companion"}, profile : {"chat", "coding", "voice"},
              reunion : BOOLEAN, concern : BOOLEAN]
NoAdvice == [given |-> None]

Init ==
  /\ surface = [p \in {} |-> 0]
  /\ asked = [mode |-> "steward", profile |-> "chat", reunion |-> FALSE, concern |-> FALSE]
  /\ advice = NoAdvice

(* The engine answers a tick, and the cached surface is replaced. *)
Feel ==
  \E f \in Feelings :
    /\ Cardinality(DOMAIN surface \cup {f[1]}) <= MaxFelt
    /\ surface' = [p \in DOMAIN surface \cup {f[1]} |-> IF p = f[1] THEN f[2] ELSE surface[p]]
    /\ advice' = NoAdvice
    /\ UNCHANGED asked

(* The host asks.  A reunion is looked for with a companion only, and what *)
(* concern there is belongs to one.                                        *)
Ask ==
  /\ advice = NoAdvice
  /\ \E q \in Questions :
       /\ q.mode = "companion" \/ (~q.reunion /\ ~q.concern)
       /\ asked' = q
       /\ advice' = build_guidance(q)
  /\ UNCHANGED surface

Next == Feel \/ Ask

Spec == Init /\ [][Next]_gvars

------------------------------------------------------------------------------
Hints == {DEFAULT_RULESET(asked)[i].hint : i \in DOMAIN DEFAULT_RULESET(asked)} \ {None}

TypeOK ==
  /\ DOMAIN surface \subseteq {f[1] : f \in Feelings}
  /\ asked \in Questions
  /\ advice # NoAdvice => /\ advice.given.tone \in DOMAIN ToneRank
                          /\ advice.given.length \in DOMAIN LengthRank
                          /\ advice.given.pace \in DOMAIN PaceRank
                          /\ ToSet(advice.given.hints) \subseteq Hints

(* Where 0.1 answers, the rules would have answered the same: neither the  *)
(* order, the exclusive group, the duplicate hint nor the steward's        *)
(* suppression makes a difference (the "zero drift" both files promise).   *)
NoDrift ==
  advice # NoAdvice /\ asked.profile = "chat" /\ ~asked.reunion
    => Evaluate(asked).given = advice.given

(* To remember a reunion adds at most its own hint, in the place of the    *)
(* last one, and never makes the advice less gentle or shorter.            *)
ReunionOnlyAdds ==
  advice # NoAdvice /\ asked.reunion =>
    LET without == build_guidance([asked EXCEPT !.reunion = FALSE]).given
    IN /\ ToSet(advice.given.hints) \ ToSet(without.hints) \subseteq {"DORMANT"}
       /\ Cardinality(ToSet(without.hints) \ ToSet(advice.given.hints)) <= 1
       /\ ToneRank[advice.given.tone] >= ToneRank[without.tone]
       /\ advice.given.length = without.length /\ advice.given.pace = without.pace
       /\ advice.given.respect_pause = without.respect_pause

(* The audit is whole: every hint given has exactly one candidate that was *)
(* not held back, none was cut for want of room while a weaker one was     *)
(* given, and a hint said to be given already was.                         *)
Explained ==
  advice # NoAdvice /\ advice.audit # <<>> =>
    LET rules == DEFAULT_RULESET(asked)
        of == DOMAIN advice.audit
        kept == {i \in of : advice.audit[i] = None}
    IN /\ {rules[i].hint : i \in kept} = ToSet(advice.given.hints)
       /\ Cardinality(kept) = Len(advice.given.hints)
       /\ \A i \in of : /\ advice.audit[i] = "cap" => \A j \in kept : rules[j].prio <= rules[i].prio
                        /\ advice.audit[i] = "dedup" => rules[i].hint \in ToSet(advice.given.hints)
                        /\ advice.audit[i] = "profile_drop" => rules[i].prio = Warmth
==============================================================================
