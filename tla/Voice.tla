--------------------------------- MODULE Voice ---------------------------------
(***************************************************************************)
(* The deep composer of her own words: for an occasion it asks the         *)
(* providers of the route in turn (a distilled model, a chain over her     *)
(* earlier words, a grammar, the lexicon), lets the gate judge what they   *)
(* offer, and marks what passed by how little plasticity is left.          *)
(*                                                                         *)
(* A sentence is a sequence of syllables and marks.  Percents for p; the   *)
(* hash that picks is free.  The words a model generates are any that are  *)
(* offered as Generated.                                                   *)
(***************************************************************************)
EXTENDS Integers, Sequences, SequencesExt, FiniteSets, FiniteSetsExt

CONSTANTS Occasions, TierR,      \* and those of them that may recombine
          Route,                 \* [Occasions -> sequences of providers]
          Lexicon,               \* [Occasions -> sequences of sentences], the plainest first
          Core,                  \* [Occasions -> Nat]: so many of them are of version 0.1
          Patterns, Slots,       \* [Occasions -> sequences of slots], [slot -> fillers]
          Particles,             \* [Occasions -> what warmth may add to a template]
          Theme,                 \* a theme a dream may bring for its slot
          Forbidden,             \* [pattern, only]: only of concern, or everywhere
          Generated,             \* what a model may generate
          Earlier,               \* her earlier words, as the corpus reader gives them
          MinCorpus, MaxLen, LongLimit, SlotMax, ClosureMax,
          Ps                     \* the values p goes through

Breath == "..."
Stop == "."
Comma == ","
Dash == "--"
Marks == {Breath, Stop, Comma, Dash}
Providers == {"distilled", "markov", "template", "lexicon"}

VoiceAssumption ==
  /\ TierR \subseteq Occasions
  /\ \A o \in Occasions : ToSet(Route[o]) \subseteq Providers /\ Core[o] \in 1..Len(Lexicon[o])
  /\ {MinCorpus, MaxLen, LongLimit, SlotMax, ClosureMax} \subseteq Nat
  /\ Ps \subseteq 0..100

VARIABLES fade,      \* p
          model,     \* of the distilled model: on disk, and what the loader remembers
          uttered    \* the last utterance

vvars == <<fade, model, uttered>>

Silent == [said |-> FALSE]

------------------------------------------------------------------------------
(* band_of and BAND_UPPER *)
Bands == <<15, 40, 60, 80, 100>>
band_of(p) == IF p >= 80 THEN 5 ELSE CHOOSE b \in 1..4 : p < Bands[b] /\ (b = 1 \/ p >= Bands[b - 1])

(* shrink_pool: a prefix, of at least one; half rounds to even. *)
Rounded(n) == LET down == n \div 100 IN
  IF n % 100 > 50 \/ (n % 100 = 50 /\ down % 2 = 1) THEN down + 1 ELSE down
shrink_pool(pool, p) ==
  IF p <= 0 THEN SubSeq(pool, 1, Min({1, Len(pool)}))
  ELSE SubSeq(pool, 1, Min({Len(pool), Max({1, Rounded(Len(pool) * Max({p, 15}))})}))

(* _expand_grammar: every filling of a pattern with the shrunk slots. *)
RECURSIVE Fillings(_, _)
Fillings(slots, p) ==
  IF slots = <<>> THEN {<<>>}
  ELSE {f \o rest : f \in ToSet(shrink_pool(Slots[Head(slots)], p)), rest \in Fillings(Tail(slots), p)}

(* enumerate_closure *)
Grammar(o, p) ==
  {s \in UNION {Fillings(pat, p) : pat \in ToSet(Patterns[o])} : s # <<>> /\ Len(s) <= SlotMax}
TooLarge(o, b) == Cardinality(Grammar(o, Bands[b])) > ClosureMax
(* Bug: the gate shrinks by the lower end of the band, the providers by p. *)
Closure_Lower(o, b) ==
  LET p == IF b = 1 THEN 0 ELSE Bands[b - 1]
  IN ToSet(shrink_pool(Lexicon[o], p)) \cup Grammar(o, p)

Closure(o, b) == ToSet(shrink_pool(Lexicon[o], Bands[b])) \cup Grammar(o, Bands[b])

------------------------------------------------------------------------------
(* The gate. *)
Holds(text, pattern) ==
  \E i \in 1..(Len(text) - Len(pattern) + 1) : SubSeq(text, i, i + Len(pattern) - 1) = pattern
Trigrams(texts) == UNION {{SubSeq(t, i, i + 2) : i \in 1..(Len(t) - 2)} : t \in texts}

Refused(text, o) == \E f \in Forbidden : (f.only => o = "concern") /\ Holds(text, f.pattern)

(* _check_recombination: outside of the closure only made of her words. *)
Recombined(text, b, corpus) ==
  /\ text # <<>> /\ Len(text) <= MaxLen
  /\ b <= 2 => Len(text) <= LongLimit
  /\ Last(text) \in {Stop, Breath, Dash}
  /\ ToSet(text) \subseteq UNION {ToSet(t) : t \in corpus} \cup Marks
  /\ Trigrams({text}) \subseteq Trigrams(corpus)

(* WhitelistGate.check *)
Passes(text, o, b, corpus) ==
  /\ ~Refused(text, o)
  /\ \/ text \in Closure(o, b) /\ (o \in TierR => /\ text # <<>> /\ Len(text) <= MaxLen
                                                  /\ (b <= 2 => Len(text) <= LongLimit))
     \/ o \in TierR /\ Recombined(text, b, corpus)

------------------------------------------------------------------------------
(* The providers: what each may offer; nothing if it is unavailable. *)
(* TemplateGrammarProvider: the theme of a dream need not be in the shrunk *)
(* slot.                                                                   *)
Templates(o) ==
  LET Pool(s) == IF s = "theme" /\ Theme \in ToSet(Slots[s]) THEN <<Theme>> ELSE shrink_pool(Slots[s], fade)
      Of(pat) == {FoldLeft(LAMBDA a, f : a \o f, <<>>, fill) :
                    fill \in {fill \in [1..Len(pat) -> UNION {ToSet(Pool(s)) : s \in ToSet(pat)}] :
                                \A i \in 1..Len(pat) : fill[i] \in ToSet(Pool(pat[i]))}}
  IN {s \in UNION {Of(pat) : pat \in ToSet(Patterns[o])} : s # <<>> /\ Len(s) <= SlotMax}

(* MarkovSurfaceProvider: from a beginning along the pairs of the corpus   *)
(* until a sentence ends; what does not end is cut.                        *)
RECURSIVE Walks(_, _)
Walks(text, corpus) ==
  LET next == {g[3] : g \in {g \in Trigrams(corpus) : SubSeq(g, 1, 2) = SubSeq(text, Len(text) - 1, Len(text))}}
  IN IF Last(text) \in {Stop, Breath} THEN {text}
     ELSE IF next = {} \/ Len(text) >= MaxLen
          THEN {Append(SubSeq(text, 1, Min({Len(text), MaxLen - 1})), Breath)}
     ELSE UNION {Walks(Append(text, x), corpus) : x \in next}
Markov(corpus) ==
  IF Cardinality(corpus) < MinCorpus THEN {}
  ELSE UNION {Walks(SubSeq(t, 1, 2), corpus) : t \in {t \in corpus : Len(t) >= 2}}

(* SylannDistilledProvider asks the gate itself, with her earlier words if *)
(* the composer has none.                                                  *)
Distilled(o, corpus) ==
  IF model.state # "ready" THEN {}
  ELSE {t \in Generated : Passes(t, o, band_of(fade), IF corpus = {} THEN Earlier ELSE corpus)}

Offers(pid, o, corpus) ==
  CASE pid = "distilled" -> Distilled(o, corpus)
    [] pid = "markov"    -> Markov(corpus)
    [] pid = "template"  -> Templates(o)
    [] pid = "lexicon"   -> ToSet(shrink_pool(Lexicon[o], fade))

------------------------------------------------------------------------------
(* The variants of prosody, by band. *)
Trail(t) == IF Last(t) = Breath THEN t ELSE Append(t, Breath)
First(t, marks) == SelectInSeq(t, LAMBDA x : x \in marks)
Breathe(t) == LET i == First(t, {Comma})
              IN IF i = 0 THEN t ELSE SubSeq(t, 1, i) \o <<Breath>> \o SubSeq(t, i + 1, Len(t))
Stutter(t) == SubSeq(t, 1, IF Len(t) < 4 THEN 1 ELSE 2) \o <<Comma>> \o t
HalfStop(t) ==
  LET i == First(t, {Stop}) j == First(t, {Comma}) at == IF i > 1 THEN i ELSE j
  IN IF at > 1 THEN Append(SubSeq(t, 1, at - 1), Dash)
     ELSE IF Len(t) > 1 THEN Append(SubSeq(t, 1, Max({1, Len(t) \div 2})), Dash) ELSE t

Marked(t, b) ==
  IF b = 5 \/ ToSet(t) \subseteq {Breath} \/ Last(t) = Dash THEN {t}
  ELSE CASE b = 4 -> {t, Trail(t)}
         [] b = 3 -> {t, Breathe(t), Trail(t)}
         [] b = 2 -> {Breathe(t), Stutter(t), HalfStop(t)}
         [] b = 1 -> {HalfStop(t), t}

(* morphology.apply: a particle by her warmth, to a template only. *)
Voiced(text, o, by) ==
  {text} \cup IF by = "template" THEN {Append(text, x) : x \in Particles[o] \ ToSet(text)} ELSE {}

------------------------------------------------------------------------------
Init ==
  /\ fade = 100
  /\ model = [disk |-> "absent", state |-> "unprobed"]
  /\ uttered = Silent

(* She ages. *)
Fade ==
  /\ \E p \in Ps : p < fade /\ fade' = p
  /\ uttered' = Silent
  /\ UNCHANGED model

(* A model is trained and packed beside the program, or its files break.   *)
Train ==
  /\ \E d \in {"ready", "hash_mismatch", "unloadable"} : d # model.disk /\ model' = [model EXCEPT !.disk = d]
  /\ uttered' = Silent
  /\ UNCHANGED fade

(* The process starts anew, and with it the loader. *)
Restart ==
  /\ model' = [model EXCEPT !.state = "unprobed"]
  /\ uttered' = Silent
  /\ UNCHANGED fade

(* ModelLoader.probe looks once; a model that cannot be loaded is absent.  *)
Probed ==
  IF model.state # "unprobed" THEN model.state
  ELSE IF model.disk = "unloadable" THEN "absent" ELSE model.disk

(* May the composer go on past a provider: a model may be late or offer    *)
(* nothing that passes.                                                    *)
Passed(pid, offers, o, corpus) ==
  \/ pid = "distilled" \/ offers = {}
  \/ \E t \in offers : ~Passes(t, o, band_of(fade), corpus)

Utter(o, text, by) ==
  \E final \in IF by = "core" THEN {text}
               ELSE UNION {Voiced(m, o, by) : m \in Marked(text, band_of(fade))} :
    uttered' = [said |-> TRUE, occasion |-> o, text |-> text, final |-> final, by |-> by]

(* Composer.compose, once the loader has looked: the first offer of the    *)
(* route the gate lets pass.  The gate raises where a closure is larger    *)
(* than configured, and then the lexicon of version 0.1 answers.           *)
Speak(corpus) ==
  /\ uttered = Silent /\ model.state # "unprobed"
  /\ \E o \in Occasions :
       LET route == Route[o]
           offer == [i \in DOMAIN route |-> Offers(route[i], o, corpus)]
           large == TooLarge(o, band_of(fade))
       IN \/ \E i \in DOMAIN route :
               /\ ~large
               /\ \A j \in 1..(i - 1) : Passed(route[j], offer[j], o, corpus)
               /\ \E t \in offer[i] : Passes(t, o, band_of(fade), corpus) /\ Utter(o, t, route[i])
          \/ /\ large
             /\ \E i \in DOMAIN route : \E t \in offer[i] : ~Refused(t, o)
             /\ \E t \in ToSet(shrink_pool(SubSeq(Lexicon[o], 1, Core[o]), fade)) : Utter(o, t, "core")
          \/ /\ \A i \in DOMAIN route : Passed(route[i], offer[i], o, corpus)
             /\ large => \A i \in DOMAIN route : offer[i] = {} \/ \E t \in offer[i] : Refused(t, o)
             /\ Utter(o, <<Breath>>, "critical")
  /\ UNCHANGED <<fade, model>>

Probe ==
  /\ model.state = "unprobed"
  /\ model' = [model EXCEPT !.state = Probed]
  /\ UNCHANGED <<fade, uttered>>

(* The session manager gives the composer no corpus; the tests do. *)
Next == Fade \/ Train \/ Restart \/ Probe \/ Speak({}) \/ Speak(Earlier)

Spec == Init /\ [][Next]_vvars

------------------------------------------------------------------------------
TypeOK ==
  /\ fade \in Ps \cup {100}
  /\ model.disk \in {"absent", "ready", "hash_mismatch", "unloadable"}
  /\ model.state \in {"unprobed", "absent", "ready", "hash_mismatch"}
  /\ uttered.said => uttered.occasion \in Occasions /\ uttered.by \in Providers \cup {"core", "critical"}

(* She never finds a word again that fading took: what she says of the     *)
(* strict occasions was in reach at every p above, too, whoever offered    *)
(* it.                                                                     *)
WordsOnlyFade ==
  uttered.said /\ uttered.occasion \notin TierR /\ uttered.by \notin {"core", "critical"} =>
    \A p \in Ps \cup {100} : p >= fade => uttered.text \in Closure(uttered.occasion, band_of(p))

(* She is never mute, down to the smallest p, where one sentence is left:   *)
(* the last resort (composer.py:177-180 expects it never) is said only      *)
(* where one of the sentences p leaves her is forbidden by itself, never    *)
(* because the gate's idea of what is in reach falls short of theirs.       *)
InReach(o) == ToSet(shrink_pool(Lexicon[o], fade))
NeverMute ==
  uttered.said =>
    /\ uttered.text # <<>> /\ uttered.final # <<>>
    /\ uttered.by = "critical" => \E t \in InReach(uttered.occasion) : Refused(t, uttered.occasion)

(* The marks add no word to what the gate has seen, but for a particle.    *)
NoWordAdded ==
  uttered.said => ToSet(uttered.final) \ (ToSet(uttered.text) \cup Marks)
                    \subseteq IF uttered.by = "template" THEN Particles[uttered.occasion] ELSE {}
==============================================================================
