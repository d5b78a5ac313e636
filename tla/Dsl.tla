---------------------------------- MODULE Dsl ----------------------------------
(***************************************************************************)
(* The text of a scenario: a tree of mappings, lists and scalars is dumped *)
(* to lines of an indent and a text, and parsed back from them.            *)
(*                                                                         *)
(* A mapping is a sequence of entries, for a dictionary keeps their order. *)
(* A string is known by what the parser could take it for.                 *)
(***************************************************************************)
EXTENDS Integers, Sequences, SequencesExt

CONSTANTS Strings,    \* the strings of a scenario
          MaxWidth    \* bound: entries of a mapping, items of a list

(* plain: nothing else; digits: an integer; word_true: true or false;      *)
(* colon: has ": "; ends_colon: ends in ":"; hash: has a #; padded: spaces *)
(* at its ends; empty: no character; braces: {} or []; dash: starts with   *)
(* "- "; quote: ends in a quote.                                           *)
Kinds == {"plain", "digits", "word_true", "colon", "ends_colon", "hash", "padded", "empty",
          "braces", "dash", "quote"}

DslAssumption == Strings \subseteq Kinds /\ MaxWidth \in Nat \ {0}

VARIABLES tree,     \* the scenario that is dumped
          script    \* its lines

dvars == <<tree, script>>

Leaf(kind)     == [node |-> "leaf", kind |-> kind, of |-> <<>>]
Mapping(es)    == [node |-> "map", kind |-> "", of |-> es]
Items(is)      == [node |-> "list", kind |-> "", of |-> is]
Entry(key, v)  == [key |-> key, value |-> v]
Fail           == [node |-> "fail", kind |-> "", of |-> <<>>]

IsFail(v) == v.node = "fail"

(* Leaves: the strings, and the integers and truth values. *)
Scalars == {Leaf(k) : k \in Strings \cup {"int", "bool"}}

------------------------------------------------------------------------------
(* _dump_scalar: what needs them gets quotes, but a string of digits, an   *)
(* empty one and a pair of braces get none.                                *)
Quoted(kind) == kind \in {"word_true", "colon", "ends_colon", "hash", "padded"}

Text(leaf) == [kind |-> leaf.kind, quoted |-> Quoted(leaf.kind)]

(* _parse_scalar, of what _tokenize left: a comment starts at any #, and   *)
(* the rest of the line is gone, the closing quote with it.                *)
Value(text) ==
  CASE text.kind = "hash"                          -> Fail
    [] text.kind = "quote"                         -> Fail
    [] text.kind \in {"empty", "braces"}           -> Mapping(<<>>)
    [] text.kind = "digits"                        -> Leaf("int")
    [] text.kind = "word_true" /\ ~text.quoted     -> Leaf("bool")
    [] OTHER                                       -> Leaf(text.kind)

(* A line: its indent, a dash before it, its key, and what follows the     *)
(* colon: a scalar, {}, [], or nothing.                                    *)
Line(indent, dash, key, rest) == [indent |-> indent, dash |-> dash, key |-> key, rest |-> rest]

Nothing    == [kind |-> "nothing", quoted |-> FALSE]
NoEntries  == [kind |-> "braces", quoted |-> FALSE]
NoItems    == [kind |-> "brackets", quoted |-> FALSE]
NoKey      == "-"

RECURSIVE DumpMap(_, _), DumpList(_, _)

(* _dump_block *)
DumpMap(es, indent) ==
  LET One(e) ==
        CASE e.value.node = "leaf" -> <<Line(indent, FALSE, e.key, Text(e.value))>>
          [] e.value.node = "map" /\ e.value.of = <<>> -> <<Line(indent, FALSE, e.key, NoEntries)>>
          [] e.value.node = "map" /\ e.value.of # <<>> ->
               <<Line(indent, FALSE, e.key, Nothing)>> \o DumpMap(e.value.of, indent + 2)
          [] e.value.node = "list" /\ e.value.of = <<>> -> <<Line(indent, FALSE, e.key, NoItems)>>
          [] e.value.node = "list" /\ e.value.of # <<>> ->
               <<Line(indent, FALSE, e.key, Nothing)>> \o DumpList(e.value.of, indent + 2)
  IN FlattenSeq([i \in DOMAIN es |-> One(es[i])])

(* _dump_list: the first entry of a mapping stands behind the dash.        *)
DumpList(is, indent) ==
  LET One(v) ==
        CASE v.node = "leaf" -> <<Line(indent, TRUE, NoKey, Text(v))>>
          [] v.node = "map" /\ v.of = <<>> -> <<Line(indent, TRUE, NoKey, NoEntries)>>
          [] v.node = "map" /\ v.of # <<>> ->
               <<Line(indent, TRUE, v.of[1].key, Text(v.of[1].value))>>
               \o DumpMap(Tail(v.of), indent + 2)
  IN FlattenSeq([i \in DOMAIN is |-> One(is[i])])

(* The structures it raises for. *)
RECURSIVE Dumpable(_)
Dumpable(v) ==
  CASE v.node = "leaf" -> TRUE
    [] v.node = "map"  -> \A i \in DOMAIN v.of : Dumpable(v.of[i].value)
    [] v.node = "list" -> \A i \in DOMAIN v.of :
                            /\ v.of[i].node # "list"
                            /\ v.of[i].node = "map" /\ v.of[i].of # <<>> =>
                                 v.of[i].of[1].value.node = "leaf"
                            /\ Dumpable(v.of[i])

------------------------------------------------------------------------------
(* A line whose key has nothing behind it is a block: an empty string too. *)
Bare(l) == l.rest.kind \in {"nothing", "empty"}

Scalar(l) == IF l.rest.kind = "brackets" THEN Items(<<>>) ELSE Value(l.rest)

(* How many of the lines from i on are indented deeper than this one.      *)
Inner(ls, i, indent) ==
  LET rest == {j \in i..Len(ls) : ls[j].indent <= indent}
  IN IF rest = {} THEN Len(ls) + 1 ELSE CHOOSE j \in rest : \A k \in rest : j <= k

RECURSIVE ParseMap(_), ParseList(_)

ParseBlock(ls) ==
  IF ls = <<>> THEN Mapping(<<>>)
  ELSE IF ls[1].dash THEN ParseList(ls) ELSE ParseMap(ls)

(* _parse_map: its lines stand at the indent of the first, their blocks    *)
(* deeper.                                                                 *)
ParseMap(ls) ==
  IF ls = <<>> THEN Mapping(<<>>)
  ELSE LET end   == Inner(ls, 2, ls[1].indent)
           value == IF Bare(ls[1]) THEN ParseBlock(SubSeq(ls, 2, end - 1)) ELSE Scalar(ls[1])
           rest  == ParseMap(SubSeq(ls, end, Len(ls)))
       IN IF IsFail(value) \/ IsFail(rest) \/ (~Bare(ls[1]) /\ end > 2) THEN Fail
          ELSE Mapping(<<Entry(ls[1].key, value)>> \o rest.of)

(* _parse_list: an item with a colon in it is a mapping, and so is a       *)
(* quoted string that has one; of an empty one the dash alone is left.     *)
ParseList(ls) ==
  IF ls = <<>> THEN Items(<<>>)
  ELSE LET end  == Inner(ls, 2, ls[1].indent)
           item == CASE ls[1].key # NoKey ->
                          ParseMap(<<[ls[1] EXCEPT !.dash = FALSE, !.indent = @ + 2]>>
                                   \o SubSeq(ls, 2, end - 1))
                     [] ls[1].key = NoKey /\ ls[1].rest.kind \in {"colon", "empty"} -> Fail
                     [] OTHER -> Scalar(ls[1])
           rest == ParseList(SubSeq(ls, end, Len(ls)))
       IN IF IsFail(item) \/ IsFail(rest) THEN Fail ELSE Items(<<item>> \o rest.of)

Parsed(ls) == ParseMap(ls)

------------------------------------------------------------------------------
(* Scenarios grow an event at a time; a payload holds scalars, an empty    *)
(* mapping or a list of scalars.                                           *)
Payloads ==
  {Mapping(<<>>)} \cup {Mapping(<<Entry("text_key", v)>>) : v \in Scalars}
    \cup {Mapping(<<Entry("text_key", Leaf("plain")), Entry("notes", Items(<<v>>))>>) : v \in Scalars}

Event(payload) ==
  Mapping(<<Entry("at_min", Leaf("int")), Entry("kind", Leaf("plain")), Entry("payload", payload)>>)

Day(es) == Mapping(<<Entry("day_index", Leaf("int")), Entry("events", Items(es))>>)

(* _scenario_to_dict *)
ScenarioTree(days) ==
  Mapping(<<Entry("scenario_id", Leaf("plain")), Entry("mode", Leaf("plain")),
            Entry("config", Mapping(<<>>)), Entry("days", Items(days))>>)

Days == tree.of[4].value.of

Dumped(t) == tree' = t /\ script' = DumpMap(t.of, 0)

AddDay == Len(Days) < MaxWidth /\ Dumped(ScenarioTree(Append(Days, Day(<<>>))))

AddEvent(payload) ==
  /\ Days # <<>>
  /\ LET es == Last(Days).of[2].value.of
     IN /\ Len(es) < MaxWidth
        /\ Dumped(ScenarioTree(Append(Front(Days), Day(Append(es, Event(payload))))))

Init ==
  /\ tree = ScenarioTree(<<>>)
  /\ script = DumpMap(tree.of, 0)

Next == AddDay \/ (\E p \in Payloads : AddEvent(p))

Spec == Init /\ [][Next]_dvars

------------------------------------------------------------------------------
RECURSIVE Leaves(_)
Leaves(v) ==
  CASE v.node = "leaf" -> {v.kind}
    [] v.node = "map"  -> UNION {Leaves(v.of[i].value) : i \in DOMAIN v.of}
    [] v.node = "list" -> UNION {Leaves(v.of[i]) : i \in DOMAIN v.of}

Listed ==
  UNION {LET p == es[i].of[3].value IN IF Len(p.of) = 2 THEN Leaves(p.of[2].value) ELSE {} :
           <<es, i>> \in UNION {{<<Days[d].of[2].value.of, i>> :
                                  i \in DOMAIN Days[d].of[2].value.of} : d \in DOMAIN Days}}

(* What the quotes were made for: words that look like a truth value,      *)
(* colons and spaces.                                                      *)
Safe == {"plain", "word_true", "colon", "ends_colon", "padded", "dash", "int", "bool"}

(* parse(dump(s)) = s, for the strings that come through.                  *)
RoundTrip ==
  Leaves(tree) \subseteq Safe /\ "colon" \notin Listed => Parsed(script) = tree

(* The same for every scenario, as the head of the module promises it: a   *)
(* string of digits comes back a number, an empty one a mapping, and one   *)
(* with a # not at all.                                                    *)
RoundTripAlways == Parsed(script) = tree
================================================================================
