-------------------------------- MODULE Hearing --------------------------------
(***************************************************************************)
(* What the affect engine hears of one session: the user's turns, awaited  *)
(* under the lock; her own words, fed back by tasks that run outside it;   *)
(* and the shadow, a second engine session that is to hear the user only.  *)
(* affect_reset empties both, the farewell neither.  An answer of the      *)
(* engine is a glance at what it has heard.                                *)
(***************************************************************************)
EXTENDS Integers, FiniteSets

CONSTANTS Texts,
          FirstMode,     \* default_mode of a life nobody bound
          Silence,       \* ticks a pause lasts
          Window,        \* ticks in which a text is of one direction (intrinsic_interval_seconds)
          MaxTurns, MaxFeeds, MaxResets, MaxLives, MaxMoment, MaxTrouble   \* bounds

HearingAssumption ==
  /\ FirstMode \in {"steward", "companion"}
  /\ {Silence, Window, MaxTurns, MaxFeeds, MaxResets, MaxLives, MaxMoment, MaxTrouble} \subseteq Nat

VARIABLES soul, soulDisk,   \* the record, in memory and in bindings.json
          notes,            \* _recent_submit: who said a text last, and when
          feeds,            \* _tasks: words of hers on their way to the engine
          glance,           \* _surface_cache, as what the engine had heard
          heard,            \* the engine: what main and shadow session remember
          call,             \* the handler that awaits the engine under the lock
          moment, tale      \* the clock; history

hvars == <<soul, soulDisk, notes, feeds, glance, heard, call, moment, tale>>

Nobody == [life |-> 0, sealed |-> FALSE, mode |-> FirstMode, quiet |-> 0]
NoCall == [at |-> "none"]

Entries == [by : {"user", "her"}, text : Texts, resets : 0..MaxResets]

TypeOK ==
  /\ {soul, soulDisk} \subseteq [life : 0..MaxLives, sealed : BOOLEAN, mode : {"steward", "companion"}, quiet : Nat]
  /\ \A t \in DOMAIN notes : t \in Texts /\ notes[t] \in [by : {"user", "her"}, on : 0..MaxMoment]
  /\ feeds \subseteq Entries /\ heard.main \subseteq Entries /\ heard.shadow \subseteq Entries
  /\ glance \subseteq Entries /\ call.at \in {"none", "main", "shadow", "reset main", "reset shadow"}

------------------------------------------------------------------------------
Bound    == soul.life > 0 /\ ~soul.sealed
Hushed   == moment < soul.quiet
Idle     == call.at = "none"
Entry(by, t) == [by |-> by, text |-> t, resets |-> tale.resets]

(* The notes that are still in the window, and the last word on t.          *)
Fresh(t, by, on) ==
  LET live == {u \in DOMAIN notes : on - notes[u].on <= Window}
  IN [u \in live \cup {t} |-> IF u = t THEN [by |-> by, on |-> on] ELSE notes[u]]

Conflict(t, by, on) == t \in DOMAIN notes /\ on - notes[t].on <= Window /\ notes[t].by # by

(* A turn of the user; with nobody bound, a life begins on the way.         *)
UserTurn(t) ==
  /\ Idle /\ tale.turns < MaxTurns /\ ~soul.sealed
  /\ soul' = IF soul.life > 0 THEN soul ELSE [soul EXCEPT !.life = 1]
  /\ call' = [at |-> "main", text |-> t, on |-> moment]
  /\ tale' = [tale EXCEPT !.turns = @ + 1]
  /\ UNCHANGED <<soulDisk, notes, feeds, glance, heard, moment>>

(* The engine has heard it; the direction is noted, and the shadow is told  *)
(* what is hers to hear.                                                    *)
MainAnswers ==
  /\ call.at = "main"
  /\ LET t == call.text
         held == soul.mode = "companion" /\ Conflict(t, "user", call.on)
     IN /\ heard' = [heard EXCEPT !.main = @ \cup {Entry("user", t)}]
        /\ glance' = heard'.main
        /\ notes' = Fresh(t, "user", call.on)
        /\ IF soul.mode = "companion" /\ ~held
           THEN call' = [call EXCEPT !.at = "shadow"] /\ UNCHANGED soulDisk
           ELSE call' = NoCall /\ soulDisk' = soul
        /\ tale' = [tale EXCEPT !.held[t] = @ + IF held THEN 1 ELSE 0]
  /\ UNCHANGED <<soul, feeds, moment>>

ShadowAnswers ==
  /\ call.at = "shadow"
  /\ heard' = [heard EXCEPT !.shadow = @ \cup {Entry("user", call.text)}]
  /\ call' = NoCall /\ soulDisk' = soul
  /\ UNCHANGED <<soul, notes, feeds, glance, moment, tale>>

Feed(t) == Cardinality(feeds) < MaxFeeds /\ feeds' = feeds \cup {Entry("her", t)}

(* submit with speaker = agent: fed and noted, in silence too.              *)
AgentTurn(t) ==
  /\ Idle /\ tale.turns < MaxTurns /\ ~soul.sealed
  /\ soul' = IF soul.life > 0 THEN soul ELSE [soul EXCEPT !.life = 1]
  /\ Feed(t) /\ notes' = Fresh(t, "her", moment) /\ soulDisk' = soul'
  /\ tale' = [tale EXCEPT !.turns = @ + 1, !.echo[t] = @ + 1]
  /\ UNCHANGED <<glance, heard, call, moment>>

(* A draft that passed, or a word that was drained: fed, not noted.         *)
Said(t) ==
  /\ Idle /\ tale.turns < MaxTurns /\ Bound /\ soul.mode = "companion" /\ ~Hushed
  /\ Feed(t) /\ soulDisk' = soul
  /\ tale' = [tale EXCEPT !.turns = @ + 1]
  /\ UNCHANGED <<soul, notes, glance, heard, call, moment>>

(* A task of _feed reaches the engine, or raises, whoever holds the lock.   *)
FeedArrives(f) ==
  /\ f \in feeds /\ feeds' = feeds \ {f}
  /\ heard' = [heard EXCEPT !.main = @ \cup {f}]
  /\ UNCHANGED <<soul, soulDisk, notes, glance, call, moment, tale>>

FeedRaises(f) ==
  /\ f \in feeds /\ feeds' = feeds \ {f}
  /\ UNCHANGED <<soul, soulDisk, notes, glance, heard, call, moment, tale>>

(* affect_tick, or the tick of a heartbeat.                                 *)
Tick ==
  /\ Idle /\ Bound
  /\ glance' = heard.main
  /\ UNCHANGED <<soul, soulDisk, notes, feeds, heard, call, moment, tale>>

Pause ==
  /\ Idle /\ Bound
  /\ soul' = [soul EXCEPT !.quiet = moment + Silence] /\ soulDisk' = soul'
  /\ UNCHANGED <<notes, feeds, glance, heard, call, moment, tale>>

(* affect_bind: a new life after a sealed one, or a companion from now on.  *)
Bind(mode) ==
  /\ Idle
  /\ \/ Bound /\ soul' = [soul EXCEPT !.mode = IF mode = "companion" THEN mode ELSE @]
     \/ ~Bound /\ soul.life < MaxLives
        /\ soul' = [life |-> soul.life + 1, sealed |-> FALSE, mode |-> mode, quiet |-> 0]
  /\ soulDisk' = soul'
  /\ UNCHANGED <<notes, feeds, glance, heard, call, moment, tale>>

Evicted == glance' = {} /\ notes' = [t \in {} |-> 0]

(* affect_reset empties the main session, then the shadow's, then the       *)
(* caches.                                                                  *)
Reset ==
  /\ Idle /\ Bound /\ tale.resets < MaxResets
  /\ call' = [at |-> "reset main"]
  /\ UNCHANGED <<soul, soulDisk, notes, feeds, glance, heard, moment, tale>>

MainEmptied ==
  /\ call.at = "reset main"
  /\ heard' = [heard EXCEPT !.main = {}]
  /\ call' = [at |-> "reset shadow"]
  /\ UNCHANGED <<soul, soulDisk, notes, feeds, glance, moment, tale>>

ShadowEmptied ==
  /\ call.at = "reset shadow"
  /\ heard' = [heard EXCEPT !.shadow = {}]
  /\ Evicted /\ call' = NoCall
  /\ tale' = [tale EXCEPT !.resets = @ + 1, !.late = @ \cup feeds \cup heard.main]
  /\ UNCHANGED <<soul, soulDisk, feeds, moment>>

(* The second step of the farewell; when its save raises, she is sealed in  *)
(* memory alone and the caches stay.                                        *)
Seal ==
  /\ Idle /\ Bound
  /\ soul' = [soul EXCEPT !.sealed = TRUE]
  /\ \/ soulDisk' = soul' /\ Evicted /\ UNCHANGED tale
     \/ /\ tale.trouble < MaxTrouble /\ tale' = [tale EXCEPT !.trouble = @ + 1]
        /\ UNCHANGED <<soulDisk, notes, glance>>
  /\ UNCHANGED <<feeds, heard, call, moment>>

(* The engine raises: the handler ends where it stands, nothing is saved.   *)
Raises ==
  /\ ~Idle /\ call' = NoCall
  /\ tale.trouble < MaxTrouble /\ tale' = [tale EXCEPT !.trouble = @ + 1]
  /\ UNCHANGED <<soul, soulDisk, notes, feeds, glance, heard, moment>>

(* The process ends and starts again: close cancels the tasks and saves, a  *)
(* kill does not.  The engine keeps its own directory.                      *)
Restart ==
  /\ \/ Idle /\ soulDisk' = soul /\ soul' = soul /\ UNCHANGED tale
     \/ /\ tale.trouble < MaxTrouble /\ tale' = [tale EXCEPT !.trouble = @ + 1]
        /\ soul' = soulDisk /\ UNCHANGED soulDisk
  /\ feeds' = {} /\ Evicted /\ call' = NoCall
  /\ UNCHANGED <<heard, moment>>

Pass ==
  /\ moment < MaxMoment /\ moment' = moment + 1
  /\ UNCHANGED <<soul, soulDisk, notes, feeds, glance, heard, call, tale>>

Init ==
  /\ soul = Nobody /\ soulDisk = Nobody /\ feeds = {} /\ glance = {} /\ call = NoCall /\ moment = 0
  /\ notes = [t \in {} |-> 0] /\ heard = [main |-> {}, shadow |-> {}]
  /\ tale = [turns |-> 0, resets |-> 0, trouble |-> 0, late |-> {},
             held |-> [t \in Texts |-> 0], echo |-> [t \in Texts |-> 0]]

Next ==
  \/ \E t \in Texts : UserTurn(t) \/ AgentTurn(t) \/ Said(t)
  \/ \E f \in feeds : FeedArrives(f) \/ FeedRaises(f)
  \/ \E m \in {"steward", "companion"} : Bind(m)
  \/ MainAnswers \/ ShadowAnswers \/ Tick \/ Pause
  \/ Reset \/ MainEmptied \/ ShadowEmptied \/ Seal \/ Raises \/ Restart \/ Pass

Spec == Init /\ [][Next]_hvars

------------------------------------------------------------------------------
(* After a reset the engine holds nothing that was said before it, but for  *)
(* words of hers that were on their way: feed_back runs outside the lock,   *)
(* and no call of reset_session cancels it.                                 *)
ResetForgets ==
  \A e \in heard.main \cup heard.shadow :
    e.resets < tale.resets => e.by = "her" /\ e \in tale.late

(* The shadow never knows of a user's turn the engine itself has not heard  *)
(* or has forgotten: submit tells it second and reset_session empties it    *)
(* with the other, unless one of the calls raised.                          *)
ShadowKnowsNoMore == tale.trouble = 0 /\ Idle => heard.shadow \subseteq heard.main

(* What she decides from is not what a reset has taken from the engine      *)
(* (_cache_evict).                                                          *)
GlanceOfNow == tale.trouble = 0 /\ Idle => glance \subseteq heard.main

(* A turn of the user is kept from the shadow on account of an agent that   *)
(* submitted the same text, and each such submission costs the shadow one   *)
(* turn at most (_note_submit).                                             *)
HeldForEcho == \A t \in Texts : tale.held[t] <= tale.echo[t]
================================================================================
