-------------------------------- MODULE Settings --------------------------------
(***************************************************************************)
(* load(): the configuration of a process, put together when it starts     *)
(* from its file, an older file of another name beside it, the environment *)
(* and the defaults; and what evolution, when it is on, checks before the  *)
(* process may start.                                                      *)
(*                                                                         *)
(* A key is known by how it is read, a value by what the readers make of   *)
(* it; Default stands for the default of any key.                          *)
(***************************************************************************)
EXTENDS Integers, FiniteSets

CONSTANTS Hours,       \* the hours quiet hours may begin and end at (minutes in the code)
          MaxEdits     \* bound

DayHours == 24

SettingsAssumption == Hours \subseteq 0..(DayHours - 1) /\ Hours # {} /\ MaxEdits \in Nat

(* pick_str, with and without a variable of the environment, pick_int,     *)
(* pick_float, pick_bool, the transport, the ports and the switch of       *)
(* evolution.                                                              *)
Keys == {"data_dir", "quiet_hours", "daily_cap", "velocity", "ui_enabled", "transport", "http_port",
         "evolution_enabled"}

EnvKeys == {"data_dir", "quiet_hours", "ui_enabled", "transport", "http_port"}

Bools == {"ui_enabled", "evolution_enabled"}
Ints  == {"daily_cap", "http_port"}

(* own: a good value; blank: an empty string; null; junk: a string that is *)
(* no number and no truth value; infinite: a number too large for an int.  *)
Values == {"absent", "own", "blank", "null", "junk", "infinite"}
Default == "default"

VARIABLES file,      \* yelos.config.json
          older,     \* sylanne.config.json
          env,       \* the environment
          evolved,   \* there is an evolution.overlay.json of this schema
          config,    \* what load() returned; "raised" and "down" are no configurations
          hours,     \* the quiet hours of the file, when they are its own: [start, end]
          edits      \* bound

svars == <<file, older, env, evolved, config, hours, edits>>

Down   == [status |-> "down", of |-> <<>>]
Raised == [status |-> "raised", of |-> <<>>]

TypeOK ==
  /\ file \in [Keys -> Values] /\ older \in [Keys -> Values]
  /\ env \in [EnvKeys -> Values \ {"null"}]
  /\ evolved \in BOOLEAN /\ edits \in 0..MaxEdits
  /\ hours \in [start : Hours, end : Hours]
  /\ config.status \in {"down", "raised", "up"}
  /\ config.status = "up" => DOMAIN config.of = Keys

------------------------------------------------------------------------------
(* The two files are one: a key of the own file hides the older one's,     *)
(* with whatever it says.                                                  *)
Merged == [k \in Keys |-> IF file[k] # "absent" THEN file[k] ELSE older[k]]

Env(k) == IF k \in EnvKeys THEN env[k] ELSE "absent"

Missing == {"absent", "blank"}

(* Bug: the environment is asked first. *)
PickStr_EnvFirst(k) ==
  CASE Env(k) \notin Missing -> Env(k)
    [] Env(k) \in Missing /\ Merged[k] \notin Missing -> Merged[k]
    [] OTHER -> Default

(* pick_str: the first that is not blank; null is the string "None".       *)
PickStr(k) ==
  CASE Merged[k] \notin Missing -> Merged[k]
    [] Merged[k] \in Missing /\ Env(k) \notin Missing -> Env(k)
    [] OTHER -> Default

(* _as_int: int() of an infinite number is no error it catches. *)
AsInt(v) == CASE v = "own"      -> "own"
              [] v = "infinite" -> "overflow"
              [] OTHER          -> Default

PickInt(k) == AsInt(Merged[k])

(* Both ports: the environment first, and what it says is not looked       *)
(* behind.  A variable is text, for which infinity is no integer either.   *)
PickPort(k) ==
  IF Env(k) \notin Missing THEN IF Env(k) = "own" THEN "env" ELSE Default
  ELSE AsInt(Merged[k])

(* pick_float takes an infinite number for what it is. *)
PickFloat(k) == IF Merged[k] \in {"own", "infinite"} THEN Merged[k] ELSE Default

(* pick_bool: a key in the file hides the environment, with junk too. *)
PickBool(k) ==
  CASE Merged[k] = "own"      -> "own"
    [] Merged[k] = "infinite" -> "own"
    [] Merged[k] = "absent" /\ Env(k) = "own" -> "own"
    [] OTHER -> Default

Picked(k) ==
  CASE k \in Bools       -> PickBool(k)
    [] k = "http_port"   -> PickPort(k)
    [] k = "daily_cap"   -> PickInt(k)
    [] k = "velocity"    -> PickFloat(k)
    [] k = "transport"   -> IF PickStr(k) = "own" THEN "own" ELSE Default
    [] OTHER             -> PickStr(k)

Configured == [k \in Keys |-> Picked(k)]

(* _validate_evolution_overlay: with an overlay there, what the registry   *)
(* calls the defaults of its genes is compared with what the configuration *)
(* says of the same keys, and the process does not start when they differ. *)
Poisoned(c) ==
  /\ c["evolution_enabled"] = "own" /\ evolved
  /\ c["daily_cap"] # Default \/ c["quiet_hours"] # Default

Overflows(c) == \E k \in Ints : c[k] = "overflow"

------------------------------------------------------------------------------
(* load() *)
Load ==
  /\ config = Down
  /\ config' = IF Overflows(Configured) \/ Poisoned(Configured) THEN Raised
               ELSE [status |-> "up", of |-> Configured]
  /\ UNCHANGED <<file, older, env, evolved, hours, edits>>

Stop ==
  /\ config # Down /\ config' = Down
  /\ UNCHANGED <<file, older, env, evolved, hours, edits>>

Edits == config = Down /\ edits < MaxEdits /\ edits' = edits + 1 /\ UNCHANGED config

WriteFile(k, v)  == Edits /\ file' = [file EXCEPT ![k] = v]
                    /\ UNCHANGED <<older, env, evolved, hours>>
WriteOlder(k, v) == Edits /\ older' = [older EXCEPT ![k] = v]
                    /\ UNCHANGED <<file, env, evolved, hours>>
Export(k, v)     == Edits /\ env' = [env EXCEPT ![k] = v]
                    /\ UNCHANGED <<file, older, evolved, hours>>
Evolve           == Edits /\ ~evolved /\ evolved' = TRUE
                    /\ UNCHANGED <<file, older, env, hours>>

Rest(s, e) ==
  /\ hours # [start |-> s, end |-> e] /\ Edits
  /\ hours' = [start |-> s, end |-> e] /\ file' = [file EXCEPT !["quiet_hours"] = "own"]
  /\ UNCHANGED <<older, env, evolved>>

None(set) == [k \in set |-> "absent"]

Init ==
  /\ file = None(Keys) /\ older = None(Keys) /\ env = None(EnvKeys)
  /\ evolved = FALSE /\ config = Down /\ edits = 0
  /\ hours = CHOOSE h \in [start : Hours, end : Hours] : h.start = h.end

Next ==
  \/ Load \/ Stop \/ Evolve
  \/ \E k \in Keys, v \in Values : WriteFile(k, v) \/ WriteOlder(k, v)
  \/ \E k \in EnvKeys, v \in Values \ {"null"} : Export(k, v)
  \/ \E s, e \in Hours : Rest(s, e)

Spec == Init /\ [][Next]_svars

------------------------------------------------------------------------------
Up == config.status = "up"

(* in_quiet_hours: on the clock, with the fallback of quiet_minutes for    *)
(* what is no pair of times.                                               *)
Quiet == CASE config.of["quiet_hours"] = "own" -> hours
           [] OTHER -> [start |-> 1, end |-> 8]

InQuietHours(h) ==
  LET qs == Quiet.start  qe == Quiet.end
  IN \/ qs < qe /\ qs <= h /\ h < qe
     \/ qs > qe /\ (h >= qs \/ h < qe)

------------------------------------------------------------------------------
(* "The file before the environment before the default", for every key     *)
(* but the two ports: whichever is set and can be read, none of a lower    *)
(* rank is taken (load; pick_bool does not look behind junk in the file).  *)
FileBeforeEnv ==
  Up => \A k \in EnvKeys \ {"http_port"} :
          /\ Merged[k] = "own" => config.of[k] = "own"
          /\ Merged[k] = "absent" /\ env[k] = "own" => config.of[k] = "own"

(* The same, for every key that has a variable. *)
FileBeforeEnvAlways ==
  Up /\ file["http_port"] = "own" => config.of["http_port"] = "own"

(* A start that is refused is one of evolution, or of a number that no     *)
(* integer holds; whatever else is wrong with a key costs that key alone.  *)
RefusedForCause ==
  config = Raised =>
    \/ evolved /\ Merged["evolution_enabled"] \in {"own", "infinite"}
    \/ \E k \in Ints : Merged[k] = "infinite"

(* "Whatever a single key holds, it falls back to its default; load never  *)
(* raises: one bad cell must not keep her from waking."                    *)
AwakesAnyway == config # Raised

(* The quiet hours last from their beginning to their end around the       *)
(* clock: not at all when the two are one.                                 *)
QuietAround ==
  Up => Cardinality({h \in 0..(DayHours - 1) : InQuietHours(h)}) = (Quiet.end - Quiet.start) % DayHours
=================================================================================
