----------------------------- MODULE SettingsFile -----------------------------
(***************************************************************************)
(* The settings in config.toml (core, config/mod.rs; the settings of the   *)
(* desktop in ffi; init of the CLI).                                       *)
(*                                                                         *)
(* The two settings windows, the CLI and every plugin load the whole file; *)
(* a save loads it, changes its own settings and writes all of them.       *)
(* There is no lock, and the file is rewritten in place: it is empty for a *)
(* moment, and a write that fails or is killed leaves a part of it, which  *)
(* parses, with defaults for the rest, or does not.                        *)
(***************************************************************************)
CONSTANTS
    Settings,
    Window,    \* the settings a save changes, by command
    Values, Absent,
    Default,   \* the value a setting has that the file does not say
    Callers    \* threads of the desktop, the CLI and the plugins

Commands == {"read", "app", "ui", "init"}
Full == [Settings -> Values]
Blank == [s \in Settings |-> Absent]

VARIABLES
    file,    \* config.toml: "missing", "garbled" or "text"
    text,    \* what it says
    at,      \* where a caller is
    command, \* what it has called
    wanted,  \* the settings it is to save
    copy,    \* the settings it has loaded or is to write
    said,    \* what was last saved, or there at first (history)
    met      \* a save met another or failed half way (history)

disk == <<file, text>>
settings == <<disk, at, command, wanted, copy, said, met>>

\* With a copy of the settings that it is going to write.
ToWrite == {"create", "created", "set", "truncate", "write"}

SettingsType ==
    /\ file \in {"missing", "garbled", "text"}
    /\ text \in [Settings -> Values \cup {Absent}]
    /\ at \in [Callers -> {"idle", "load", "loaded"} \cup ToWrite]
    /\ command \in [Callers -> Commands]
    /\ wanted \in [Callers -> Full] /\ copy \in [Callers -> Full]
    /\ said \in Full /\ met \in BOOLEAN

\* from_config_file.
Resolve(t) == [s \in Settings |-> IF t[s] = Absent THEN Default[s] ELSE t[s]]

SettingsInit ==
    /\ file \in {"missing", "text"}
    /\ text \in [Settings -> Values \cup {Absent}] /\ (file = "missing" => text = Blank)
    /\ at = [c \in Callers |-> "idle"] /\ command = [c \in Callers |-> "read"]
    /\ wanted = [c \in Callers |-> Default] /\ copy = [c \in Callers |-> Default]
    /\ said = Resolve(text) /\ met = FALSE

Turn(c, place) == at' = [at EXCEPT ![c] = place]

\* A copy that is taken while another is to be written, or is to be written itself.
Meets(c) == \E o \in Callers \ {c} : at[o] \in ToWrite

-----------------------------------------------------------------------------
\* A command begins; the values of a window are those it shows.
Call(c, what, values) ==
    /\ at[c] = "idle"
    /\ Turn(c, "load")
    /\ command' = [command EXCEPT ![c] = what]
    /\ wanted' = [wanted EXCEPT ![c] = values]
    /\ UNCHANGED <<disk, copy, said, met>>

\* load_from_path: a file that is missing is written, with the defaults.
Missing(c) ==
    /\ at[c] = "load" /\ file = "missing"
    /\ Turn(c, "create")
    /\ copy' = [copy EXCEPT ![c] = Default]
    /\ met' = (met \/ Meets(c))
    /\ UNCHANGED <<disk, command, wanted, said>>

\* A caller that only reads has its answer.
Load(c) ==
    /\ at[c] = "load" /\ file = "text"
    /\ Turn(c, IF command[c] = "read" THEN "loaded" ELSE "set")
    /\ copy' = [copy EXCEPT ![c] = Resolve(text)]
    /\ met' = (met \/ (command[c] # "read" /\ Meets(c)))
    /\ UNCHANGED <<disk, command, wanted, said>>

\* The setters of a command; a value that is not valid ends it before the write.
Set(c) ==
    /\ at[c] = "set"
    /\ Turn(c, "truncate")
    /\ copy' = [copy EXCEPT ![c] =
                   [s \in Settings |-> IF s \in Window[command[c]] THEN wanted[c][s] ELSE @[s]]]
    /\ UNCHANGED <<disk, command, wanted, said, met>>

\* save: fs::write opens the file and empties it ...
Truncate(c) ==
    /\ at[c] \in {"create", "truncate"}
    /\ Turn(c, IF at[c] = "create" THEN "created" ELSE "write")
    /\ file' = "text" /\ text' = Blank
    /\ UNCHANGED <<command, wanted, copy, said, met>>

\* ... and writes from its start, over what another has written since, which may be longer.
Write(c) ==
    /\ at[c] \in {"created", "write"}
    /\ \/ file' = "text"
       \/ <<file, text>> # <<"text", Blank>> /\ file' = "garbled"
    /\ text' = copy[c]
    /\ said' = copy[c]
    /\ Turn(c, IF at[c] = "write" THEN "idle"
               ELSE IF command[c] = "read" THEN "loaded" ELSE "set")
    /\ UNCHANGED <<command, wanted, copy, met>>

\* The answer of load is used.
Return(c) ==
    /\ at[c] = "loaded"
    /\ Turn(c, "idle")
    /\ UNCHANGED <<disk, command, wanted, copy, said, met>>

\* An error, of a file that does not parse too, or the end of the process.  A value that
\* is cut off may be another one.
GiveUp(c) ==
    /\ at[c] # "idle"
    /\ Turn(c, "idle")
    /\ IF at[c] \in {"created", "write"}
       THEN /\ file' \in {"text", "garbled"}
            /\ text' \in [Settings -> Values \cup {Absent}]
            /\ met' = TRUE
       ELSE UNCHANGED <<disk, met>>
    /\ UNCHANGED <<command, wanted, copy, said>>

SettingsStep(c) ==
    \/ \E what \in Commands, values \in Full : Call(c, what, values)
    \/ Missing(c) \/ Load(c) \/ Set(c) \/ Truncate(c) \/ Write(c) \/ Return(c) \/ GiveUp(c)

SettingsNext == \E c \in Callers : SettingsStep(c)

SettingsSpec == SettingsInit /\ [][SettingsNext]_settings

-----------------------------------------------------------------------------
(* Unless saves met or failed, no setting is lost: between two writes the  *)
(* file says what each setting was last saved as, by whichever window.     *)
SettingsKept ==
    ~met /\ (\A c \in Callers : at[c] \notin {"created", "write"}) =>
        file # "garbled" /\ Resolve(text) = said

(* A save leaves the settings alone that are not in its window.            *)
OnlyItsWindow ==
    [][\A c \in Callers : at[c] = "write" /\ at'[c] = "idle" /\ ~met' =>
          \A s \in Settings : s \notin Window[command[c]] => said'[s] = said[s]]_settings
=============================================================================
