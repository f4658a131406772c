---------------------------- MODULE ConfigLoader ----------------------------
(***************************************************************************)
(* LoadSmsDaemonConfig (src/src/Config.cpp): the configuration file of the *)
(* daemon and of sms-send, line by line.                                   *)
(*                                                                         *)
(* A line is [form, key, value]: "blank" (empty or a comment), "bare" (no  *)
(* '='), or "setting" with its key and its value, both trimmed.            *)
(***************************************************************************)
EXTENDS Naturals, Sequences, FiniteSets, FiniteSetsExt

CONSTANTS
    Words,     \* values that say something and are not booleans
    Empty,     \* the empty value
    Default    \* the value a setting is compiled with, which is not empty

ASSUME WordsAssumption ==
    /\ Empty \notin Words \cup {"on", "off"}
    /\ Default \notin Words \cup {Empty, "on", "off"}
    /\ {"on", "off"} \cap Words = {}

Dirs == {"sms_dir", "ussd_dir"}
Plain == {"device", "job_dir", "log_file"} \cup Dirs
Keys == Plain \cup {"sms_hook", "debug"}
Values == Words \cup {Empty, "on", "off"}

Lines ==
    [form : {"blank", "bare"}, key : {"none"}, value : {Empty}]
    \cup [form : {"setting"}, key : Keys \cup {"unknown"}, value : Values]

\* The settings before the file is read: value[k] is Default or what a line gave.
Compiled == [ok |-> TRUE, value |-> [k \in Plain |-> Default], hooks |-> <<>>, debug |-> FALSE]

Refused(config) == [config EXCEPT !.ok = FALSE]

\* ParseBool knows one spelling of each here.
IsBool(value) == value \in {"on", "off"}

\* Bug: the first line of a key counts.
AssignFirst(config, key, value) ==
    IF config.value[key] = Default THEN [config EXCEPT !.value[key] = value] ELSE config

AssignValue(config, key, value) == [config EXCEPT !.value[key] = value]

\* One line; after a refused one the rest is not read.
ReadLine(config, line) ==
    CASE ~config.ok -> config
      [] config.ok /\ line.form = "blank" -> config
      [] config.ok /\ line.form = "bare" -> Refused(config)
      [] config.ok /\ line.form = "setting" /\ line.key \in Plain -> AssignValue(config, line.key, line.value)
      [] config.ok /\ line.key = "sms_hook" -> [config EXCEPT !.hooks = Append(@, line.value)]
      [] config.ok /\ line.key = "debug" ->
            IF IsBool(line.value) THEN [config EXCEPT !.debug = (line.value = "on")]
            ELSE Refused(config)
      [] config.ok /\ line.key = "unknown" -> Refused(config)

\* The settings that are tested when the file has been read.
Usable(config) ==
    /\ \A k \in Plain : config.value[k] # Empty
    /\ \A i \in DOMAIN config.hooks : config.hooks[i] # Empty

\* The settings behind each line.
ReadLines(file) ==
    LET config[n \in 0..Len(file)] == IF n = 0 THEN Compiled ELSE ReadLine(config[n - 1], file[n])
    IN  config

Load(file) ==
    LET config == ReadLines(file)[Len(file)]
    IN  IF config.ok /\ Usable(config) THEN config ELSE Refused(config)

\* smsDirConfigured, ussdDirConfigured: whether XML is written at all.
XmlEnabled(config) == {d \in Dirs : config.value[d] # Default}

-----------------------------------------------------------------------------

\* The lines of a file that give a value to a key, and the last value.
Given(file, key) == {i \in DOMAIN file : file[i].form = "setting" /\ file[i].key = key}
LastGiven(file, key) == file[Max(Given(file, key))].value

\* A line that the code can read.
Known(line) ==
    /\ line.form # "bare" /\ line.key # "unknown"
    /\ line.key = "debug" => IsBool(line.value)

\* A file is accepted if every line is one the code knows and no setting ends up
\* empty; an empty value that a later line replaces is no error.
Acceptable(file) ==
    /\ \A i \in DOMAIN file : Known(file[i])
    /\ \A k \in Plain : Given(file, k) # {} => LastGiven(file, k) # Empty
    /\ \A i \in Given(file, "sms_hook") : file[i].value # Empty

\* The hooks are those of the file, in its order.
HooksInOrder(file, hooks) ==
    LET lines == Given(file, "sms_hook")
    IN  /\ Len(hooks) = Cardinality(lines)
        /\ \A i \in lines : hooks[Cardinality({j \in lines : j <= i})] = file[i].value

\* An accepted file gives each setting the value of its last line or the compiled
\* default, and all its hooks in order (src/README.md:6 and :21).
LoadedAsWritten(file) ==
    LET config == Load(file)
    IN  /\ config.ok <=> Acceptable(file)
        /\ config.ok =>
            /\ \A k \in Plain :
                config.value[k] = IF Given(file, k) = {} THEN Default ELSE LastGiven(file, k)
            /\ HooksInOrder(file, config.hooks)
            /\ config.debug = (Given(file, "debug") # {} /\ LastGiven(file, "debug") = "on")
            /\ XmlEnabled(config) = {d \in Dirs : Given(file, d) # {}}
=============================================================================
