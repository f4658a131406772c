---------------------------- MODULE CommandTable ----------------------------
(***************************************************************************)
(* The dispatcher of src/sms-app/sms-cmd.sh, one run of which answers one  *)
(* SMS: the modules of commands.d are sourced in the order of their names  *)
(* and each registers its command; then the sender, the request, the       *)
(* command and its level are checked and the command's handler runs.       *)
(***************************************************************************)
EXTENDS Integers, Sequences

CONSTANTS
    UserAccess,  \* user_access: number -> level, 0 for a blocked number
    BadSenders,   \* the senders that are not "+" and digits
    Strangers,   \* senders that user_access does not have
    Blank,       \* a request of white space only
    CommandNames, CommandHandlers, CommandLevels,
    MaxModules   \* bound: modules in commands.d

ASSUME CommandAssumption ==
    /\ UserAccess \in [DOMAIN UserAccess -> Int] /\ DOMAIN UserAccess \cap Strangers = {}
    /\ CommandLevels \subseteq Nat /\ Blank \notin CommandNames /\ MaxModules \in Nat

Senders == DOMAIN UserAccess \cup Strangers

\* A module: the command's name, its handler, the required level, whether the module
\* defines that function (its body is then the module's own) or relies on one that was
\* sourced before it, and whether the registration has all its parts and a numeric level.
CommandModules ==
    [name : CommandNames, handler : CommandHandlers, level : CommandLevels,
     defines : BOOLEAN, valid : BOOLEAN]

VARIABLES
    modules,           \* (history) the modules sourced so far
    body,              \* functions of the shell: handler -> the module it is from
    command_handlers,
    command_levels,
    command_order,
    sender,            \* of the SMS, as the command word of its request
    command,
    verdict,           \* how the run ended, "none" as long as it goes on
    ran                \* the module whose function has been run, or 0

tableVars == <<modules, body, command_handlers, command_levels, command_order>>
requestVars == <<sender, command, verdict, ran>>
commandVars == <<modules, body, command_handlers, command_levels, command_order,
                 sender, command, verdict, ran>>

TInit ==
    /\ modules = <<>> /\ body = <<>>
    /\ command_handlers = <<>> /\ command_levels = <<>> /\ command_order = <<>>
    /\ sender \in Senders /\ command \in CommandNames \cup {Blank}
    /\ verdict = "none" /\ ran = 0

-----------------------------------------------------------------------------
(* Registration.                                                           *)

\* An assignment to an element of a shell array, or the definition of a function.
Assigned(f, x, value) == [y \in DOMAIN f \cup {x} |-> IF y = x THEN value ELSE f[y]]

Finish(why) == verdict' = why /\ ran' = 0

\* Sourcing a module defines its function: the shell keeps the last definition.
Bodies(m) ==
    IF m.defines THEN Assigned(body, m.handler, Len(modules) + 1) ELSE body

\* Bug: a command that is registered again keeps its level.
NewLevelsKept(m) ==
    IF m.name \in DOMAIN command_levels THEN command_levels
    ELSE Assigned(command_levels, m.name, m.level)

NewLevels(m) == Assigned(command_levels, m.name, m.level)

\* register_command, for a handler that is defined: a name that is known keeps its
\* place and takes the new handler and level.
RegisterCommand(m) ==
    /\ command_order' = IF m.name \in DOMAIN command_handlers THEN command_order
                        ELSE Append(command_order, m.name)
    /\ command_handlers' = Assigned(command_handlers, m.name, m.handler)
    /\ command_levels' = NewLevels(m)
    /\ UNCHANGED <<verdict, ran>>

\* load_command_modules takes the next file.
Source(m) ==
    /\ verdict = "none" /\ Len(modules) < MaxModules
    /\ modules' = Append(modules, m)
    /\ body' = Bodies(m)
    /\ IF m.valid /\ m.handler \in DOMAIN body' THEN RegisterCommand(m)
       ELSE Finish("exit") /\ UNCHANGED <<command_handlers, command_levels, command_order>>
    /\ UNCHANGED <<sender, command>>

-----------------------------------------------------------------------------
(* Dispatch.                                                               *)

\* The verdict on a request, by the first check that refuses it.
Verdict(number, word) ==
    IF modules = <<>> THEN "exit"
    ELSE IF number \in BadSenders THEN "bad_phone"
    ELSE IF number \notin DOMAIN UserAccess THEN "unknown_number"
    ELSE IF UserAccess[number] <= 0 THEN "blocked"
    ELSE IF word = Blank THEN "empty_command"
    ELSE IF word \notin DOMAIN command_handlers THEN "unknown_command"
    ELSE IF UserAccess[number] < command_levels[word] THEN "denied"
    ELSE "run"

\* All modules are sourced: what follows load_command_modules.
Dispatch ==
    /\ verdict = "none"
    /\ verdict' = Verdict(sender, command)
    /\ ran' = IF verdict' = "run" THEN body[command_handlers[command]] ELSE 0
    /\ UNCHANGED <<tableVars, sender, command>>

\* The next SMS.
NextRequest ==
    /\ verdict # "none"
    /\ modules' = <<>> /\ body' = <<>>
    /\ command_handlers' = <<>> /\ command_levels' = <<>> /\ command_order' = <<>>
    /\ sender' \in Senders /\ command' \in CommandNames \cup {Blank}
    /\ verdict' = "none" /\ ran' = 0

TNext == Dispatch \/ NextRequest \/ \E m \in CommandModules : Source(m)

TSpec == TInit /\ [][TNext]_commandVars

\* cmd_help: the places of the commands that it names, in their order.
Help(number) ==
    {i \in DOMAIN command_order : UserAccess[number] >= command_levels[command_order[i]]}

-----------------------------------------------------------------------------
(* Property.                                                               *)

\* Only these verdicts send an SMS back, besides what a handler sends.
Replied == {"blocked", "empty_command", "unknown_command", "denied"}

\* Module i is the last one to register the command, or to define the function.
LastToRegister(i, word) ==
    /\ modules[i].name = word
    /\ \A j \in DOMAIN modules : modules[j].name = word => j <= i
LastToDefine(i, handler) ==
    LET Defines(j) == modules[j].handler = handler /\ modules[j].defines
    IN  Defines(i) /\ \A j \in DOMAIN modules : Defines(j) => j <= i

\* src/sms-app/sms-cmd.sh:221: "Unknown and malformed senders do not reach command
\* dispatch."  They get no reply; a handler runs only for a sender who is known, not
\* blocked and of the level that the last module to register the command asks for, and
\* what runs is the last definition of that module's handler, even if another module
\* defines it.
OnlyTheAdmittedRun ==
    /\ sender \in BadSenders \/ sender \notin DOMAIN UserAccess
        => verdict \notin Replied \cup {"run"}
    /\ verdict = "run" =>
        /\ UserAccess[sender] > 0
        /\ ran \in DOMAIN modules
        /\ \E i \in DOMAIN modules :
            /\ LastToRegister(i, command) /\ UserAccess[sender] >= modules[i].level
            /\ LastToDefine(ran, modules[i].handler)

\* "help" names exactly the commands that the sender may run, each once.
HelpIsExact ==
    verdict = "none" => \A number \in DOMAIN UserAccess \ BadSenders : UserAccess[number] > 0 =>
        /\ {command_order[i] : i \in Help(number)}
             = {word \in CommandNames : Verdict(number, word) = "run"}
        /\ \A i, j \in Help(number) : command_order[i] = command_order[j] => i = j

\* sms-cmd.sh runs a handler only for those whom the modules admit, and "help" says so.
CommandsAreGuarded == OnlyTheAdmittedRun /\ HelpIsExact
=============================================================================
