------------------------------- MODULE StartUp ------------------------------
(***************************************************************************)
(* What the programs are told before they do anything: the arguments of    *)
(* sms-send (main in src/src/SendSMS.cpp) and of the daemon (main in       *)
(* src/src/sms-daemon.cpp), and the SIM's and the modem's numbers, which   *)
(* QueryModemIdentifier of src/src/sms-daemon-mdm.cpp asks for once.       *)
(***************************************************************************)
EXTENDS Inputs, ConfigLoader

ASSUME StartUpAssumption ==
    "config" \in DOMAIN Most => \A n \in 1..Most["config"] : Symbols("config", n) \subseteq Lines

\* The daemon's and sms-send's arguments: options, an empty one, and other words.
ArgumentWords == {"-c", "--daemon", "", "+1", "*100#", "**21*1#"}

SmsConfigPath == "SMS_CONFIG_PATH"
Failed == [exit |-> TRUE]

-----------------------------------------------------------------------------
(* sms-send.                                                               *)

\* Bug: the file of "-c" is taken for the phone number too.
SendArgumentTwice(st, arg) ==
    CASE st.awaits -> [st EXCEPT !.awaits = FALSE, !.configPath = arg,
                                 !.phoneNo = IF @ = "" THEN arg ELSE @]
      [] ~st.awaits /\ arg = "-c" -> [st EXCEPT !.awaits = TRUE]
      [] ~st.awaits /\ arg # "-c" ->
            IF st.phoneNo = "" THEN [st EXCEPT !.phoneNo = arg]
            ELSE IF st.outDir = <<>> THEN [st EXCEPT !.outDir = <<arg>>]
            ELSE [st EXCEPT !.usage = TRUE]

\* One argument; awaits says that the one before was "-c".
SendArgument(st, arg) ==
    CASE st.awaits -> [st EXCEPT !.awaits = FALSE, !.configPath = arg]
      [] ~st.awaits /\ arg = "-c" -> [st EXCEPT !.awaits = TRUE]
      [] ~st.awaits /\ arg # "-c" ->
            IF st.phoneNo = "" THEN [st EXCEPT !.phoneNo = arg]
            ELSE IF st.outDir = <<>> THEN [st EXCEPT !.outDir = <<arg>>]
            ELSE [st EXCEPT !.usage = TRUE]

\* What main does: the generator by the number's form; outDir is the configured
\* directory where none is given.
JobOf(phoneNo) ==
    CASE phoneNo = "**21*1#" -> "GenMmi"
      [] phoneNo = "*100#" -> "GenUSSD"
      [] OTHER -> "GenSMS"

SendStart ==
    [awaits |-> FALSE, usage |-> FALSE, phoneNo |-> "", outDir |-> <<>>, configPath |-> SmsConfigPath]

SendArguments(argv) ==
    LET st[n \in 0..Len(argv)] == IF n = 0 THEN SendStart ELSE SendArgument(st[n - 1], argv[n])
    IN  st

SmsSend(argv) ==
    LET st == SendArguments(argv)[Len(argv)]
    IN  IF st.awaits \/ st.usage \/ st.phoneNo = "" THEN Failed
        ELSE [exit |-> FALSE, job |-> JobOf(st.phoneNo), phoneNo |-> st.phoneNo, outDir |-> st.outDir,
              configPath |-> st.configPath]

-----------------------------------------------------------------------------
(* The daemon.                                                             *)

DaemonArgument(st, arg) ==
    CASE st.unknown -> st
      [] ~st.unknown /\ st.awaits -> [st EXCEPT !.awaits = FALSE, !.configPath = arg]
      [] ~st.unknown /\ ~st.awaits /\ arg = "-c" -> [st EXCEPT !.awaits = TRUE]
      [] ~st.unknown /\ ~st.awaits /\ arg = "--daemon" -> [st EXCEPT !.isdaemon = TRUE]
      [] OTHER -> [st EXCEPT !.unknown = TRUE]

DaemonStart ==
    [awaits |-> FALSE, unknown |-> FALSE, isdaemon |-> FALSE, configPath |-> SmsConfigPath]

DaemonArguments(argv) ==
    LET st[n \in 0..Len(argv)] == IF n = 0 THEN DaemonStart ELSE DaemonArgument(st[n - 1], argv[n])
    IN  st

SmsDaemon(argv) ==
    LET st == DaemonArguments(argv)[Len(argv)]
    IN  IF st.awaits \/ st.unknown THEN Failed
        ELSE [exit |-> FALSE, isdaemon |-> st.isdaemon, configPath |-> st.configPath]

-----------------------------------------------------------------------------
(* The identifiers.                                                        *)

\* Bug: the last of equally long ones.
LongerOrEqual(current, best) == Len(current) >= Len(best)

Longer(current, best) == Len(current) > Len(best)

\* best when current has ended.
Better(st) == IF Longer(st.current, st.best) THEN st.current ELSE st.best

\* Digits are told apart by their place in the log.
LogSymbol(st, symbol, place) ==
    IF symbol = "digit" THEN [st EXCEPT !.current = Append(@, place)]
    ELSE [best |-> Better(st), current |-> <<>>]

ReadLog(log) ==
    LET st[n \in 0..Len(log)] ==
            IF n = 0 THEN [best |-> <<>>, current |-> <<>>] ELSE LogSymbol(st[n - 1], log[n], n)
    IN  st

ExtractNumericIdentifier(log) == Better(ReadLog(log)[Len(log)])

\* CleanModemResponse, of the places: line ends become blanks, and blanks around
\* the text go.
CleanModemResponse(log) ==
    LET clean == [i \in DOMAIN log |-> IF log[i] \in {"cr", "lf"} THEN "blank" ELSE log[i]]
        shown == {i \in DOMAIN clean : clean[i] # "blank"}
    IN  IF shown = {} THEN <<>> ELSE SubSeq(clean, Min(shown), Max(shown))

-----------------------------------------------------------------------------
(* Properties.                                                             *)

\* Which arguments are an option: "-c", but not where a file is expected.
Options(argv) ==
    LET option[i \in 0..Len(argv)] == IF i = 0 THEN FALSE ELSE argv[i] = "-c" /\ ~option[i - 1]
    IN  option

\* An argument is an option's file if the one before is an option, even if it looks
\* like an option itself; the others are words.  sms-send's words begin with the first
\* one that is not empty.
ArgumentsAreUnderstood(argv) ==
    LET option == Options(argv)
        files == {i \in DOMAIN argv : option[i - 1]}
        words == {i \in DOMAIN argv : ~option[i] /\ ~option[i - 1]}
        named == {i \in words : \E j \in words : j <= i /\ argv[j] # ""}
        config == IF files = {} THEN SmsConfigPath ELSE argv[Max(files)]
        cut == option[Len(argv)]
        send == SmsSend(argv)
        daemon == SmsDaemon(argv)
    IN  /\ send.exit = (cut \/ Cardinality(named) \notin 1..2)
        /\ ~send.exit =>
            /\ send.phoneNo = argv[Min(named)] /\ send.configPath = config
            /\ send.outDir = IF Cardinality(named) = 1 THEN <<>> ELSE <<argv[Max(named)]>>
        /\ daemon.exit = (cut \/ \E i \in words : argv[i] # "--daemon")
        /\ ~daemon.exit => daemon.configPath = config /\ daemon.isdaemon = (words # {})

\* The places of log that a run of digits takes, from run[1] to run[2].
IsRun(run, log) ==
    /\ run[1] <= run[2] /\ \A i \in run[1]..run[2] : log[i] = "digit"
    /\ run[1] > 1 => log[run[1] - 1] # "digit"
    /\ run[2] < Len(log) => log[run[2] + 1] # "digit"

Runs(log) == {run \in (1..Len(log)) \X (1..Len(log)) : IsRun(run, log)}

\* r is the longest run, and the first of those.
BestRun(r, runs) ==
    LET size(run) == run[2] - run[1]
    IN  \A other \in runs : size(other) < size(r) \/ (size(other) = size(r) /\ r[1] <= other[1])

IsShown(c) == c \notin {"cr", "lf", "blank"}

\* text is the log from behind a place d on, with all that is shown in it.
ShowsAll(text, log) ==
    \E d \in 0..Len(log) :
        /\ d + Len(text) <= Len(log)
        /\ \A i \in DOMAIN log : IsShown(log[i]) => i \in (d + 1)..(d + Len(text))
        /\ \A i \in DOMAIN text : text[i] = IF IsShown(log[d + i]) THEN log[d + i] ELSE "blank"

\* The identifier is the first of the longest runs of digits, whatever line of the log
\* it stands on; and an answer is shown on one line, without losing a character of it.
LogsAreRead(log) ==
    LET id == ExtractNumericIdentifier(log)
        text == CleanModemResponse(log)
    IN  /\ IF Runs(log) = {} THEN id = <<>>
           ELSE \E r \in Runs(log) : /\ BestRun(r, Runs(log))
                                     /\ id = [i \in 1..(r[2] - r[1] + 1) |-> r[1] + i - 1]
        /\ ShowsAll(text, log)
        /\ text # <<>> => IsShown(text[1]) /\ IsShown(text[Len(text)])

\* The programs accept the arguments and the configuration files that are documented,
\* and what they accept means what it says, wherever the options stand; the identifier
\* that names the modem is the longest number in what it answered.
StartsAsAsked ==
    /\ Of("config") => LoadedAsWritten(input.data)
    /\ Of("arguments") => ArgumentsAreUnderstood(input.data)
    /\ Of("log") => LogsAreRead(input.data)
=============================================================================
