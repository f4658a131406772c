----------------------------- MODULE HookChain ------------------------------
(***************************************************************************)
(* What happens to a message once it is decoded: main (sms-daemon.cpp)     *)
(* registers a callback that writes it to an XML file and one that runs    *)
(* the configured hooks (SmsHookRunner.cpp) one after the other.  The main *)
(* loop waits for them; then it erases the message, then it looks for      *)
(* outgoing jobs.  One hook is sms-app/sms-cmd.sh with the commands "pon   *)
(* auto" (commands.d/pon.sh) and "reboot" (commands.d/reboot.sh), whose    *)
(* replies are outgoing jobs.                                              *)
(*                                                                         *)
(* A step may take any time: one hook has no limit, the modem's and the    *)
(* backends' limits are above the ten seconds a reboot waits.              *)
(***************************************************************************)
EXTENDS Naturals, Sequences, SequencesExt, Functions, FiniteSets

CONSTANTS
    Messages,
    Request,      \* Request[m]: what m asks sms-cmd.sh for
    Hooks,        \* sms_hook, in the order of the configuration; "cmd" is sms-cmd.sh
    Stamps,       \* time, service and sender, as they begin a file's name
    NoMsg,
    MaxStarts     \* bound on starts of the daemon

\* "none": nothing that sms-cmd.sh admits.
ASSUME HookAssumption ==
    /\ Request \in [Messages -> {"pon", "reboot", "none"}]
    /\ Hooks \in Seq({"cmd", "other"})
    /\ NoMsg \notin Messages
    /\ MaxStarts \in Nat

VARIABLES
    sim,        \* messages stored on the SIM
    flagged,    \* messages, also of later, whose location has its flag in m_DirtySimSlots set
    pc,         \* where the daemon is; "down": it does not run
    block,      \* the messages listed in this cycle
    todo,       \* those that the loop at pc has not come to yet
    cur,        \* the message in the callbacks, or NoMsg
    path,       \* the file being written: <<>>, or its name as <<stamp, number>>
    running,    \* the number of the hook that runs, Len(Hooks) + 1 behind the last
    step,       \* the command hook's next step; "" when it does not run
    files,      \* the output directory: name -> [of, whole]
    ppp0,       \* during pon auto, what has the link ppp0: "none", an "old" gprs connection,
                \* one that it began ("dialling"), which is "new" when it has an address
    jobs,       \* replies in the job directory
    waiting,    \* messages whose reboot sleeps its ten seconds
    \* History, read by no action:
    arrived,
    executed,   \* executed[m]: the hooks that were run for m, in order, since it was last decoded
    unrun,      \* unrun[m]: the hooks whose fork or execvp failed since then
    misflagged, \* messages flagged, or erased on a flag, that was not set for them
    spoilt,     \* names of files whose write failed or was interrupted
    tested,     \* what had ppp0 when pon auto found an address there
    outlived,   \* an old connection was still there after "poff -a" and the pause
    sent,       \* of the messages in waiting, those whose reply was sent
    unanswered, \* messages that made the machine reboot before their reply was sent
    starts

disk == <<sim, files, jobs>>
loop == <<flagged, pc, block, todo, cur, path, running>>
hooked == <<executed, unrun>>
history == <<arrived, hooked, misflagged, spoilt, tested, outlived, sent, unanswered, starts>>
hvars == <<disk, loop, step, ppp0, waiting, history>>

Names == Stamps \X (0..(Cardinality(Messages) * MaxStarts))
NoFile == <<>>

\* Messages that have left the SIM.
Gone == arrived \ sim

-----------------------------------------------------------------------------

\* No constructor sets m_DirtySimSlots: any flag may be found set at a start.
HInit ==
    /\ sim = {} /\ files = <<>> /\ jobs = {}
    /\ flagged \in SUBSET Messages
    /\ pc = "list" /\ block = {} /\ todo = {} /\ cur = NoMsg
    /\ path = NoFile /\ running = 0
    /\ step = "" /\ ppp0 = "none" /\ waiting = {}
    /\ arrived = {} /\ misflagged = flagged
    /\ executed = [m \in Messages |-> <<>>] /\ unrun = [m \in Messages |-> {}]
    /\ spoilt = {} /\ tested = "none" /\ outlived = FALSE
    /\ sent = {} /\ unanswered = {} /\ starts = 1

Arrive(m) ==
    /\ m \notin arrived
    /\ sim' = sim \cup {m}
    /\ arrived' = arrived \cup {m}
    /\ UNCHANGED <<files, jobs, loop, step, ppp0, waiting, hooked, misflagged, spoilt, tested, outlived,
                   sent, unanswered, starts>>

List ==
    /\ pc = "list"
    /\ block' = sim /\ todo' = sim
    /\ pc' = "process"
    /\ UNCHANGED <<disk, flagged, cur, path, running, step, ppp0, waiting, history>>

\* Bug: exists() is asked once.
FreeNumberOnce(stamp) ==
    IF <<stamp, 0>> \in DOMAIN files THEN 1 ELSE 0

\* MakeUniqueOutputXmlPath: the first name that no file has.
FreeNumber(stamp) ==
    CHOOSE i \in 0..Cardinality(DOMAIN files) :
        /\ <<stamp, i>> \notin DOMAIN files
        /\ \A j \in 0..(i - 1) : <<stamp, j>> \in DOMAIN files

\* ProcessSmsBlock gives m to the callbacks.  writeToFile opens the file under
\* its name: a reader of the directory sees it from now on.
OpenFile(m) ==
    /\ pc = "process" /\ m \in todo
    /\ m \notin flagged
    /\ \E stamp \in Stamps :
        LET name == <<stamp, FreeNumber(stamp)>>
        IN  /\ path' = name
            /\ files' = [n \in DOMAIN files \cup {name} |->
                            IF n = name THEN [of |-> m, whole |-> FALSE] ELSE files[n]]
    /\ cur' = m
    /\ todo' = todo \ {m}
    /\ pc' = "write"
    /\ UNCHANGED <<sim, jobs, flagged, block, running, step, ppp0, waiting, history>>

\* The file is complete, or the disk was full: writeToFile's result is not looked
\* at, and the hooks begin.
WriteFile ==
    /\ pc = "write"
    /\ \/ /\ files' = [n \in DOMAIN files |->
                           IF n = path THEN [files[n] EXCEPT !.whole = TRUE] ELSE files[n]]
          /\ UNCHANGED spoilt
       \/ /\ spoilt' = spoilt \cup ({path} \cap DOMAIN files)
          /\ UNCHANGED files
    /\ path' = NoFile
    /\ running' = 1
    /\ executed' = [executed EXCEPT ![cur] = <<>>]
    /\ unrun' = [unrun EXCEPT ![cur] = {}]
    /\ pc' = "hook"
    /\ UNCHANGED <<sim, jobs, flagged, block, todo, cur, step, ppp0, waiting, arrived, misflagged,
                   tested, outlived, sent, unanswered, starts>>

\* A message whose flag is set is passed over.
Skip(m) ==
    /\ pc = "process" /\ m \in todo \cap flagged
    /\ todo' = todo \ {m}
    /\ UNCHANGED <<disk, flagged, pc, block, cur, path, running, step, ppp0, waiting, history>>

-----------------------------------------------------------------------------
(* RunSmsHooks.                                                            *)

\* The steps of sms-cmd.sh for the message.
FirstStep(m) ==
    CASE Request[m] = "pon" -> "poff" [] Request[m] = "reboot" -> "reboot" [] OTHER -> "exit"

NextHook == pc = "hook" /\ running <= Len(Hooks)

\* fork and execvp.
StartHook ==
    /\ NextHook
    /\ executed' = [executed EXCEPT ![cur] = Append(@, running)]
    /\ pc' = "wait"
    /\ step' = IF Hooks[running] = "cmd" THEN FirstStep(cur) ELSE ""
    \* A connection of before, if there is one, is an old one for this command.
    /\ ppp0' \in IF step' = "poff" THEN {"none", "old"} ELSE {"none"}
    /\ UNCHANGED <<disk, flagged, block, todo, cur, path, running, waiting, arrived, unrun,
                   misflagged, spoilt, tested, outlived, sent, unanswered, starts>>

NoteUnrun == unrun' = [unrun EXCEPT ![cur] = @ \cup {running}]

\* execvp fails: the child ends at once, with 127.
ExecFails ==
    /\ NextHook
    /\ NoteUnrun
    /\ pc' = "wait"
    /\ step' = "exit"
    /\ UNCHANGED <<disk, flagged, block, todo, cur, path, running, ppp0, waiting, arrived, executed,
                   misflagged, spoilt, tested, outlived, sent, unanswered, starts>>

\* fork fails: the next hook is tried.
ForkFails ==
    /\ NextHook
    /\ NoteUnrun
    /\ running' = running + 1
    /\ UNCHANGED <<disk, flagged, pc, block, todo, cur, path, step, ppp0, waiting, arrived, executed,
                   misflagged, spoilt, tested, outlived, sent, unanswered, starts>>

\* Bug: a hook that fails ends the chain.
WaitEndsAtFailure ==
    /\ pc = "wait"
    /\ step \in {"", "exit"}
    /\ running' \in {running + 1, Len(Hooks) + 1}
    /\ step' = ""
    /\ ppp0' = "none" /\ tested' = "none" /\ outlived' = FALSE
    /\ pc' = "hook"
    /\ UNCHANGED <<disk, flagged, block, todo, cur, path, waiting, arrived, hooked, misflagged,
                   spoilt, sent, unanswered, starts>>

\* waitpid returns: the hook ended, with whatever result or signal.  The first
\* result that is not 0 is kept, and nobody reads it.
WaitEnds ==
    /\ pc = "wait"
    /\ step \in {"", "exit"}
    /\ running' = running + 1
    /\ step' = ""
    /\ ppp0' = "none" /\ tested' = "none" /\ outlived' = FALSE
    /\ pc' = "hook"
    /\ UNCHANGED <<disk, flagged, block, todo, cur, path, waiting, arrived, hooked, misflagged,
                   spoilt, sent, unanswered, starts>>

\* The callbacks return; their results are not looked at, the flag is set.
HooksEnd ==
    /\ pc = "hook" /\ running > Len(Hooks)
    /\ flagged' = flagged \cup {cur}
    /\ cur' = NoMsg
    /\ running' = 0
    /\ pc' = "process"
    /\ UNCHANGED <<disk, block, todo, path, step, ppp0, waiting, history>>

-----------------------------------------------------------------------------
(* sms-cmd.sh: cmd_pon_auto and cmd_reboot.  Every backend runs under       *)
(* run_with_timeout; its failure and its timeout are one.                   *)

Command(s) == pc = "wait" /\ step = s

Then(s) ==
    /\ step' = s
    /\ UNCHANGED <<loop, sim, files, arrived, hooked, misflagged, spoilt, sent, unanswered, starts>>

\* reply: sms-send puts an outgoing job into the directory.
Reply == jobs' = jobs \cup {cur}

\* "poff -a" asks the old pppd to go and does not wait for it; when it fails, that
\* is replied and ignored.
Poff ==
    /\ Command("poff")
    /\ Reply \/ UNCHANGED jobs
    /\ Then("pause")
    /\ UNCHANGED <<ppp0, waiting, tested, outlived>>

\* sleep 3
Pause ==
    /\ Command("pause")
    /\ outlived' = (ppp0 = "old")
    /\ Then("gprs")
    /\ UNCHANGED <<jobs, ppp0, waiting, tested>>

\* "pon gprs": a connection that is still there keeps the name ppp0.
PonGprs ==
    /\ Command("gprs")
    /\ \/ /\ Then("address")
          /\ ppp0' = IF ppp0 = "none" THEN "dialling" ELSE ppp0
          /\ UNCHANGED jobs
       \/ Then("exit") /\ Reply /\ UNCHANGED ppp0
    /\ UNCHANGED <<waiting, tested, outlived>>

\* Bug: no deadline.
WaitForEver ==
    /\ Command("address")
    /\ \/ ppp0 \notin {"old", "new"} /\ UNCHANGED hvars
       \/ /\ ppp0 \in {"old", "new"}
          /\ Then("vpn")
          /\ tested' = ppp0
          /\ UNCHANGED <<jobs, ppp0, waiting, outlived>>

\* Bug: the result of the wait is not looked at.
WaitForNothing ==
    /\ Command("address")
    /\ Then("vpn")
    /\ tested' = ppp0
    /\ UNCHANGED <<jobs, ppp0, waiting, outlived>>

\* wait_for_gprs_connection: ppp0 has an address, or the deadline comes without one.
WaitForGprsConnection ==
    /\ Command("address")
    /\ \/ /\ ppp0 \in {"old", "new"}
          /\ Then("vpn")
          /\ tested' = ppp0
          /\ UNCHANGED jobs
       \/ /\ ppp0 \notin {"old", "new"}
          /\ Then("exit") /\ Reply /\ UNCHANGED tested
    /\ UNCHANGED <<ppp0, waiting, outlived>>

\* "pon vpn", whose success and failure are both replied.
PonVpn ==
    /\ Command("vpn")
    /\ Then("exit") /\ Reply
    /\ UNCHANGED <<ppp0, waiting, tested, outlived>>

\* 'sleep 10 && systemctl reboot' goes to the background ...
StartReboot ==
    /\ Command("reboot")
    /\ waiting' = waiting \cup {cur}
    /\ Then("reply")
    /\ UNCHANGED <<jobs, ppp0, tested, outlived>>

\* ... then comes the reply.
ReplyReboot ==
    /\ Command("reply")
    /\ Reply
    /\ Then("exit")
    /\ UNCHANGED <<ppp0, waiting, tested, outlived>>

CommandStep ==
    \/ Poff \/ Pause \/ PonGprs \/ WaitForGprsConnection \/ PonVpn
    \/ StartReboot \/ ReplyReboot

-----------------------------------------------------------------------------
(* The rest of the cycle.                                                  *)

\* The end of ProcessSmsBlock; DelSmsBlock begins.
ProcessEnds ==
    /\ pc = "process" /\ todo = {}
    /\ pc' = "erase"
    /\ todo' = block
    /\ UNCHANGED <<disk, flagged, block, cur, path, running, step, ppp0, waiting, history>>

\* DelSms: the modem erases m.  When its answer is lost the flag stays, for the
\* message that is stored there next.
Erase(m) ==
    /\ pc = "erase" /\ m \in todo \cap flagged
    /\ sim' = sim \ {m}
    /\ todo' = todo \ {m}
    /\ \E left \in {{}} \cup {{n} : n \in Messages \ arrived} :
        /\ flagged' = (flagged \ {m}) \cup left
        /\ misflagged' = misflagged \cup left
    /\ UNCHANGED <<files, jobs, pc, block, cur, path, running, step, ppp0, waiting, arrived,
                   hooked, spoilt, tested, outlived, sent, unanswered, starts>>

\* A message that the modem did not erase keeps its flag.
EraseEnds ==
    /\ pc = "erase"
    /\ pc' = "jobs"
    /\ block' = {} /\ todo' = {}
    /\ UNCHANGED <<disk, flagged, cur, path, running, step, ppp0, waiting, history>>

\* DoProcessOutSmsFolder, for one reply (OutFolder has the details).
SendReply(m) ==
    /\ pc = "jobs" /\ m \in jobs
    /\ jobs' = jobs \ {m}
    /\ sent' \in {sent, sent \cup ({m} \cap waiting)}
    /\ UNCHANGED <<sim, files, loop, step, ppp0, waiting, arrived, hooked, misflagged, spoilt, tested,
                   outlived, unanswered, starts>>

CycleEnds ==
    /\ pc = "jobs" /\ jobs = {}
    /\ pc' = "list"
    /\ UNCHANGED <<disk, flagged, block, todo, cur, path, running, step, ppp0, waiting, history>>

DaemonStep ==
    \/ List \/ ProcessEnds \/ EraseEnds \/ CycleEnds
    \/ \E m \in Messages : OpenFile(m) \/ Skip(m) \/ Erase(m) \/ SendReply(m)
    \/ WriteFile \/ StartHook \/ ExecFails \/ ForkFails \/ HooksEnd

-----------------------------------------------------------------------------
(* The environment.                                                        *)

\* A program that reads the output directory takes a file away, also one that is
\* being written.
Take(name) ==
    /\ name \in DOMAIN files
    /\ files' = Restrict(files, DOMAIN files \ {name})
    /\ spoilt' = spoilt \ {name}
    /\ UNCHANGED <<sim, jobs, loop, step, ppp0, waiting, arrived, hooked, misflagged, tested,
                   outlived, sent, unanswered, starts>>

\* The network gives the new connection its address; a connection goes.
LinkChanges ==
    /\ step # ""
    /\ \/ ppp0 = "dialling" /\ ppp0' = "new"
       \/ ppp0 # "none" /\ ppp0' = "none"
    /\ UNCHANGED <<disk, loop, step, waiting, history>>

\* The process is gone, and its hooks with it: they are in its control group.  A
\* message that is still on the SIM will be decoded, and given to all hooks, again.
Stop ==
    /\ starts < MaxStarts
    /\ pc' = "down"
    /\ flagged' = {} /\ block' = {} /\ todo' = {} /\ cur' = NoMsg
    /\ path' = NoFile /\ running' = 0
    /\ step' = ""
    /\ waiting' = {}
    /\ ppp0' = "none" /\ tested' = "none" /\ outlived' = FALSE
    /\ spoilt' = (spoilt \cup {path}) \cap DOMAIN files'
    /\ sent' = {}
    /\ executed' = [m \in Messages |-> IF m \in Gone THEN executed[m] ELSE <<>>]
    /\ unrun' = [m \in Messages |-> IF m \in Gone THEN unrun[m] ELSE {}]
    /\ misflagged' = misflagged \cap Gone
    /\ UNCHANGED <<sim, arrived, starts>>

Crash ==
    /\ pc # "down"
    /\ UNCHANGED <<files, jobs, unanswered>>
    /\ Stop

\* The ten seconds are over, and sms-cmd.sh, which only had to queue its reply, has
\* ended long since.  By default both directories are below /tmp, which a boot may
\* empty.
Reboot ==
    /\ waiting # {}
    /\ step \notin {"reply", "exit"}
    /\ unanswered' = unanswered \cup (waiting \ sent)
    /\ UNCHANGED <<files, jobs>> \/ (files' = <<>> /\ jobs' = {})
    /\ Stop

\* Restart=on-failure, or the boot, with whatever the memory of the flags holds.
Start ==
    /\ pc = "down"
    /\ pc' = "list"
    /\ flagged' \in SUBSET (Messages \ Gone)
    /\ misflagged' = misflagged \cup flagged'
    /\ starts' = starts + 1
    /\ UNCHANGED <<disk, block, todo, cur, path, running, step, ppp0, waiting, arrived, hooked,
                   spoilt, tested, outlived, sent, unanswered>>

HNext ==
    \/ DaemonStep
    \/ WaitEnds
    \/ CommandStep
    \/ Start
    \/ \E m \in Messages : Arrive(m)
    \/ \E name \in DOMAIN files : Take(name)
    \/ LinkChanges
    \/ Crash
    \/ Reboot

HSpec == HInit /\ [][HNext]_hvars

\* The daemon's steps, the steps of sms-cmd.sh (all limited by run_with_timeout
\* and the deadline) and its end come in time, and systemd starts the daemon.
\* Nothing is assumed of another hook: RunSmsHook waits for it without a limit.
CommandHookEnds == WaitEnds /\ step = "exit"

FairHSpec ==
    HSpec /\ WF_hvars(DaemonStep) /\ WF_hvars(CommandStep) /\ WF_hvars(CommandHookEnds)
          /\ WF_hvars(Start)

-----------------------------------------------------------------------------
(* Properties.                                                             *)

\* A file of the output directory that is complete is not written again, however
\* many messages of one sender come within a second, and also when one is decoded
\* again after a restart.  A reader finds half a message at rest only when its
\* writing failed or was interrupted (MakeUniqueOutputXmlPath, writeToFile).
FilesAreKept ==
    [][/\ \A n \in DOMAIN files \cap DOMAIN files' : files[n].whole => files'[n] = files[n]
       /\ \A n \in DOMAIN files' : files'[n].whole \/ n = path' \/ n \in spoilt']_hvars

\* The hooks for which h is what ran, in order and once each, and u what could not.
AllButFailed(h, u) ==
    /\ \A i, j \in DOMAIN h : i < j => h[i] < h[j]
    /\ {h[i] : i \in DOMAIN h} = (1..Len(Hooks)) \ u

\* src/README.md:21: "Each configured program is run for every received SMS."
\* For a message that has left the SIM each hook was run, once and in order,
\* whatever the others returned and however often a restart came in between, with two
\* exceptions: a hook whose own fork or execvp failed is not run later, and a message
\* whose location was flagged, but not for it (by memory that nothing initialised or by
\* a lost answer to at+cmgd), is erased without any.
EveryHookRuns ==
    \A m \in Gone : m \in misflagged \/ AllButFailed(executed[m], unrun[m])

\* pon auto starts the vpn over the connection that it began, or, because "poff
\* -a" does not wait, over one that outlived the pause behind it: never without
\* one (src/sms-app/commands.d/pon.sh).
VpnOverALink ==
    step = "vpn" => tested = "new" \/ (tested = "old" /\ outlived)

\* The loop comes round again and again, whatever sms-cmd.sh waits for, unless a
\* hook of another program never ends (RunSmsHook waits for it).
LoopGoesRound ==
    []<>(pc = "list") \/ <>[](pc = "wait" /\ Hooks[running] = "other")

\* src/sms-app/commands.d/reboot.sh:1: "Reboot is delayed so the SMS reply/logging
\* path can finish first."  When the machine goes down the reply has been sent.
ReplyBeforeReboot == unanswered = {}
=============================================================================
