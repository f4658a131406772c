# A TLA+ verification project for sms-daemon

## 1. The system

`sms-daemon` is a single-threaded daemon that owns one GSM modem on a serial
line. Every 3 s it reads unsolicited modem lines, lists the SMS stored on the
SIM, hands each new one to its callbacks (XML file, hook programs), erases it
from the SIM, and then works through a directory of outgoing jobs (SMS, USSD,
call-forwarding) that `sms-send` fills. The code is sequential; what makes it
hard is everything it talks to: a modem that answers late, wrongly or not at
all; a network that delivers SMS at any moment, in parts, out of order and
twice; other processes that share its directories; a machine that restarts it.

| component | source | state | operations |
|---|---|---|---|
| PDU reassembly | `src/src/RecvSMS.cpp`, `RecvSMS.h` | `cache` of partial messages keyed by (reference, sender), each with its parts, count and `lastUpdate` | `processPDU`, `ProcessPart`, `addPart`, `clearCache` |
| Incoming SMS cycle | `src/src/sms-daemon-mdm.cpp` | `m_DirtySimSlots` (one flag per SIM slot), the block read from the modem | `GetSmsBlockByCMGL`, `GetSmsBlockByCMGR`, `ProcessSmsBlock`, `DelSmsBlock`, `DelSms` |
| Outgoing jobs | `src/src/SendSMS.cpp`, `sms-daemon-mdm.cpp` | the job directory, the modem's command/prompt mode | `SaveSMS`, `DoProcessOutSmsFolder`, `SendSmsPart`, `SendUssd`, `SendMmi`, `QueryCallForwarding` |
| USSD/unsolicited input | `sms-daemon-mdm.cpp`, `src/src/Ussd.cpp` | `m_ModemInputBuffer`, `m_LastUssdRequest`, `m_LastUssdSendTime` | `DoProcessModemInput`, `ProcessModemInput`, `ParseUssdResponse`, `EmitUssdResponse` |
| Serial line | `src/src/serial.cpp`, `rsserial.cpp` | receive buffer, the two deadlines | `SendExpect`, `ClearRX`, `GetChar`, `PutBlock`, `SetTimeout`, `CheckTimeout` |
| PDU encoding/decoding | `src/src/PduSMS.cpp`, `RecvSMS.cpp` | none (pure) | `ParseText`, `encode7bit`, `decode7bit`, `ProcessRecvPDU` |
| MMI codes | `SendSMS.cpp`, `sms-daemon-mdm.cpp` | none (pure) | `IsMmiCode`, `BuildCallForwardCommand` |
| Configuration, start-up | `Config.cpp`, `sms-daemon.cpp` | the loaded configuration | `LoadSmsDaemonConfig`, `Setup`, `Init`, `main` |
| Hook runner, XML output | `SmsHookRunner.cpp`, `gen-xml.cpp`, `sms-daemon.cpp` | files in `sms_dir` and `ussd_dir` | `RunSmsHooks`, `MakeUniqueOutputXmlPath`, `GenXML` |
| XML parser (vendored) | `xmlParser.cpp`, `xmlParser.h` | element trees shared by handles | `addChild`, `addText`, `deleteNodeContent`, `deepCopy`, `writeToFile`, `parseFile` |
| SMS command hook | `sms-app/` | none beyond one run | `sms-cmd.sh` and `commands.d/*.sh` |

The parts meet in one loop (`CSmsDaemon::Do`): `DoProcessModemInput`,
`DoProcessInSmsBlock`, `DoProcessOutSmsFolder`, a pause. All of them talk to the
modem through `SendExpect`, which throws away what has arrived before it sends
and then waits for a final line; the next command does not know which command
an answer belongs to. `processPDU` and `clearCache` are called from the incoming
half and call back into the daemon's callbacks; `sms-send` is another process
and shares only the job directory; the hooks are child processes.

What makes each part correct, and where it is stated:

| component | what makes it correct | properties |
|---|---|---|
| PDU reassembly | a message said to be complete consists of parts 1..n of one sender; no part is lost or delivered twice without a reason; every entry ends | `CountIsExact`, `CompleteIsWhole`, `GivenUpOnlyWhenStale`, `BooksBalance`, `EveryEntryEnds` |
| Incoming SMS cycle | nothing is erased unread; nothing is processed twice in a run; the SIM does not stay full; every message reaches the callbacks | `ErasedOnlyIfProcessed`, `OnlyMisflaggedLost`, `OncePerRun`, `EveryMessageErased`, `EveryMessageHanded`, refinement of `Mailbox` |
| Outgoing jobs | no file is read while it is being written; a job is carried out once; a part that was not sent is reported; every job leaves | `TornOnlyIfUnwritten`, `DoneOncePerRun`, `DialledTwiceOnlyIfUnheard`, `NoSilentLoss`, `EveryJobLeaves`, refinement of `Mailbox` |
| USSD/unsolicited input | an answer is emitted once, whole, under its own request, whether a reading of the line or the log of any command finds it; what is not emitted was swallowed by a command | `EmittedOnce`, `AttributedUnlessOverlapped`, `WholeUnlessSwallowed`, `EveryAnswerHeard` |
| Serial line | an answer on its own line is heard, and only a received one; a wait is as long as its timeout; a command cut by the deadline spoils one more and no other | `AnswersAreHeard`, `TimeoutsAreKept`, `CommandsArriveUnlessCut` |
| PDU encoding/decoding | a text, its characters, its sender and its time arrive as they were sent; the octets are those of the standard | `TextsArriveUnlessCut`, `CharactersSurvive`, `EnvelopesAreRead` |
| MMI codes | `sms-send` and the daemon read the same codes, and the command registers what was dialled | `CodesAreTranslated` |
| Configuration, start-up | arguments and configuration files mean what they say, whatever their order and repetitions | `StartsAsAsked` |
| Hooks and XML output | for what is erased every hook was run that could be; a complete file is never written again; the loop comes round; a file is read back as it was built | `EveryHookRuns`, `FilesAreKept`, `LoopGoesRound`, `DocumentsReadBack` |
| SMS command hook | a handler runs for an admitted sender only; the vpn is started over a connection only; a reply goes out before the machine goes down (it does not) | `CommandsAreGuarded`, `VpnOverALink`, `ReplyBeforeReboot` |
| XML parser | reference counts and links are exact, the order of contents agrees with the arrays, a tree keeps what can be reached | `CountsAreExact`, `OrderIsExact`, refinement of `XmlDocument` |

The hazards, each at its line and with the properties aimed at it, are listed in
`PROJECT.json`.

## 2. The modules

| module | models | uses |
|---|---|---|
| `Reassembly` | `CRecvSMSProcessor`: the cache and its three entry points, time, restarts | |
| `ReassemblyLedger` | `Reassembly` with the books kept: what was fed in, delivered, given up | `Reassembly` |
| `Mailbox` | abstract: absent, waiting, handled, freed | |
| `SimInbox` | the incoming half of the loop around `Reassembly`, the SIM, the network, a modem with late and lost answers | `Reassembly`, `Mailbox` |
| `OutFolder` | `sms-send`, the job directory, the outgoing half of the loop, the modem's prompt | `Mailbox` |
| `UssdSession` | the line buffer, swallowed and cut lines, attribution of answers | |
| `HookChain` | the callbacks of a message: the XML file, the hooks one after the other, `pon auto` and `reboot` of `sms-cmd.sh`, replies, restarts, a reader of the directory | |
| `XmlDocument` | abstract: a tree of elements, handles on it, what cannot be reached is gone | |
| `XmlTree` | the same with reference counts, parent links, arrays by type and `pOrder` | `XmlDocument` |
| `XmlWriter`, `XmlReader` | the trees of `gen-xml.cpp`, the two walks of `CreateXMLStringR`, the tokenizer and the parser | |
| `Inputs` | the inputs of the algorithms that keep no state, which grow symbol by symbol | |
| `MmiCode` | the two readers of call-forwarding codes | `Inputs` |
| `SmsText` | a text on its way: the scan and the choice of encoding, the loop over the parts, the decoding of each part septet by septet | `SeptetPacking` |
| `SeptetPacking` | packing and unpacking of septets, on symbolic bits | `Inputs` |
| `GsmTables` | the 7-bit tables of sending, receiving and USSD, UTF-8 both ways | |
| `UssdText` | a USSD request as job and as shown, the reading of a `+CUSD:` line | `SeptetPacking`, `GsmTables` |
| `Envelope` | the header of a sent PDU; addresses and time stamp of a received one | `Inputs`, `PartHeader` |
| `PartHeader` | the walk through the user data header of a received part | |
| `SerialLine` | `SendExpect` towards the line: `PutBlock` and `GetChar` under one deadline on a clock that wraps, and what the modem has of a command cut by it, and of the next | |
| `AnswerMatcher` | `SendExpect` towards its caller: the counters that look for the answers | |
| `StartUp`, `ConfigLoader` | arguments of both programs, the modem's identifiers; `LoadSmsDaemonConfig` | `Inputs` |
| `CommandTable` | `sms-cmd.sh`: registration of modules, access levels, dispatch, `help` | |
| `MC*` | instances for TLC | the module named |
| `*_proofs` | theorems | the module named (`Codecs_proofs`: `SmsText`, `SeptetPacking`, `MmiCode`, `StartUp` with `ConfigLoader`, `SerialLine` and `AnswerMatcher`; `Envelope_proofs`: also `PartHeader`; `Reassembly_proofs`: also `ReassemblyLedger`; `HookChain_proofs`: also `CommandTable`) |

### How the state corresponds to the code

* `Reassembly`: `cache[k]` is the `SmsCacheEntry` for a (reference, sender) key:
  `parts`, `nPartsReceived` (`received`), the announced size (`total`) and
  `age`, the time since `lastUpdate`, which stops counting at `Stale`, the first value beyond
  the timeout. An entry in which no part was ever stored has `lastUpdate` 0 and
  is therefore stale from the start (`NewEntry`). `out` is what one call hands to
  `onSmsCallBack`. PDUs come decoded: `KeyOf`, `NumberOf` and `TotalOf` are
  constants.
* `SimInbox`: `dirty` is `m_DirtySimSlots`, `block` is `TSmsBlock::sms`, `pc` the
  function the loop is in, `next` the index of the fall-back reading. Every
  command to the modem is one step: `Exchanges` gives what `SendExpect` may
  return for it and which answers stay under way (`late`).
* `OutFolder`: `file[j]` is the name of a job's file and what is in it: `open` while
  `sms-send` writes, then `whole`, or `cut` when `fputs` or `fclose` failed, which the
  code does not look at before it renames the file. `KindsRead` is what the daemon takes
  such a file for. `unlink` may fail too, unnoticed (`kept`); `cur`, `seen` and `due` are the `readdir` loop; `prompt` is the
  modem's mode. `Reactions` says what a modem may do with a command in its
  present mode, `Expect` what `SendExpect` makes of the answer and of late
  ones. The `\r\r` that is written behind a part that was sent, a failed USSD
  request and a failed dialling (`sms-daemon-mdm.cpp:449`, `:511`, `:541`) changes nothing
  in these modes.
* `UssdSession`: a line has two fragments, so that a reading can end inside it;
  `wire` is what the modem has sent and nobody has read, `buffer` is
  `m_ModemInputBuffer`, `last` is `m_LastUssdRequest`. A command is two steps: what has
  come is discarded (`ClearRX`), then a response is looked for in what comes until the
  answer (`HearLog`), and is emitted under `last`. The commands of the inbox do this too:
  `AT+CMGL`, `AT+CMGR` for any number of indexes, `at+cmgd` for any number of messages
  (`InboxCommand`, `ReadInboxLog`). The model is of one run of the daemon, so an answer that
  comes after a restart, when `m_LastUssdRequest` is empty, is not in it; nor is a `+CCFC:`
  line that comes late, which `ParseUssdResponse` would take from the log of another command.
* `SerialLine`: `due` is `m_SendTimeout`, from which `m_RecvTimeout` is taken; a step is
  one round of `PutBlock`'s or `GetChar`'s loop, in which any time may pass. `line` is
  all the modem was sent, so that a command can meet what an earlier one left
  there; `results` and `returned` are what `PutBlock` and `SendExpect` returned.
* `AnswerMatcher`: `cnttable` and `rtn` are the variables of that name (`rtn` is 0
  where the code has -1), `text` what the call has received.
* `CommandTable`: one run of `sms-cmd.sh` for one SMS; a step sources a module, or does all
  that follows. The variables of the shell have their names, `body` is the shell's
  table of functions, and `modules` (history) what has been sourced.
* `SmsText`: `sText`, `sms7BitText`, `textLen` and `iPart` are `ParseText`'s variables of
  that name, `found` its two flags, `outList` what it has put out. `Scan` is a round
  of the loop over the text, `Choose` the choice of the encoding, `CutPart` a round of the
  loop over the parts; `DecodeSeptet` is a round of `decode7bit`'s loop, `NextPart` and
  `CopyPart` end the reading of a part in `ProcessRecvPDU`. `decoded` is `escPreffix` and the text
  as it is joined. Scanning in steps means that every text of up to `MaxLength` characters is met.
* The other codec modules have no state; `Inputs` grows their inputs symbol by
  symbol, and `MCCodecs` lets the four modules above take their own steps. A text is
  a sequence of characters known by the table they stand in, a code a sequence of `*`, `#` and runs of digits, a bit is known by the
  septet and the place it comes from, an XML text is of symbols (an entity is one
  symbol of its own width, `ml` a character of two octets). A configuration value is empty, a boolean
  or a word (`on` and `off` stand for all spellings `ParseBool` knows); a file that
  cannot be opened is not modelled.

* `HookChain`: `path` is the file that the XML callback is writing, `running` the
  place of the hook that `RunSmsHook` waits for, `step` where `sms-cmd.sh` is.
  `sim`, `flagged` and `block` repeat `SimInbox` in short: an erase may be refused, or its
  answer lost, so that the flag stays for the next message there. Nothing initialises
  `m_DirtySimSlots`, so a start finds any flags set; `misflagged` (history) notes whom a
  flag that is not its own will hit. `todo` is what is left of a loop over the block. `executed` (history) has the
  hooks that were run for a message, `unrun` (history) those whose `fork` or `execvp` failed. `jobs`
  is `OutFolder` in short. `ppp0` tells an old connection from the one that
  `pon auto` began, which the script cannot. A reboot comes at any moment after
  its ten seconds began, once the command hook has ended.
* `XmlTree`: an address of the heap holds an `XMLNodeData` or is free; a handle
  is an `XMLNode`. `XmlDocument` has the same handles and a tree, no counts; the
  refinement maps the contents in the order `pOrder` gives.

History variables (`arrived`, `times`, `done`, `lost`, ...) are read by no action.
An operator whose comment begins with "Bug:" is a mutant: what the code
would do after a plausible mistake, used to see that a property can fail.

## 3. The runs

| run | configuration | checks | shows |
|---|---|---|---|
| `reassembly` | `MCReassembly` | `CountIsExact`, `IInv`, `CompleteIsWhole`, `GivenUpOnlyWhenStale`, `EveryEntryEnds` | the cache is exact with duplicates, a reused reference, foreign totals and an invalid part number; `IInv` is the inductive invariant of the proofs and includes `TypeOK` |
| `ledger` | `MCReassemblyLedger` | `BooksBalance` | every part is in the cache, delivered once, or given up for a reason the code has |
| `inbox_dirty` | `MCInboxDirty` | `ITypeOK`, `OnlyMisflaggedLost` | what garbage flags, lost acknowledgements and late answers can do, and no more |
| `inbox_live` | `MCInboxLive` | `ErasedOnlyIfProcessed`, `OncePerRun`, `ImplementsMailbox`, `EveryMessageErased`, `EveryMessageHanded` | with clean flags and reliable acknowledgements the cycle is a `Mailbox`, and under fairness every message is processed, erased and delivered |
| `inbox_garbage` | `MCInboxGarbage` | `ErasedOnlyIfProcessed`, violated | `m_DirtySimSlots` is not initialised: a message is erased unread |
| `out_folder` | `MCOutFolder` | `TornOnlyIfUnwritten`, `DoneOncePerRun`, `NoSilentLoss` | two SMS parts and an unreadable file, writes that fail, a late answer, a restart, a failing unlink |
| `out_folder_live` | `MCOutFolderLive` | `DialledTwiceOnlyIfUnheard`, `EveryJobLeaves`, `ImplementsMailbox` | a USSD request and a call-forwarding code, whole or cut, under the loop's fairness |
| `ussd_session` | `MCUssdSession` | `EmittedOnce`, `AttributedUnlessOverlapped`, `WholeUnlessSwallowed`, `EveryAnswerHeard` | two USSD requests and a code, answers in pieces at any time, between and within the commands of the inbox and of the jobs |
| `codecs` | `MCCodecs` | `CodesAreTranslated`, `TextsArriveUnlessCut`, `AnswersAreHeard`, `StartsAsAsked`, `TimeoutsAreKept`, `CommandsArriveUnlessCut`, `EnvelopesAreRead`, `CharactersSurvive`, `CommandsAreGuarded`, `DocumentsReadBack` | `SendExpect`'s two halves, the dispatcher of `sms-cmd.sh`, and the pure algorithms over all inputs up to a bound |
| `xml_tree` | `MCXmlTree` | `CountsAreExact`, `OrderIsExact`, `ImplementsDocument` | the XML library's element trees implement `XmlDocument` |
| `hooks` | `MCHookChain` | `EveryHookRuns`, `VpnOverALink`, `FilesAreKept`, `LoopGoesRound` | `pon auto` and `reboot` from one sender within a second, with another hook, hooks that cannot be started, any flags at a start, a reader and one restart |
| `reboot` | `MCReboot` | `ReplyBeforeReboot`, violated | the machine can go down before the reply to `reboot` is sent |

## 4. Bounds

* `MCReassembly`: two keys, seven numbered parts and a single message. One key
  has two interleaved messages (the second with a larger total and another
  part of the same number), so that replacement, foreign total, refusal and
  mixing happen; the other lets two entries expire together. Times only
  matter up to `Timeout + 1`.
* `MCReassemblyLedger`: every part up to twice (`MaxFeeds`), which gives a
  duplicate before completion, after it and after expiry.
* `MCInbox*`: two locations, two or three messages, one restart in `MCInboxLive`. A slot is
  then used again by another message after its first one is erased, which is
  where the flags can go wrong. `CmgrLimit` is beyond the SIM's size as in the
  code. `MCInboxDirty` has two answers under way (`MaxLate`), so that a listing or
  a PDU is still under way when the next answer comes late too; a message is
  then processed any number of times, and `times` is counted to one beyond what
  `OncePerRun` allows. The flags are more than the locations by `MaxLate`, as on
  every SIM of less than 128 (`SizeAssumption`). The runs do not reuse reference
  numbers; that is `MCReassembly`'s question.
* `MCOutFolder`: two SMS parts are needed for a PDU typed at the other part's
  prompt. One late answer, one restart and one failing unlink in both (`MaxLate`,
  `MaxCrashes`, `MaxKept`). No job is an empty file or an `M` job that is not a
  call-forwarding code from the beginning: a failing write makes the one of any job and
  the other of a code that lost its `#`.
* `MCUssdSession`: two requests and one code; answers may be read in two pieces.
* `MCCodecs`: parts hold 5, 4 and 3 positions with headers of 2, 1 and 1 (in
  the code 160, 140, 70 and 7, 6, 3), texts have up to 16 characters (`MaxLength`), the first
  ones of all tables and later ones of those places of the basic and the extension
  table at which a boundary can fall (`CharactersAt`); so there are more parts than
  the six that `MaxParts` allows, and a loop without end is followed up to eight
  (`MaxOut`). How long the other inputs are is `Most`: septet strings of up to 20, which is two groups of eight and a
  rest; headers of 6, 7 and 13 octets; codes of up to nine symbols, the length
  of `**61*n**t#`; configuration files of up to three
  lines over all keys, so that a setting is given, replaced and emptied; headers of
  up to five elements. `SendExpect` receives texts of up to 6 characters, longer than
  either sample and a rest of another. Three commands of three octets are
  written before the line is begun anew: two that are cut, in one or two parts, and one
  behind them. The timeout is 2 on a clock of 4 bits, from every place of the clock,
  `TestBit` standing for 2^31 of 2^64 (or 2^32); a call lasts up to 7, beyond the
  timeout and `TestBit` together, where `CheckTimeout`'s difference changes its sign.
  Texts of XML files have up to two symbols out of all that the reader tells
  apart, each in an attribute and as text of three kinds of documents; a file is
  cut at every place for texts of one symbol. UTF-8 texts have up to three
  characters out of those at the ends of each length; the 7-bit tables are
  checked for all of Latin-1. USSD requests have up to seven characters, which is
  where the last group fills. Command tables have up to three modules out of two
  names, two handlers and two levels; the senders are two who are known, a blocked one, a
  malformed one who is in the list, and one who is not.
* `MCXmlTree`: three elements, two handles, texts as the only leaves, three
  contents in an element; the handles and the elements are symmetric.
* `MCHookChain`: two messages whose files would have the same name, two hooks, one
  restart or reboot; which flags are set at each start is not bounded.

## 5. Fairness

The daemon is one loop in which every wait has a timeout, so each step of the
loop is weakly fair. Beyond that:

* `EveryMessageErased` and `EveryMessageHanded` need a modem that lists and erases
  now and then (strong fairness of `GetSmsBlockByCMGL` and of an erase that
  succeeds). Without it the SIM fills up: the code has no other remedy.
* `EveryEntryEnds` needs only that `clearCache` is called and that time passes;
  parts may arrive for ever.
* `EveryJobLeaves` assumes nothing of the modem or of `sms-send`. `unlink` fails at
  most `MaxKept` times: a file that could never be unlinked would never leave.
* `EveryAnswerHeard` assumes that the network answers, that a line that was
  written arrives (strong fairness of a reading that finds something), and
  that the commands of the inbox and a scan of the job directory end: there are
  finitely many messages, indexes and files.
* `LoopGoesRound` assumes that the steps of the loop and of `sms-cmd.sh` are taken
  (each backend runs under `run_with_timeout`) and that systemd starts the
  daemon. Of another hook nothing is assumed: `RunSmsHook` waits without a
  timeout, and the property excuses exactly a hook that hangs.

## 6. What is proved

The theorems hold for every value of the constants that satisfies the named
assumptions: any set of PDUs, keys, totals, timeout, SIM size.

| theorem | statement | argument |
|---|---|---|
| `Reassembly_proofs!Invariance` | `Spec => []IInv` | `IInv` says that every entry is sound (its count is the number of filled positions, each part stands at its own number under its own key, and it is not complete) and that every delivered message is whole; one lemma per action |
| `TypeCorrect`, `CountCorrect`, `CompleteCorrect`, `GivenUpCorrect` | `TypeOK`, `CountIsExact`, `CompleteIsWhole`, `GivenUpOnlyWhenStale` | from `IInv`; exactness of the count is what makes "count = total" mean that no position is empty |
| `BooksCorrect` | `LSpec => []BooksBalance` | the invariant adds the types of the books; each action moves a part between the cache, the deliveries and the given-up, one lemma each |
| `SimInbox_proofs!LateInvariance` | `ISpec => []LateInv` | for any number of late answers: a set flag is about the message of its slot or about one noted as misflagged (`FlagsSound`), and an answer that is taken for that of the next index leaves fewer to be taken, so the reading index by index goes at most `MaxLate` beyond the SIM (`ReadsAhead`) |
| `LossCorrect`, `IndexesCorrect` | `OnlyMisflaggedLost`, `ITypeOK` | from `LateInv`; `ReadsAhead` is what keeps the index inside the flags |
| `ReassemblyUsed` | `ISpec => Spec` of `Reassembly` | every step of the cycle is a step of the reassembly or leaves it alone, so the five theorems above hold inside the cycle, late answers or not |
| `OnceCorrect` | `OncePerRun`, for `MaxLate = 0` | a message that was processed in this run is flagged, or it is erased, or still in the part of the block the loop has passed |
| `ErasedCorrect`, `MailboxImplemented` | `ErasedOnlyIfProcessed`, `ImplementsMailbox` | with `Garbage = {}` and reliable acknowledgements no message is ever misflagged; each step then maps to a step of `Mailbox` or a stutter |
| `OutFolder_proofs!FolderInvariance` | `OSpec => []OInv` | `OInv`: a file with a visible name is not being written any more, the job at hand is visible and of the kind its step is for, and `DoneSoFar` bounds how often a job was carried out by its share of the runs so far (twice as many for a call-forwarding code whose `AT+CCFC` was not answered) |
| `NothingIsTornButByFailedWrites`, `NothingIsDoneTwice`, `OnlyTheUnheardIsDialledToo` | `TornOnlyIfUnwritten`, `DoneOncePerRun`, `DialledTwiceOnlyIfUnheard` | from `OInv`; a job of an earlier run is carried out again only if it is still in the directory, and within a run only after an unlink of its file failed |
| `NoPartIsLostSilently` | `NoSilentLoss`, for `MaxLate <= 1` | beyond `OInv` the invariant says what the one late answer can be where a part's PDU has been typed |
| `JobsLiveAsInMailbox` | `OSpec => Life!Spec` | each job's life is that of a message of `Mailbox`, the safety part of `ImplementsMailbox` |
| `HookChain_proofs!ChainInvariance` | `HSpec => []HInv` | `HInv`: the message at hand is on the SIM, the hooks that were run for it are, but for those that could not be, the first ones in order, what is flagged or gone has had all of them or is misflagged, a file at rest is whole or its writing failed |
| `AllHooksRun`, `VpnHasALink`, `FilesStay` | `EveryHookRuns`, `VpnOverALink`, `FilesAreKept` | for any number of hooks, messages and restarts, and any flags at each start; that a free output name exists is `NotAllTaken`, a finite set misses one of the numbers up to its size |
| `UssdSession_proofs!SessionInvariance` | `USpec => []UInv` | `UInv`: each piece of a line is in one place (`OnePlace`), a line that was emitted is not on its way any more (`EmittedIsGone`), a head is followed by its tail or its tail was swallowed (`LinesHoldTogether`), and every request that is still to be answered was noted when the last one was sent (`NotedInTime`); the logs of inbox commands and of jobs take from the line in the same way (`HearLog`), and are one case of the lemma about what a step does (`Effects`) |
| `AnswersOnce`, `AnswersAttributed`, `AnswersWhole` | `EmittedOnce`, `AttributedUnlessOverlapped`, `WholeUnlessSwallowed` | from `UInv`, however readings and commands cut the lines |
| `XmlTree_proofs!TreeInvariance` | `Spec => []TreeInv` | `TreeInv`: parent links and arrays agree (`Linked`), the links form a forest, since each element can be given a rank above that of its parent (`Ranked`), the count of a block is that of its handles and its parent (`Counted`), nothing without a reference is kept (`Referred`), and each `pOrder` lists what its block holds (`GoodBlock`). Each operation is built from a few steps on the heap, with a lemma for what each does to a sound heap |
| `CountsCorrect`, `OrderCorrect` | `CountsAreExact`, `OrderIsExact` | from `TreeInv` |
| `DocumentImplemented` | `ImplementsDocument` | what a block says it holds is one element of the tree; each operation does to the tree what `XmlDocument` says, and a heap with `TreeInv` keeps exactly the elements the handles reach: an element that is kept and not reached would have a parent of lower rank that is kept and not reached |
| `Codecs_proofs!TextInvariance` | `TextSpec => []TextInv` | for texts and parts of any length. `TextInv` relates the loops to the text through a table of where the septets of each character end (`LaidAt`): the parts put out are the pieces of the units between multiples of the part's size, numbered from 1 while `iPart` has not wrapped, and what has been decoded is a beginning of the text as long as no piece ends within a character (`CutBefore`). A loop that goes beyond `MaxParts` never reaches the stage of receiving |
| `TextsArrive` | `ISpec /\ TextSpec => []TextsArriveUnlessCut` | from `TextInv`, and for the septets `AllPacked` and `AllRead`: bit by bit, the place of a septet's bit in the octets and back, group of eight by group of eight, for any number of septets |
| `CodesTranslated` | `ISpec => []CodesAreTranslated` | for any sequence of symbols: the two readers cut a code at the same stars and number signs, which are found by their ranks, and agree on each field in between |
| `StartsAsked` | `ISpec => []StartsAsAsked` | for files, arguments and answers of any length: each loop has its states (`LoopStates`), and after each step of it what the program holds is what the input so far says: of each key the last line that gives it (`FileTo`), of the arguments the files of options and the words (`SentTo`, `DaemonTo`), of a log the first of the longest runs of digits that have ended (`LogTo`) |
| `Envelope_proofs!EnvelopesRead` | `ISpec => []EnvelopesAreRead` | for numbers of any length and headers of any elements. Each piece of an SMS lies behind the one before, whatever their lengths (`SubmitPieces`, `DeliverPieces`), and what a reader takes from a place is the piece that lies there; the loop over a number's octets and the walk over a header are functions from how far they have come (`DigitStates`, `WalkGoes`: at the end of the n-th element the walk has the numbers of the last numbering element up to it); of a line that ends in the envelope each reading is of octets that are all there, or is an error, or begins behind the line's NUL; which of them comes first is told for every length (`CutCenter`, `CutSender`, `CutEnvelope`) |
| `Codecs_proofs!LineInvariance` | `SSpec => []LineInv` | `LineInv`: the clock stands `elapsed` behind the beginning of the call, up to whole turns (`Stands`); the octets on the line are in the order of the commands, each command's from its first (`InOrder`, `FromTheFirst`), the one under way as far as `PutBlock` has written it (`UnderWay`), and whole exactly where it reported success (`WholeIsWritten`) |
| `TimeoutsCorrect`, `CommandsCorrect` | `TimeoutsAreKept`, `CommandsArriveUnlessCut` | from `LineInv`; `PastTells` is the arithmetic of `CheckTimeout`: its bit tells whether the deadline is past, wherever the clock wraps, as long as a call has not lasted `TestBit` (2^31 ms) beyond its timeout |
| `MatcherInvariance`, `AnswersCorrect` | `MSpec => []MatcherInv`, `AnswersAreHeard` | what a counter has counted is what the text ends with (`CountsAreReceived`), and the beginning of a sample that begins a line is always counted (`LinesAreCounted`): behind a line feed every counter is 0, since no sample has one |
| `HookChain_proofs!CommandInvariance`, `CommandsGuarded` | `TSpec => []CommandInv`, `CommandsAreGuarded` | each command's handler and level are those of the last module that registered it (`Registered`), each function is its last definition (`Defined`), and the list names each command once (`Listed`); exiting on a faulty module leaves nothing that could run |

Of the `SimInbox` theorems `OnceCorrect` assumes `MaxLate = 0`: a late `OK` clears a
flag and the message is processed again. `ErasedCorrect` and
`MailboxImplemented` assume also clean flags and reliable acknowledgements
(`Clean`): `inbox_garbage` shows a loss that garbage alone causes, and
`OnlyMisflaggedLost` counts a message that a late answer costs as misflagged.
The others need no such hypothesis; only `NoPartIsLostSilently` bounds the late
answers, and with two of them a part can indeed be lost (section 7).

Two recursions had to be reasoned about. `emptyTheNode` visits what it has let go,
level by level: a visit leaves fewer elements to visit, so as many visits as
there are elements do (`VisitKeeps`, `EmptyContent`). `Below`, the elements in another one,
is reached in as many levels as there are elements (`GrownLevels`), and is then
the least closed set around it (`BelowIsWithin`). Both are recursive functions
over 0..N, about which `UpTo` and `Iteration` give the induction.

`SerialLine` assumes of its constants what `SetTimeout` and the types give: the timeout
is below the bit that is tested, the word is a multiple of twice that bit.
`AnswerMatcher` assumes that no sample is empty or holds a line feed or a NUL, as
none in `sms-daemon-mdm.cpp` does. `SmsText` assumes that a header is shorter than a part and
that characters stand in the tables it names (`LengthAssumption`). `StartUp` assumes that the
symbols of a configuration file are lines (`StartUpAssumption`), and `Envelope` that the symbols
of a phone number are characters and those of a header elements (`EnvelopeAssumption`).

Model-checked only: everything about fairness; and two of the codec properties.
`CharactersSurvive` enumerates tables and code points, which TLC does as well as a
proof would; `DocumentsReadBack` is about recursive operators. Each inductive invariant was itself
checked by TLC on the instance of its run before it was proved.

## 7. What the models show about the code

* `m_DirtySimSlots` is indeterminate after construction (`inbox_garbage`). The same
  loss follows from an answer to `at+cmgd` that is lost after the modem erased
  the slot: the flag stays set and the next message in that slot is erased
  unread.
* A late answer shifts the answers that follow: the PDU of one location is taken
  for that of the next, the next one is flagged, and its message is erased
  unread; a late `OK` clears a flag and the message is processed again.
  `OnlyMisflaggedLost` shows that these are the only losses.
* A restart loses the parts that are erased from the SIM and wait in the cache;
  `EveryMessageHanded` holds for everything else. A crash between processing and
  erasing makes the message processed again.
* A first part with number 0 (or beyond its total) leaves an empty entry that
  the next `clearCache` delivers as a message without a sender; `BooksBalance`
  counts such parts as given up.
* With one late answer no SMS part is lost silently, because the prompt must come
  before the final answer; with two of them, a late `>` and a late `OK`,
  one can be (`NoSilentLoss` needs `MaxLate = 1`). A refused USSD or MMI job
  looks done after a single late `OK`, so the property speaks of SMS only.
* A call-forwarding code can be executed twice, and only when the answer to
  `AT+CCFC` did not come in time (`DialledTwiceOnlyIfUnheard`).
* A job file that cannot be opened is unlinked without a report. A job whose writing
  failed is renamed all the same, and what is left of it is carried out: a part cut
  short, another USSD request, or a code that is dialled because it lost its `#`. A job whose
  file cannot be unlinked is carried out in each cycle.
* An answer to a USSD request is named after the last request, which is wrong
  exactly when a later request was sent before the answer was read. An answer in the log of
  `AT+CMGL`, `AT+CMGR` or `at+cmgd` is heard like any other; what the line held
  before such a command is discarded.
* The reply to `reboot` is a job like any other: the ten seconds run while the
  daemon waits for other hooks and erases, and the machine may go down before
  the reply, and before the message is erased, which then reboots it again
  (`reboot`). `pon auto` takes an address that an old connection still has for
  that of the new one when `poff -a` needs longer than three seconds;
  `VpnOverALink` allows this and nothing else.
* `writeToFile`'s result is not looked at: on a full disk a part of a file remains,
  and the message is erased. No such part is read as a whole file
  (`DocumentsReadBack`).
* An escape sequence cut by a part boundary changes the text
  (`TextsArriveUnlessCut` excuses this). A text of more than 255 parts never leaves
  the loop (`iPart` is an `unsigned char`, a TODO in the code); the property
  speaks of texts whose parts have all been put out, which a longer one's never are
  (`TextInv`).
* Of a code that begins with one star and has an empty number, `sms-send` makes a
  job and the daemon dials it. A code with a basic service
  (`**61*n*11*20#`) loses its timer; one with a third star
  (`**61*n***20#`) gets `*20` as its timer.
* The matcher misses an answer whose first letter is repeated (`OOK`), which
  cannot happen on a line of its own.
* `GetChar` looks at the time only when no character waits, so a line that keeps
  sending keeps `SendExpect` beyond its timeout (`TimeoutsAreKept` says: only then).
* Septets behind a header that leaves more than one padding bit are read
  wrongly: the property holds for headers of 6, 7, 13, ... octets.
* The test `phoneSZ < 0` in `GetPhone` is never true, `phoneSZ` being a `size_t`, and a
  sender's name is not tested against the line's end: a line that ends where an address
  should begin, or within a name, is read beyond its end. Every other line that ends before
  the user data is refused (`DeliverIsRead`).
* The time zone's mask is one bit short: zones whose quarters end in 8 or 9 (UTC+2,
  +7, +12, ...) are shown as others. The type octet of an empty sender address
  is not skipped. `lookup7_8Bit` has U+038F where the standard has Omega.
* A USSD request whose septets leave room for one more is shown with an extra
  `?`; a plain answer that looks like hexadecimal UCS-2 is decoded as such.
* `GenSMS` ends with 0 although a file could not be saved.

## 8. Not modelled, and the plan

Left out for good: build and packaging files; opening the serial device and its
line settings; daemonisation; log texts; the layout of the XML beyond what the
reader sees. `m_bForceUnicode`, `m_bForceUDH` and `m_bRRq` are never set by
`sms-send`. Of the XML library, what the daemon does not use: clear tags
(comments, CDATA), numeric entities, base64, insertion at a position, the strict
parse modes. White space around a text, which the writer's indentation adds when
debug output is on, is lost in reading; texts are assumed to be well-formed
UTF-8. Of `sms-app`, the commands that only report (`read`, `diag`, `test`, `modem`)
and the example hooks. Where `GetPhone` reads behind the end of a line, `Beyond` says
so and nothing of what follows: no assumption is made about that memory.

Messages at a location of 128 or more are skipped for ever by the listing
(`sms-daemon-mdm.cpp:373`), and the index-by-index reading would index beyond
the flags: `SizeAssumption` keeps such SIMs out of the models. A modem that is
unplugged is never reopened (`sms-daemon-mdm.cpp:265`): no property can promise
progress then.

What is left to do: a composition of `SimInbox` and `OutFolder` around one
modem. Today a late answer reaches only later commands of its own half of the
loop. What it can do there (a final `OK`, an `ERROR`, a listing taken for the
answer to the next command) is the same whichever half it came from, so the
composition is expected to confirm the results rather than to add to them.
