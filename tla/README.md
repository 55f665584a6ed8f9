# mclog in TLA+

mclog is a logging library and daemon. An application links the library and logs
through `Logger`; messages go over the loopback interface to `mclogd`, which writes
them to files and, encrypted, to a multicast group, where the `mclogd` and `mclog`
processes of other hosts receive them. This directory holds TLA+ models of its
parts, TLC configurations that check them on small instances, and TLAPS proofs.

## The system

```
 application                       mclogd (host A)                     mclogd (host B)
 Logger -> LoopbackSender --udp--> LoopbackReceiver
                                     |-> FileLogger -> LogFiles -> LogFile*
                                     `-> MulticastSender ==multicast==> MulticastReceiver
                                          KeyRequestListener <--udp--> MulticastSources
                                                                          MulticastSource*
                                                                          (KeyRequester)
                                                                            `-> FileLogger
```

| component | state | operations | interacts with |
|---|---|---|---|
| `Logger` | sink list under a mutex, origin, minimum severity, its own `LoopbackSender` | Open, AddSinks, RemoveSinks, SetSinks, Close, Log | calls every sink's `Process` under the mutex |
| `Config` | the sections of mclogd.cfg, named filters; a global scanner | Init, Parse | read by every part of mclogd |
| `MessageFilterDriver` | an expression | is_valid, parse | used by `LogFiles` and `MulticastSender` |
| `LoopbackSender` | queue, run flag, thread with one packet | Start, Stop, Process, Run | sends packets to `LoopbackReceiver` |
| `LoopbackReceiver` | sockets, stop pipe, sink list | Start, Stop, Run | hands messages to `FileLogger` and `MulticastSender` |
| `FileLogger` | bounded queue, run flag, thread | Start, Stop, Restart, Process, Run | feeds `LogFiles`; is a sink of mclogd's own `Logger` |
| `LogFiles` | configuration, map of open files, path cache | Configure, Process, Close | owns `LogFile`s |
| `LogFile` | stream, roll interval, files on disk | Open, Close, Process, Roll | starts `bzip2` or `gzip` in the background |
| `RollInterval` | start and end of the current period | SetToCurrent | used by `LogFile` |
| `MulticastSender` | bounded queue, thread with one packet, key, filter | Open, Close, Restart, Process, Run | owns `KeyRequestListener` |
| `MulticastReceiver` | sockets, sink list, thread | Open, Close, Restart, Run | hands packets to `MulticastSources` |
| `MulticastSources` | map from endpoint to source | ProcessPacket, ClearOld | owns `MulticastSource`s |
| `MulticastSource` | key, backlog, query thread | ProcessPacket, ProcessBacklog, StartQuery, QueryForKey | starts `KeyRequester` in a thread |
| `KeyRequester`, `KeyRequesterState` | socket, exchange key pair, state | GetKey | exchanges packets with `KeyRequestListener` |
| `KeyRequestListener`, `KeyRequestClientState` | map from endpoint to client state | Start, Stop, Run, ClearExpired | answers with the sender's multicast key |
| `Message`, `MessagePacket` | fields of a message; a buffer of messages | Write, Read, `<<`, `>>`; Add, Reset, Encrypt, Decrypt, SendTo, RecvFrom | used by senders, receivers, `LogFile` and the programs |
| `mclogd` | globals of the above | Restart on SIGHUP, shutdown on SIGTERM | everything |
| `mclogger`, `mclog` | | send one message; print log files or what receivers deliver | `LoopbackReceiver`, log files |

What makes these hard: threads that share a queue, a key or a flag; a signal that can
come before anybody waits for it; a key that arrives while a packet is being processed;
decryption that overwrites its input; processes in the background that rename and remove
files by name; datagrams that are lost, repeated and late; senders that restart with a
new key; a mutex that is held across calls into other components; parser state that
outlives the file it was made for. They are listed, with their lines, under `hazards` in
`PROJECT.json`.

What makes each part correct, in a sentence:

* FileLogger: what it accepts is written once, in order, across reloads; Stop returns.
* The senders: messages leave in order, at most once, and none is held for ever.
* LogFile: the number of an archive is its age; the configured archives are kept.
* MulticastSource: packets reach the sinks at most once and in order; the key is
  recovered after a restart of the sender; no thread outlives its object.
* The key exchange: a key that is returned is one the sender still had.
* The Logger: a sink is called only while it exists; the list's mutex is released.
* Configuration and routing: a file means what it says whatever was loaded before it;
  a message goes to the files that the configuration in force names, and no others.
* RollInterval: the interval has the current time in it and does not depend on when,
  within it, one asks.
* Messages: what a receiver reads out of a packet is what the sender put in; what is
  printed and read again is what was logged.
* mclogd: a reload without failures applies the file whatever failed before; no
  SIGHUP is lost; reload and shutdown end.

## Modules

| module | models | role |
|---|---|---|
| `MulticastSource` | `MulticastSource`, `MulticastSources`, `MulticastSourceKey`, in-place `MessagePacket::Decrypt` | component |
| `KeyExchange` | `KeyRequester`, `KeyRequesterState`, `KeyRequestListener`, `KeyRequestClientState` | both sides and the network |
| `LogFile` | `LogFile` and the compressors it starts | component |
| `FileLogger` | `FileLogger` with `Thread::Queue` | component |
| `BatchSender` | `LoopbackSender` and `MulticastSender` with `Thread::Queue`, `MessagePacket::Add` | component |
| `Mclogd` | `mclogd`'s main thread and signals; Start, Stop, sockets and threads of `LoopbackReceiver`, `MulticastSender`, `MulticastReceiver`, `FileLogger` | composition, without messages |
| `Logger` | `Logger`, with the thread of its `LoopbackSender` as a client | component |
| `MessageFilter` | `MessageFilterDriver`, its scanner and grammar | operators |
| `Config` | `Config::Parse`, its scanner and grammar, `GetRollPeriod` | component |
| `LogFiles` | `LogFiles`, `FacilityName` | component |
| `Routing` | `Config` and `LogFiles` as mclogd's main thread and `FileLogger` use them | composition of the two |
| `RollInterval` | `RollInterval` | component |
| `MessageCodec` | `Message`, `MessageHeader`, `MessageOrigin`, `Timestamp`, `Facility`, `Severity`: Write, Read, operators `<<` and `>>` | operators |
| `Pipeline` | the buffers of `MessagePacket`, packing by the senders and by `mclogger`, reading by the receivers, a binary log file, `mclog` | composition, without threads |
| `LossyDelivery` | at most once, any order, with losses | promise of `MulticastSource` |
| `ReliableFifo` | once, in order, no losses | promise of `FileLogger` |
| `LossyFifo` | at most once, in order, in batches, with losses | promise of `BatchSender` |
| `SettingsProofs` | | theorems about `Routing`, with `MessageFilter`, `Config` and `LogFiles`, and about `RollInterval` |
| `DeliveryProofs` | | theorems about `FileLogger`, and about `Pipeline` with `MessageCodec` |
| other `*Proofs` | | theorems about the module they are named after |
| `MC*` | | instances for TLC |

The operators that begin with the name of an action and describe a wrong version of
it (their comment says "Mutant") are used to find out whether a property notices that
version; `PROJECT.json` pairs them with the properties.

`Dwm::Thread::Queue` belongs to libDwm and is not part of this repository. It is
modelled from its use: `PushBack` refuses an entry when the queue is full and
otherwise wakes the thread in `ConditionWait`; `ConditionWait` returns at once when
the queue is not empty; a signal that finds nobody waiting has no effect;
`ConditionTimedWait` says whether there is an entry.

### MulticastSource

One source as the receive thread (`rpc`) and its query thread (`qpc`) see it. The
receive thread's steps are those of `ProcessPacket`, cut where the other thread can
interfere: the copy of the key (`ReceivePacket`), `ProcessBacklog`'s own copy
(`ProcessBacklogKey`), one backlog entry (`ProcessBacklogEntry`), the decryption
(`DecryptPacket`), what follows a failure (`DropKey`) or the lack of a key
(`ParkPacket`), `StartQuery`, and the pops of `ClearOldBacklog`. The query thread
asks, and assigns the answer in two steps (`QueryAssign`, `QueryAssigned`): between
them a copy of the key may be the old value, the new one or, with `TornReads`, a
mixture. A packet is a number and the key it was sent under; `spoiled` says that a
failed decryption has overwritten its bytes. Untracked packets (number 0) let the
source send for ever. Ages stop at the limits the code compares them with.
`QueryAnswered` offers the sender's current key or none; that a key request never
returns an older one is `FreshKey` of `KeyExchange`.

Run `source` (two keys, two tracked packets, a backlog of two, torn copies): the
types and the backlog's limit (`TypeOK`), order (`InOrderUnlessRequeried`), that a
failed decryption destroys no packet but the one it was tried on
(`OnlyFrontSpoiled`), that no query thread outlives the source (`NoOrphanQuery`), that
`ClearOldBacklog` is complete although it stops at the first young entry
(`ClearLeavesNoOldEntry`), and that the component implements `LossyDelivery`
(`AtMostOnce`). Order and `OnlyFrontSpoiled` carry the condition that no query was
started over an existing key (`requeried`). That happens: `ProcessPacket` decides from
a copy of the key made earlier, and when the query thread stores the key and finishes
in between, `StartQuery` starts another query, whose answer replaces the key.

Run `source_live`: `KeyRecovered`, `BacklogDrains`, `DestructorEnds`. Fairness: both
threads run (weak fairness of their steps); the clock advances (strong fairness of
`Tick`, which is not enabled inside `ClearOldBacklog`, as that reads the clock once);
the source keeps sending, and a sender that is asked again and again some day answers
with its current key (strong fairness of `ReceivePacket` and `QueryAnswered`). The
last is an assumption on the network and the remote host; the code retries with every
packet, which is all it can do.

`OnlyFrontSpoiled` also says what is lost: decryption is in place, so that a packet
that failed with the old key is overwritten before it is put on the backlog, and the
new key does not open it. After each restart of a sender the first packet is lost, and
the backlog saves the following ones.

Two keys are one restart of the sender; two tracked packets are the least that can be
reordered; a backlog of two can be full with a front and a rest.

### KeyExchange

Both state machines and a network that keeps every packet for ever: each may be
delivered at any time, any number of times or never. A request stands for its
exchange key pair, `pair` for the listener's. An id packet shows the two exchange
keys under which it is encrypted, the one that is signed, and the multicast key.
Cryptography is perfect: a packet decrypts only under the keys it was encrypted
under, and a signature is of a known user and over one key. A request may get a port that
an earlier request had, so `Client` may find that request's client state, and the
requester late packets of it. `ListenerReceive` is one turn of the listener's loop
with its `ClearExpired` at the end, `Tick` a second of that clock.

Run `key_exchange` (two ports, two requests, three listener key pairs, a restart of
the sender): `TypeOK` and `FreshKey`, a key that `GetKey` returns is one that the
sender had between the start and the end of that request. It depends on the fresh
exchange key of every request (the mutant that keeps the pair returns a key of
before the restart).

A repeated key packet that reaches the requester in state IDSent fails the assertion
on the packet length in `MessagePacket`'s constructor, against which the listener's
side guards and the requester's does not (`aborted`); the requests of that process
end there.

### LogFile

The files at `path`, `path.0` and `path.n.bz2` as sets of message numbers, the thread
that uses the `LogFile`, and the compressors. A message has a size, and the file grows
by it. `Process` either writes (`ProcessWrite`) or rolls first: `ProcessRoll`, then
`RollArchives`, `RollCurrent` (the rename to `path.0`), `StartCompressor` (`system()`,
whose result the code ignores) and `Reopen`, which writes the message. Files can fail to
open and writes can fail (`OpenFails`, `Write`); mclogd can be closed and started again
(`Close`, `Open` with `NeedRollBeforeOpen`). It can end between any two steps of a roll
(`Kill`) and among the renames of `RollArchives` (`RollArchivesCut`): killed, or by a
`filesystem_error`, which nothing catches (the only handler is for `invalid_argument`,
`DwmMclogLogFiles.cc:91`).

A compressor is a process of its own that acts by file names. It may never start; it
reads its input and creates its output (`CompressStart`), giving up when there is no
input or the output exists; then it removes its input (`CompressFinish`), is killed and
leaves a part of its output (`CompressKilled`), or fails and removes its output
(`CompressFail`). Its files may have been renamed or removed meanwhile (`Moved`,
`OrphanEnds`). Time is counted in roll periods. `clean` counts the rolls since the last
one that was disturbed: begun before `path.0` was gone or a compressor had ended, or cut
short before the file was renamed. `late` notes a message that was processed in another
period than the one of its timestamp.

Run `logfile` (keep 2, size limit 2, four messages of size 1 or 2, three periods, two
compressors): `Chronological` (archive numbers are ages, in every interleaving),
`NumbersBelowKeep`, `RetainsKeepSinceDisturbed`, `SizeBound`, `OnePeriodPerFile`.
`SizeBound` is what the code promises: the size is looked at before a message is written
(`DwmMclogLogFile.cc:324`), so the file may exceed the limit, by less than one message;
mclogd.cfg(5), too, says that a log is rolled when it exceeds the size. The
start at a disturbed roll in `RetainsKeepSinceDisturbed` is needed: a roll replaces
`path.0`, and when its compressor is still at work, has failed or was never started, a
file of messages is lost. Until that roll the file is there and can be read. No
fairness is assumed. With keep 2 three rolls are enough to remove an archive, and
two compressors to overlap; with four messages a file can have the limit exactly, exceed
it, or hold one large message.

The header calls keep the "number of files to keep (active file + archives)"
(`DwmMclogLogFile.hh:70-71`); the code and the manual page count only archives, as do
the properties here.

### RollInterval

When a period ends, by clock and calendar. `NextMark` is translated with `localtime_r`
and `mktime` as functions of a calendar (`FirstDay`, the day on which each month begins)
with one stretch of daylight saving time; `mktime` takes `tm_isdst` at its word, as the
code passes it on unchanged. `SetToCurrent` may happen at any time, `Pass` lets time go
to the next multiple of `Step`, to the last second of the interval, or to its end.

Run `conversions` (all eleven periods, from the end of January to early March, a change
of daylight saving time in each direction; a step of 10061 seconds, which has no factor
in common with any period): `SpansNow`, and `SameInterval`: asking again within the
interval gives the same end. Both conditions of `SameInterval` are needed. When daylight
saving time starts or ends within the interval, the end moves by an hour; and the
seven-day period counts the days of the month (marks at 7, 14, 21, 28 and 35), so that
its fifth interval of a month runs into the next month, whose own first mark lies
elsewhere. LogFile uses consecutive numbered periods, which is what `SpansNow` and
`SameInterval` justify. The same run checks `Pipeline`, which shares nothing with
`RollInterval`: whichever takes the first step goes on alone. It ends when the bounds on
time and messages are reached (`CHECK_DEADLOCK FALSE`).

### MessageCodec and Pipeline

`MessageCodec` has the two external forms of a message as operators from messages to
sequences of elements and back. Binary, an element is one encoded field; as text, it is
a word, a number or a character. Reading has the checks of the code: `Read` refuses a
host or program name with a character outside the permitted ones, `operator >>` skips
whatever `isspace` does (`SpaceChars`), stops at the end of a line, and gives up on a
severity it does not know and on a name that is too long. Names of facilities and
severities, and their values for unknown names, are those of the tables.

`Pipeline` follows messages through the buffers. A sender's packet is a buffer with a
put position (`Add`, `Reset`); one that does not fit is written as far as there is room
and the position set back. `RunAdd` and `RunSend` put the payload, encrypted or not, on
the network, where it can be lost; `Receive` writes the datagram over the receiver's
buffer, decrypts in place, reads messages until one cannot be read, and hands each to
the sinks, here a binary log file, written by `Write`. `Mclogger` makes a packet of its
own, and sends an empty one when the message does not fit. `Mclog` prints the messages
of the file that pass a filter.

Run `conversions` (a packet of 17 elements, texts of up to 12 characters, four messages,
a time zone in which an hour repeats): `DeliveredAsAdded`, the sinks get from a packet
what was added to it and nothing else, although both buffers keep what earlier packets
left in them; `ShownAsLogged`, what `mclog` prints, read by `operator >>`, is what the
sinks got, field for field. Their conditions are facts about the code. A message with an
invalid origin can be written but not read, and hides the rest of its packet. An empty
text makes `operator >>` read on into the next line; a space or a tab at the beginning
of a text is skipped; and a program name of the greatest length, which `Write`, `Read`
and `operator <<` accept, is refused by `operator >>` (`aidx < 255`,
`DwmMclogMessageOrigin.cc:235`). `HasOneLine` excepts exactly these, a text of two
lines, and the first second of 1970.

Four of seven different messages are logged. Four are logged by programs: one that is
ordinary, one with an empty text, one with an invalid program name and one that fits no
packet. Three are given to `mclogger`: one with two lines, one with a program name of
the greatest length (`MaxName` is 3) and one that begins with a tab. 17 elements hold
two ordinary messages, so that a third does not fit beside them; a text of 12 characters
needs 19, so it fits no packet.

Messages are typed as the code's types have it: a facility and a severity are values
of their enumerations, a text has no more characters than a `ShortString` holds
(`MaxText`, 1500 in the code), and a name any characters, as many as its `ShortString`
holds (`MaxName`, 255 in the code).

### Config, MessageFilter, LogFiles and Routing

`Config` turns a file, a sequence of stanzas and errors, into the sections of
`g_config`. A stanza replaces its section (`Reduce`), over the defaults, with the
conversions the code makes (`LogValue`, `StanzaValue`); some values end the parse
(`Rejected`). As in the grammar, a list has one element at least, a service stanza has
one setting, and anything else is an error (`Broken`); permissions are looked at in
their lower twelve bits only (`PermsOk`). An integer that is too large (`Overflow`)
makes `std::stol` throw, which nothing catches, so that mclogd ends (`Throws`,
`ReloadThrows`). Filter expressions are expanded as they are read, by a substitution
that also replaces the beginning of a longer name (`Replace`), name by name in the order
of a `std::map`. `InitConfig` does not clear the named filters. `scanner` is what flex's
buffer still holds of a file on which the parser gave up: the next `Parse` begins there.
Files are assumed to end every string and their last line, and to fit into the scanner's
buffer.

`MessageFilter` evaluates an expression as Bison's parser does: a stack, a precedence
that decides between shift and reduction, a value for every reduction. Its comparisons
keep the source's sense (severities are ordered against their numbers). `Meaning` is
the reference: the grammar without ambiguity, one level per precedence, applied to
all ways of splitting the tokens. `Tokens` is the set of tokens that expressions are
made of.

`LogFiles` selects the logs that accept a message, makes or finds its path, and keeps a
`LogFile` per path. A log whose filter is invalid is left out (`filtered` keeps the
others under their place in the configuration); as the empty expression is invalid, so
is a log without a filter. A `LogFile` has the settings of the log it was made for; of
two logs with one path that accept the message it is the first (`LogFor`). A file that
cannot be opened stays in the map. Host and program names are plain words: the code
gives them to a regular-expression replacement, where special characters would have a
meaning.

`Routing` composes them: mclogd parses at the start and on a reload (`Start`,
`ReloadParse`), then restarts the FileLogger (`ReloadRestart`), while messages are
processed and the file is edited.

Run `routing` (eleven files: usual, another directory with repeated and invalid
settings, names defined by names, a name that begins with another, two logs with one
path, no log, a rejected port, an empty stanza, an integer too large, empty, missing;
three messages that differ in host, program, facility and severity):
`RoutedAsConfigured`, against `Meaning` and the section in force; `FilesAsConfigured`,
that every `LogFile` has the settings of a log in force that sends messages to its path;
`ClosedUntilReload`, that a file which could not be opened is not tried again, and its
messages are lost, until a reload or the end of the process, and that every file is
tried again then; `CleanParse`, against `FileMeaning`, a definition of what a file says
that knows nothing of the order of reductions. Names that begin with another name are
excepted from the last, as the substitution breaks them. The run also evaluates
`ParserMatchesGrammar`: parser and `Meaning` agree on every sequence of up to four
tokens. The state space is finite without a bound; files and messages are the only
choice.

Run `config_reparse` (a finding): after a failed reload the next one starts in the rest
of the failed file, and a file without errors does not load.

### FileLogger

The queue, the thread (`wpc`), the main thread in Start and Stop (`mpc`), and any
number of threads that call `Process`. Messages are numbered as they are accepted.
What FileLogger logs about itself goes through mclogd's Logger into the same queue,
and is part of the actions (`RunBegin`, `RunCheck`, `StopLog`, `StopJoin`).

Run `filelogger` (a queue of 3, 14 messages, 3 starts):
`NoWriterWhenStopped`, `InOrderNoLoss` (it implements `ReliableFifo`), `StopReturns`,
`AcceptedWritten`. `StopReturns` deserves a comment: `Stop` clears `_run` and signals, and
the signal is lost if the thread has already read `_run` and is not asleep yet; the
wait has no time limit. `Stop` returns all the same, only because the message it logs
before the signal is put in the very queue the thread waits for (the mutant without
that message hangs). Fairness: the two threads run. The main thread may end
(`CHECK_DEADLOCK FALSE`: mclogd exits).

### BatchSender

`LoopbackSender` and `MulticastSender` have the same loop: pop messages into one packet,
send it when the next one does not fit or when a second passes without a message. They
differ in what is left when Run ends. `LoopbackSender` sends the packet, but is stopped
only by its destructor (`DwmMclogLoopbackSender.cc:62`), which frees its queue.
`MulticastSender` leaves the packet, but keeps its queue from Close to the next Open. A
`LoopbackSender` gets no messages while it is destroyed: its Logger holds the mutex that
a call of Process needs. A Start after that is a new `LoopbackSender`. A message has a
size and the packet a payload length; a message that fits no packet is dropped.

Run `sender` (capacity 2, sizes 1 to 3, a queue of 2, three tracked messages, endless
untracked ones, any number of restarts): `SentInOrder` (it implements `LossyFifo`),
`LostOnlyWhenStopped` (what is lost, other than by its size or a failed send, is at the
end of a `MulticastSender` in the packet, at the end of a `LoopbackSender` in the queue,
where its thread left it after its last look), `NotHeldForever`, `StopReturns`. The
inner loop does not look at `_run`, so that steady traffic can keep Close waiting; for
`MulticastSender` `StopReturns` therefore assumes that the queue stops growing some day.
Fairness: the threads run, and a wait that nothing ends times out.

### Logger

The list of sinks, `_sinksMtx`, and the threads that use them: those of the program,
and the thread of the `LoopbackSender` that `Open` makes for itself, which logs when a
send fails. `Log` holds the mutex from `LogLock` to `LogUnlock`; `AddSinks` and
`RemoveSinks` go through their list under it; `SetSinks` and `Close` join the sender
under it. The program destroys a sink only when it is not listed, as the header asks
(`DestroySink`). A second `Open` without sinks forgets the earlier sender.

Run `logger` (two threads, two sinks of which one logs itself, two senders, all lists
without repetition): `NoCallToDestroyed`, and `MutexReleased`: the mutex is released
again except in two situations that the model reaches, a sink that logs (a second lock
by the same thread) and a join of the sender while its thread waits for the mutex to
log. mclogd itself meets neither: its sinks only queue. Fairness: the holder of the
mutex goes on and a stopped sender's thread ends. Nothing is assumed of who gets the
mutex next, so no property says that a thread gets it. A self-deadlock may stop
everything (`CHECK_DEADLOCK FALSE`).

### Mclogd

The main thread executes lists of operations on the components: `StartTask` (main up
to its loop), `ReloadTask` (Restart), `ExitTask` (after SIGTERM). Each operation is
the whole call: `Stop` and `Join` for Stop or Close, `StartFiles`, `OpenSender`,
`OpenReceiver`, `StartLoopback`, `Parse`. They differ as in the code: the sender needs
every configured socket and leaves the others open when one fails; the receiver is
content with one and closes everything otherwise; the loopback receiver opens its
sockets in its own thread (`LoopbackOpen`), after Start has returned. Every socket,
pipe and the file can fail; main ignores that at the start, and Restart stops at the
first failure (`Finish`). An `outFilter` that is no expression makes `Open` of the
sender throw, which nothing catches (`OpenSenderThrows`), and so does an integer that
is too large for the scanner (`ParseThrows`). After a failed parse the
scanner may hold a part of that file (`Residue`; `Config` has the details), so the next
parse may give anything. `failed` notes a failure since the last start or reload.

A new thread inherits the mask of the thread that creates it (`Spawn`). A signal is
pending until sigwait takes it or, while the main thread is not in sigwait, until some
thread that does not block it gets it (`Deliver`), which ends the process. That
sigwait is preferred while the main thread is in it is how Linux behaves; POSIX leaves
it open, so other systems may kill the daemon in more cases. Query threads are started
by the receiver's thread, inherit its mask and are not ended by Close.

Run `mclogd` (a configuration with everything, the default one, one with a bad
`outFilter` and a file that does not parse; any number of edits, signals and reloads):
`NoJoinableLost` (no
`std::thread` is overwritten or destroyed while joinable), `ReloadApplied` (after a
reload without failures everything the file asks for runs as it says, and nothing else
has a thread or a socket, whatever failed earlier),
`SocketsOwned`, `SignalsBlockedAfterReload`, `TaskEnds` and `LatestConfigLoaded` (a
SIGHUP during a reload that has read the file already is not lost). Fairness: the main
thread and the components' threads run; nothing is assumed of signals, edits or
query threads. The state has no counter, so the configurations and the families
are the only bound: one of them asks for everything, one for nothing but the IPv4 loopback
socket, so a reload can add and remove each component. The process may end
(`CHECK_DEADLOCK FALSE`).

Run `mclogd_hup` (a finding): the threads of the first start were created before
main blocked the signals, so a second SIGHUP during the first reload ends mclogd.

## Proofs

TLAPS checks every proof; the theorems hold for every value of the constants that
satisfies the named assumptions (limits and bounds are natural numbers, positive where
a zero makes no sense). The bounds on counters are constants, so the theorems hold
for any number of messages, keys, requests and restarts.

* `MulticastSourceProofs`: `TypeCorrect`, `InOrder`, `SpoiledInFront`,
  `QueryThreadEnded`, `OldEntriesCleared`, `Implements`. The inductive invariant has
  parts that always hold: the query thread's position agrees with `_queryDone`, and an
  erased source has neither thread nor backlog (`QueryThreadInv`); the backlog is
  sorted by age (`AgesInv`, why `ClearOldBacklog` may stop early); a tracked packet is
  in one place only (`PlaceInv`). The others hold unless a query was started over an
  existing key: no query runs while there is a key, and a key that was copied does not
  vanish before `ProcessBacklog` copies it again (`KeyInv`); what is delivered is older
  than the backlog, the backlog is in order and older than the packet in hand
  (`OrderInv`); only the front is spoiled (`SpoiledInv`). Without that condition order
  is not inductive, and not true.
* `DeliveryProofs`, about messages on their way (`FileLogger`, `Pipeline`, `MessageCodec`):
  * `TypeCorrect`, `StoppedForGood`, `Implements` (`ReliableFifo`) of FileLogger. The
    invariant (`Numbered`): the numbers in what is written, in the thread's list and in
    the queue follow each other without a gap, and the list is empty outside its loop.
  * `MessagesDelivered` (`DeliveredAsAdded`), for every room, time zone, length of text,
    and all messages and calls of mclogger. The invariant (`PacketInv`) says that a
    sender's buffer, up to the put position, holds the forms of the messages of `held`,
    one after the other (`Packed`), whatever lies behind them; that a datagram holds the
    forms of its messages, or their cipher (`Carries`); and that the receiver's buffer
    has the size of the sender's. What `ReadAll` makes of such a payload follows from
    the uniqueness of its recursive function (`IsScan`), which is followed along the
    offsets at which the forms begin (`Follow`), up to the first message that `Read`
    refuses.
  * `ShownIsLogged` (`ShownAsLogged`), from the same assumptions. `FileInv` adds to
    `PacketInv` that only messages with valid names went to the sinks and that the log
    file is the chain of their binary forms (`Chained`), so that `ReadAll` of the file
    gives them back. The text that `mclog` prints is a chain of lines in the same sense.
    `Line` says what stands where in the line of a message and `LineRead`, a lemma about
    all messages with valid names and one line of text, that `operator >>` finds these
    fields and the newline: a valid name has neither a space nor a bracket, so that the
    words end where they should and the process identifier is where `Find` looks; the names
    in the tables of facilities and severities are different. Reading the whole text then
    follows the ends of the lines (`FollowTo`), up to the first message without such a
    line.
* `LoggerProofs`: `CallsLiveSinks`, for any number of threads, sinks, senders and
  lists. The invariant: only the holder of the mutex is where it is needed
  (`Exclusive`); what is listed, or about to be, exists (`ListedAlive`); what `Log` has
  yet to call is listed (`LeftListed`); the list is empty while the sender is deleted
  (`Cleared`). The last two are why the mutex must cover the calls of the sinks and
  the emptying of the list.
* `KeyExchangeProofs`: `TypeCorrect`, `KeyIsFresh`. The invariant: nobody knows the exchange key of a
  request that has not begun (`KeysKnown`), so that whatever is signed for the current
  request was signed after it began, with the key of that time (`AnswersFresh`).

* `MclogdProofs`: `TypeCorrect`, `NoThreadLost`, `ReloadIsApplied`, `SocketsAreOwned`,
  `SignalsAreBlocked`, for any set of configurations, and `SignalsOnlyTaken`: once a
  reload was complete and older query threads have ended, no step ends the process by a
  signal. What is left to do is an end of the task's list (`TodoOK`), so that the
  number of operations left says which have been done. With it the invariant says that
  a thread is told to end only by the Stop that joins it (`ToldByStop`); what is about
  to be started, or was stopped for good, has no thread and no sockets
  (`DownIsNone`), which is why no thread is lost; components are started with a
  configuration (`ConfigRead`); each is as that configuration asks from its start on,
  unless something failed (`Applied`), and owns its sockets (`Owned`); signals are
  blocked before the first wait (`BlockedAfterStart`), hence in every thread that a
  reload has started (`MaskedByReload`).
* `LogFileProofs`: `TypeCorrect`, `NumbersStayBelowKeep`, `ArchivesChronological`,
  `SizeStaysBounded`, `FilesHaveOnePeriod`, `RetainsAll`, for every keep, size limit,
  and any sizes and number of messages, periods and compressors. `Basic` is inductive: types; the
  file is there or not according to the step of the roll (`Places`); files hold only
  messages that were written (`Bounded`), which makes every new message newer than all
  that is on disk. Relative to it, `Chronological`, `NumbersBelowKeep` and `SizeBound`
  are inductive as they stand; the last needs only that a message is written when the
  size is below the limit. `PeriodInv` adds that the interval in force while the
  file can be written is that of the file's modification time and of its messages,
  unless one was late. `RetainInv` says of the files that were rolled
  since the last disturbed roll: while a roll has made room for the next one, each is a
  complete archive, one number further, and no compressor is at work (`MadeRoom`); at
  any other time each is there under its number, the only compressor is that of the last
  roll, and its files are `path.0` and `path.0.bz2` (`InPlace`), so that whichever way it
  ends, one of the two is whole.
* `BatchSenderProofs`: `TypeCorrect`, `Implements` (`LossyFifo`), `LosesOnlyWhenStopped`, for
  every capacity, queue limit and message size. The invariant: what was sent, the
  packet, the message in hand and the queue, in this order, hold ascending numbers
  (`Order`); a packet with an empty payload holds no message, there is a message in
  hand only while a full packet is being sent, and a stopped sender has no thread
  (`Idle`).
* `SettingsProofs`, about the settings of a log (`MessageFilter`, `Config`, `LogFiles`,
  `Routing`, `RollInterval`):
  * `ParserIsGrammar`: for every expression over any set of tokens, and every message,
    the parser accepts exactly when `Meaning` has a value, and computes that value. The
    parser's stack after n tokens is described by the grammar: between its operators and
    open parentheses it holds the values of the spans that were reduced, each as large as
    the precedence of its neighbours allows (`Fits`, `Filled`), and the next token keeps
    that so (`ShiftParsed`). The grammar, by levels, gives a span no two values
    (`ParserSound`, `Valued`). The proofs by induction over the length look at the least
    counterexample (`Least`).
  * `MessagesRoutedAsConfigured`, for any configuration files, messages, edits and
    reloads. The invariant: what was parsed, and what is in force, is a files section
    whose filters are expressions and whose paths are lists of words (`Configured`),
    which is a fact about every fold of `Parse` (`ParseTyped` and the lemmas it rests
    on); and a cached path is the path of every message and log that have its key
    (`CacheRight`), although the log directory is no part of the key, as the cache is
    emptied whenever the directory can change.
  * `FilesHaveTheirSettings`, from the same invariant: a `LogFile` is made for a log that
    accepts a message and whose path, cached or not, is its own (`LogOfPath`), and an
    accepting log in force is one whose filter has the value true (`RightLog`).
  * `ClosedFilesStayClosed`, an action property: apart from the restart of the FileLogger
    and the end of the process no step takes a `LogFile` out of the map or opens one that is
    in it, and those two empty the map (`FilesTyped`: a process that has ended has neither files
    nor a thread that makes them).
  * `IntervalSpansNow`, `IntervalIsStable`, for every sequence of months of 28 to 31
    days, every start and end of daylight saving time and all times. The invariant says
    only that the end of the interval is `NextMark` of the time it was computed for; the
    work is in the arithmetic. For all periods but the week, the next mark is in local
    time the next multiple of the period (`Grid`): minutes, hours and days divide one
    another, so carrying from field to field does not matter. Two times in the same
    interval then have the same next multiple (`SameNext`). For the week the marks are
    counted from the first of the month (`Week`).

  They assume what the scanner guarantees: the kinds of token there are
  (`TokensAssumption`), names in the order of a `std::map` (`FilterNamesAssumption`), and
  files that are sequences of stanzas with values of the right type (`FilesAssumption`).

Only model-checked: all liveness properties (TLAPS does not handle fairness or
ENABLED); `CleanParse` of `Routing`, where the
reference is a recursive reading of a whole file that each proof step would have to
follow through three levels of folds; the findings.

## Findings

| run | what |
|---|---|
| `mclogd_hup` | a second SIGHUP during the first reload ends mclogd |
| `config_reparse` | a file without errors does not load after one with an error |

## Not modelled

The bytes within an encoded field, file ownership and permissions, socket options, the
characters of configuration files and filters (their tokens are modelled), the
command lines of the programs and the start of `mclog`'s live mode, `UnixReceiver`
(unused), `UdpEndpoint` (a model value wherever it is used), the streams and syslog
behind the output sinks, a binary log file torn by a crash, the destruction of static
objects at exit. Two data races are left out as well: `MulticastSender::Open` replaces
`_filterDriver` while other threads may be in `PassesFilter`
(`DwmMclogMulticastSender.cc:205`), and `MulticastReceiver::Open` assigns the
configuration that a query thread may be reading.
`PROJECT.json` lists every component with its status.

## Plan

Done: the path of a message from the Logger to the files and from the group to the
files, one component at a time, and its forms on the way; the key exchange; the
configuration with its filters and the routing by it; the daemon around them; proofs
of the safety properties of every component (but for `CleanParse`, see above).

Next, in this order:

1. Compositions: `KeyExchange` with `MulticastSource`, `FileLogger` with `LogFile`,
   `Mclogd` with `MulticastSource` (a query thread and the configuration it reads).
2. The packet loops of `LoopbackReceiver` and `MulticastReceiver` (an IPv4 packet is
   always preferred), with the sinks behind them.
