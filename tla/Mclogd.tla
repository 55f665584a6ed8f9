------------------------------- MODULE Mclogd -------------------------------
(***************************************************************************)
(* The daemon: mclogd's main thread, the threads of its four components    *)
(* (LoopbackReceiver, MulticastSender, MulticastReceiver, FileLogger), the *)
(* sockets these open, and the signals that make it reload or end.         *)
(*                                                                         *)
(* What the main thread does at start, on SIGHUP and on SIGTERM is a list  *)
(* of operations on the components; `todo' is what is left of it.  SIGINT  *)
(* is treated like SIGTERM by the code and is not told apart here.  The    *)
(* key request listener starts and ends with MulticastSender and is part   *)
(* of its thread.  What the components do with messages is not modelled    *)
(* here, and neither are the PID file and the Logger.                      *)
(*                                                                         *)
(* Signals are sent to the process.  While the main thread waits in        *)
(* sigwait it gets them.  Else any thread that does not block them does,   *)
(* which ends the process, as mclogd installs no handler; if every thread  *)
(* blocks them they stay pending.                                          *)
(***************************************************************************)
EXTENDS Sequences

CONSTANTS
  Configs,   \* what the configuration file may say
  NoConfig   \* a file that does not parse; a component never started

Families   == {"ipv4", "ipv6"}
Components == {"loopback", "sender", "receiver", "files"}
Signals    == {"HUP", "TERM"}

\* Per component the sockets the configuration asks for, for the files whether any
\* log is configured, and whether the outFilter, if there is one, is an expression.
ConfigType == [loopback : SUBSET Families, sender : SUBSET Families,
               receiver : SUBSET Families, files : BOOLEAN, outFilter : BOOLEAN]

ASSUME ConfigsAssumption ==
  /\ Configs # {}
  /\ Configs \subseteq ConfigType
  /\ NoConfig \notin ConfigType

VARIABLES
  status,    \* the process: "alive", "exit", "abort", or the signal that ended it
  file,      \* what the configuration file says (environment)
  task,      \* what the main thread is doing
  todo,      \* operations left of the task
  joining,   \* whether the main thread waits in join()
  blocked,   \* whether the main thread blocks the signals
  pending,   \* signals sent to the process and not taken yet
  config,    \* g_config
  conf,      \* per component: its _config
  run,       \* per component: its _run
  thread,    \* per component: where its thread is; "none" if not joinable
  masked,    \* per component: whether its thread blocks the signals
  open,      \* per component: its open sockets
  query,     \* whether some query thread, which may outlive the receiver's thread
             \* that started it, does not block the signals
  failed,    \* history: an operation of the last start or reload failed
  reloaded   \* history: a reload was complete

mainVars == <<status, task, todo, joining, blocked, pending, config>>
compVars == <<conf, run, thread, masked, open>>
vars == <<mainVars, compVars, file, query, failed, reloaded>>

Wanted(cfg, c) == IF c = "files" THEN cfg.files ELSE cfg[c] # {}

Live(c) == thread[c] \in {"begin", "running"}

\* Some thread would be ended by a signal.
Exposed == ~blocked \/ query \/ \E c \in Components : Live(c) /\ ~masked[c]

-----------------------------------------------------------------------------
(* What the main thread does                                               *)

StopOp(c)  == <<"stop", c>>
StartOp(c) == <<"start", c>>
RestartOps(c) == <<StopOp(c), StartOp(c)>>
ParseOp == <<"parse", "config">>

\* main() up to its loop.
StartTask ==
  <<ParseOp, StartOp("sender"), StartOp("files"), StartOp("loopback"), StartOp("receiver")>>

\* Mutant: FileLogger::Restart does not stop the FileLogger.
ReloadTaskNoStop ==
  <<StopOp("loopback"), ParseOp, StartOp("files")>> \o RestartOps("sender")
    \o RestartOps("receiver") \o RestartOps("loopback")

\* Mutant: the loopback receiver is left out.
ReloadTaskNoLoopback ==
  <<StopOp("loopback"), ParseOp>> \o RestartOps("files") \o RestartOps("sender")
    \o RestartOps("receiver")

\* Restart()
ReloadTask ==
  <<StopOp("loopback"), ParseOp>> \o RestartOps("files") \o RestartOps("sender")
    \o RestartOps("receiver") \o RestartOps("loopback")

\* main() after SIGTERM.
ExitTask == <<StopOp("loopback"), StopOp("sender"), StopOp("files"), StopOp("receiver")>>

Doing(op) == status = "alive" /\ todo # <<>> /\ Head(todo) = op /\ ~joining

\* An operation that succeeds, or fails where the code goes on regardless.
Proceed == todo' = Tail(todo)

\* main() ignores what the operations return; Restart() gives up.
Finish(ok) ==
  /\ failed' = (failed \/ ~ok)
  /\ IF ok \/ task = "start" THEN Proceed ELSE todo' = <<>>

\* The parse before this one failed: the scanner may still have a part of that file.
Residue == task = "reload" /\ config = NoConfig

\* Config::Parse overwrites g_config in any case.  At start, main() returns when the
\* file does not parse.  What an earlier parse left makes this one fail, or is
\* applied before the file.
Parse(cfg) ==
  /\ Doing(ParseOp)
  /\ cfg = file \/ Residue
  /\ config' = cfg
  /\ status' = IF cfg = NoConfig /\ task = "start" THEN "exit" ELSE status
  /\ Finish(cfg # NoConfig)
  /\ UNCHANGED <<file, task, joining, blocked, pending, query, reloaded>>
  /\ UNCHANGED compVars

\* A number in the file may be too large for the scanner's std::stol, which throws;
\* nothing catches that: std::terminate.
ParseThrows ==
  /\ Doing(ParseOp)
  /\ file = NoConfig \/ Residue
  /\ status' = "abort"
  /\ UNCHANGED <<task, todo, joining, blocked, pending, config, file, query, failed,
                 reloaded>>
  /\ UNCHANGED compVars

\* Mutant: the thread is not told to end.
StopNoFlag(c) ==
  /\ Doing(StopOp(c))
  /\ joining' = TRUE
  /\ UNCHANGED <<status, file, task, todo, blocked, pending, config, conf, run, thread,
                 masked, open, query, failed, reloaded>>

\* Stop() or Close(): tell the thread to end ...
Stop(c) ==
  /\ Doing(StopOp(c))
  /\ run' = [run EXCEPT ![c] = FALSE]
  /\ joining' = TRUE
  /\ UNCHANGED <<status, file, task, todo, blocked, pending, config, conf, thread,
                 masked, open, query, failed, reloaded>>

\* ... and wait for it, if there is one; then close the sockets, which
\* LoopbackReceiver leaves to its thread.
Join(c) ==
  /\ status = "alive"
  /\ joining
  /\ Head(todo) = StopOp(c)
  /\ thread[c] \in {"none", "done"}
  /\ joining' = FALSE
  /\ Proceed
  /\ thread' = [thread EXCEPT ![c] = "none"]
  /\ open' = IF c = "loopback" THEN open ELSE [open EXCEPT ![c] = {}]
  /\ UNCHANGED <<status, file, task, blocked, pending, config, conf, run, masked,
                 query, failed, reloaded>>

\* A new thread has the signal mask of the thread that creates it.
Spawn(c, where) ==
  /\ run' = [run EXCEPT ![c] = TRUE]
  /\ thread' = [thread EXCEPT ![c] = where]
  /\ masked' = [masked EXCEPT ![c] = blocked]

StartFrame == UNCHANGED <<status, file, task, joining, blocked, pending, config,
                          query, reloaded>>

\* FileLogger::Start.  Without any log there is nothing to do.
StartFiles ==
  /\ Doing(StartOp("files"))
  /\ IF config.files
     THEN Spawn("files", "running") /\ conf' = [conf EXCEPT !["files"] = config]
     ELSE UNCHANGED <<conf, run, thread, masked>>
  /\ Finish(TRUE)
  /\ UNCHANGED open
  /\ StartFrame

\* OpenSocket and OpenSocket6 of MulticastSender: of the sockets that are wanted
\* and not open these can be set up; one that cannot is closed again.
SenderOpens(opened) == opened \subseteq config.sender \ open["sender"]

\* MulticastSender::Open.  All sockets the configuration asks for must open,
\* and the key request listener must start; else what is open stays open.
OpenSender(opened, listenerOk) ==
  LET sockets == open["sender"] \cup opened
      wanted  == config.sender
      ok      == sockets = wanted /\ listenerOk
  IN /\ Doing(StartOp("sender"))
     /\ config.outFilter
     /\ SenderOpens(opened)
     /\ conf' = [conf EXCEPT !["sender"] = config]
     /\ open' = [open EXCEPT !["sender"] = sockets]
     /\ IF ok /\ wanted # {}
        THEN Spawn("sender", "running")
        ELSE UNCHANGED <<run, thread, masked>>
     /\ Finish(wanted = {} \/ ok)
     /\ StartFrame

\* With an outFilter that is no expression MessageFilterDriver's constructor throws,
\* which nothing catches: std::terminate.
OpenSenderThrows ==
  /\ Doing(StartOp("sender"))
  /\ ~config.outFilter
  /\ status' = "abort"
  /\ UNCHANGED <<task, todo, joining, blocked, pending, config, file, query, failed,
                 reloaded>>
  /\ UNCHANGED compVars

\* The same for MulticastReceiver, whose sockets also join a group.
ReceiverOpens(opened) == opened \subseteq config.receiver \ open["receiver"]

\* MulticastReceiver::Open.  One socket is enough; without any it calls Close().
OpenReceiver(opened, pipeOk) ==
  LET sockets == open["receiver"] \cup opened
      wanted  == config.receiver
      ok      == sockets \cap wanted # {} /\ pipeOk
  IN /\ Doing(StartOp("receiver"))
     /\ ReceiverOpens(opened)
     /\ conf' = [conf EXCEPT !["receiver"] = config]
     /\ IF wanted = {} THEN UNCHANGED <<run, thread, masked, open>>
        ELSE IF ok THEN /\ Spawn("receiver", "running")
                        /\ open' = [open EXCEPT !["receiver"] = sockets]
        ELSE /\ open' = [open EXCEPT !["receiver"] = {}]
             /\ run' = [run EXCEPT !["receiver"] = FALSE]
             /\ UNCHANGED <<thread, masked>>
     /\ Finish(wanted = {} \/ ok)
     /\ StartFrame

\* LoopbackReceiver::Start: the sockets are opened by the thread.
StartLoopback(pipeOk) ==
  /\ Doing(StartOp("loopback"))
  /\ conf' = [conf EXCEPT !["loopback"] = config]
  /\ IF pipeOk
     THEN Spawn("loopback", "begin")
     ELSE run' = [run EXCEPT !["loopback"] = TRUE] /\ UNCHANGED <<thread, masked>>
  /\ Finish(pipeOk)
  /\ UNCHANGED open
  /\ StartFrame

\* Mutant: the signals are not blocked.
BlockSigHupAndTermNot ==
  /\ status = "alive"
  /\ task \in {"start", "reload"}
  /\ todo = <<>>
  /\ task' = "wait"
  /\ reloaded' = (reloaded \/ (task = "reload" /\ ~failed))
  /\ UNCHANGED <<status, file, todo, joining, blocked, pending, config, query, failed>>
  /\ UNCHANGED compVars

\* Mutant: signals that came meanwhile are thrown away.
BlockSigHupAndTermDrop ==
  /\ status = "alive"
  /\ task \in {"start", "reload"}
  /\ todo = <<>>
  /\ task' = "wait"
  /\ blocked' = TRUE
  /\ pending' = {}
  /\ reloaded' = (reloaded \/ (task = "reload" /\ ~failed))
  /\ UNCHANGED <<status, file, todo, joining, config, query, failed>>
  /\ UNCHANGED compVars

\* The start or the reload is over: block the signals and call sigwait.
BlockSigHupAndTerm ==
  /\ status = "alive"
  /\ task \in {"start", "reload"}
  /\ todo = <<>>
  /\ task' = "wait"
  /\ blocked' = TRUE
  /\ reloaded' = (reloaded \/ (task = "reload" /\ ~failed))
  /\ UNCHANGED <<status, file, todo, joining, pending, config, query, failed>>
  /\ UNCHANGED compVars

\* sigwait returns a signal.
WaitSigHupOrTerm(s) ==
  /\ status = "alive"
  /\ task = "wait"
  /\ s \in pending
  /\ pending' = pending \ {s}
  /\ task' = IF s = "HUP" THEN "reload" ELSE "exit"
  /\ todo' = IF s = "HUP" THEN ReloadTask ELSE ExitTask
  /\ failed' = IF s = "HUP" THEN FALSE ELSE failed
  /\ UNCHANGED <<status, file, joining, blocked, config, query, reloaded>>
  /\ UNCHANGED compVars

\* exit(0)
Exit ==
  /\ status = "alive"
  /\ task = "exit"
  /\ todo = <<>>
  /\ status' = "exit"
  /\ UNCHANGED <<file, task, todo, joining, blocked, pending, config, query,
                 failed, reloaded>>
  /\ UNCHANGED compVars

-----------------------------------------------------------------------------
(* The components' threads                                                 *)

\* OpenIpv4Socket and OpenIpv6Socket of LoopbackReceiver: these can be bound.
LoopbackOpens(opened) == opened \subseteq conf["loopback"].loopback

\* Mutant: a socket that could be opened is not closed when another could not.
LoopbackOpenNoClose(opened) ==
  /\ status = "alive"
  /\ thread["loopback"] = "begin"
  /\ LoopbackOpens(opened)
  /\ open' = [open EXCEPT !["loopback"] = @ \cup opened]
  /\ thread' = [thread EXCEPT !["loopback"] =
                  IF open'["loopback"] = conf["loopback"].loopback THEN "running" ELSE "done"]
  /\ failed' = (failed \/ thread'["loopback"] = "done")
  /\ UNCHANGED <<run, conf, masked, file, query, reloaded>>
  /\ UNCHANGED mainVars

\* LoopbackReceiver::Run: exactly the configured sockets must be open.
LoopbackOpen(opened) ==
  LET wanted  == conf["loopback"].loopback
      sockets == (open["loopback"] \ wanted) \cup opened
  IN /\ status = "alive"
     /\ thread["loopback"] = "begin"
     /\ LoopbackOpens(opened)
     /\ IF sockets = wanted
        THEN /\ open' = [open EXCEPT !["loopback"] = sockets]
             /\ thread' = [thread EXCEPT !["loopback"] = "running"]
             /\ UNCHANGED <<run, failed>>
        ELSE /\ open' = [open EXCEPT !["loopback"] = {}]
             /\ thread' = [thread EXCEPT !["loopback"] = "done"]
             /\ run' = [run EXCEPT !["loopback"] = FALSE]
             /\ failed' = (failed \/ run["loopback"])
     /\ UNCHANGED <<conf, masked, file, query, reloaded>>
     /\ UNCHANGED mainVars

\* The loop of LoopbackReceiver::Run ends: the thread closes its sockets.
LoopbackEnd ==
  /\ status = "alive"
  /\ thread["loopback"] = "running"
  /\ ~run["loopback"]
  /\ thread' = [thread EXCEPT !["loopback"] = "done"]
  /\ open' = [open EXCEPT !["loopback"] = {}]
  /\ UNCHANGED <<conf, run, masked, file, query, failed, reloaded>>
  /\ UNCHANGED mainVars

\* The loop of another Run() ends; Close() takes care of the sockets.
ThreadEnd(c) ==
  /\ status = "alive"
  /\ thread[c] = "running"
  /\ ~run[c]
  /\ thread' = [thread EXCEPT ![c] = "done"]
  /\ UNCHANGED <<conf, run, masked, open, file, query, failed, reloaded>>
  /\ UNCHANGED mainVars

\* A packet of an unknown source makes the receiver's thread start a query
\* thread, which has the same mask.
QueryStart ==
  /\ status = "alive"
  /\ thread["receiver"] = "running"
  /\ query' = (query \/ ~masked["receiver"])
  /\ UNCHANGED <<file, failed, reloaded>>
  /\ UNCHANGED mainVars
  /\ UNCHANGED compVars

\* The last one that does not block the signals ends.
QueryEnd ==
  /\ status = "alive"
  /\ query
  /\ query' = FALSE
  /\ UNCHANGED <<file, failed, reloaded>>
  /\ UNCHANGED mainVars
  /\ UNCHANGED compVars

-----------------------------------------------------------------------------
(* The environment                                                         *)

EditFile(cfg) ==
  /\ status = "alive"
  /\ file' = cfg
  /\ UNCHANGED <<query, failed, reloaded>>
  /\ UNCHANGED mainVars
  /\ UNCHANGED compVars

\* A signal for the process; one that is pending already is not counted twice.
Kill(s) ==
  /\ status = "alive"
  /\ pending' = pending \cup {s}
  /\ UNCHANGED <<status, task, todo, joining, blocked, config, file, query, failed, reloaded>>
  /\ UNCHANGED compVars

\* A thread that does not block it gets the signal.
Deliver(s) ==
  /\ status = "alive"
  /\ s \in pending
  /\ task # "wait"
  /\ Exposed
  /\ status' = s
  /\ UNCHANGED <<task, todo, joining, blocked, pending, config, file, query, failed,
                 reloaded>>
  /\ UNCHANGED compVars

-----------------------------------------------------------------------------
Init ==
  /\ status = "alive"
  /\ file \in Configs \cup {NoConfig}
  /\ task = "start"
  /\ todo = StartTask
  /\ joining = FALSE
  /\ blocked = FALSE
  /\ pending = {}
  /\ config = NoConfig
  /\ conf = [c \in Components |-> NoConfig]
  /\ run = [c \in Components |-> FALSE]
  /\ thread = [c \in Components |-> "none"]
  /\ masked = [c \in Components |-> FALSE]
  /\ open = [c \in Components |-> {}]
  /\ query = FALSE
  /\ failed = FALSE
  /\ reloaded = FALSE

MainStep ==
  \/ \E cfg \in Configs \cup {NoConfig} : Parse(cfg)
  \/ ParseThrows
  \/ \E c \in Components : Stop(c) \/ Join(c)
  \/ StartFiles
  \/ OpenSenderThrows
  \/ \E opened \in SUBSET Families, ok \in BOOLEAN :
       OpenSender(opened, ok) \/ OpenReceiver(opened, ok)
  \/ \E ok \in BOOLEAN : StartLoopback(ok)
  \/ BlockSigHupAndTerm
  \/ \E s \in Signals : WaitSigHupOrTerm(s)
  \/ Exit

ThreadStep ==
  \/ \E opened \in SUBSET Families : LoopbackOpen(opened)
  \/ LoopbackEnd
  \/ \E c \in Components \ {"loopback"} : ThreadEnd(c)

Next ==
  \/ MainStep
  \/ ThreadStep
  \/ QueryStart
  \/ QueryEnd
  \/ \E cfg \in Configs \cup {NoConfig} : EditFile(cfg)
  \/ \E s \in Signals : Kill(s) \/ Deliver(s)

Spec == Init /\ [][Next]_vars

\* The main thread and the components' threads run.
FairSpec == Spec /\ WF_vars(MainStep) /\ WF_vars(ThreadStep)

-----------------------------------------------------------------------------
(* Properties                                                              *)

Ops == {ParseOp} \cup {StopOp(c) : c \in Components} \cup {StartOp(c) : c \in Components}

\* Every variable has its type, and the main thread waits in join() only within
\* a Stop or Close.
TypeOK ==
  /\ status \in {"alive", "exit", "abort"} \cup Signals
  /\ file \in Configs \cup {NoConfig}
  /\ task \in {"start", "wait", "reload", "exit"}
  /\ todo \in Seq(Ops)
  /\ joining \in BOOLEAN
  /\ joining => todo # <<>> /\ Head(todo) \in {StopOp(c) : c \in Components}
  /\ blocked \in BOOLEAN
  /\ pending \in SUBSET Signals
  /\ config \in Configs \cup {NoConfig}
  /\ conf \in [Components -> Configs \cup {NoConfig}]
  /\ run \in [Components -> BOOLEAN]
  /\ thread \in [Components -> {"none", "begin", "running", "done"}]
  /\ masked \in [Components -> BOOLEAN]
  /\ open \in [Components -> SUBSET Families]
  /\ query \in BOOLEAN
  /\ failed \in BOOLEAN
  /\ reloaded \in BOOLEAN

\* No std::thread is assigned to, or destroyed at exit, while it is joinable
\* (that would be std::terminate), whichever operations of earlier reloads
\* failed and whichever threads have ended by themselves.
NoJoinableLost ==
  /\ \A c \in Components : Doing(StartOp(c)) => thread[c] = "none"
  /\ status = "exit" => \A c \in Components : thread[c] = "none"

\* After a start or a reload in which nothing failed, the components that the
\* configuration asks for and LoopbackReceiver run with it and have their sockets;
\* no other has a thread or a socket, however many reloads failed before.
ReloadApplied ==
  status = "alive" /\ task = "wait" /\ ~failed =>
    \A c \in Components :
      /\ Live(c) <=> c = "loopback" \/ Wanted(config, c)
      /\ Live(c) => conf[c] = config
      /\ ~Live(c) => thread[c] = "none" /\ open[c] = {}
      /\ thread[c] = "running" /\ c \in {"loopback", "sender"} => open[c] = config[c]
      /\ c = "receiver" => open[c] \subseteq config[c] /\ (Live(c) => open[c] # {})

\* A socket is open only while a thread uses it and until it is joined.  The
\* one exception is MulticastSender::Open, which leaves the sockets it could
\* open when another could not, until the next reload.
SocketsOwned ==
  \A c \in Components :
    open[c] # {} => thread[c] # "none" \/ (c = "sender" /\ (failed \/ task # "wait"))

\* The threads of the first start do not block the signals, as main blocks them
\* only afterwards.  After one complete reload every component's thread blocks
\* them; only a query thread from before may still be hit.
SignalsBlockedAfterReload ==
  reloaded => blocked /\ \A c \in Components : Live(c) => masked[c]

\* A reload ends, and so does the shutdown, unless the process is killed.
TaskEnds == task \in {"reload", "exit"} ~> task = "wait" \/ status # "alive"

\* A SIGHUP loads what the file says when it is sent, or something newer, even
\* if it comes while an earlier reload has already read the file; unless the
\* parse before failed, when the scanner may have something left of that file.
LatestConfigLoaded ==
  \A cfg \in Configs :
    ("HUP" \in pending /\ file = cfg /\ config # NoConfig) ~>
      (config = cfg \/ file # cfg \/ status # "alive")

\* "mclogd will reload the configuration on the reception of SIGHUP": a SIGHUP
\* that comes after the start never ends the process.
HupReloads == [][task # "start" => status' # "HUP"]_vars
=============================================================================
