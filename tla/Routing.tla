------------------------------ MODULE Routing ------------------------------
(***************************************************************************)
(* From the configuration file to the log files: mclogd parses the file    *)
(* when it starts and on every SIGHUP (Config), and the FileLogger gives   *)
(* its files section to LogFiles and writes messages according to it.      *)
(* The main thread parses first and restarts the FileLogger afterwards;    *)
(* messages are processed all the time, and the file may be edited at any  *)
(* time.  Queues and threads are FileLogger's and Mclogd's matter and are  *)
(* not modelled again here.                                                *)
(***************************************************************************)
EXTENDS Config, LogFiles

CONSTANTS
  Files,   \* what the configuration file may say: from a label to its contents
  Msgs     \* messages

ASSUME FilesAssumption ==
  /\ \A f \in DOMAIN Files : Files[f] = NoFile \/ Files[f] \in Seq(Item)
  /\ Bad \in Tokens

VARIABLES
  file,      \* the label of the configuration file (environment)
  mclogd,    \* the main thread: "down", "wait", or "parsed" amid a reload
  running,   \* whether the FileLogger has a thread
  inForce    \* history: the files section the FileLogger was last given

routingVars == <<file, mclogd, running, inForce>>
vars == <<configVars, logFilesVars, routingVars>>

Init ==
  /\ ConfigInit
  /\ LogFilesInit
  /\ file \in DOMAIN Files
  /\ mclogd = "down"
  /\ running = FALSE
  /\ inForce = FilesInit

EditFile(f) ==
  /\ file' = f
  /\ UNCHANGED <<configVars, logFilesVars, mclogd, running, inForce>>

\* FileLogger::Start.  Without any log LogFiles is not configured.
FileLoggerStart(cfg) ==
  /\ running' = (cfg.logs # <<>>)
  /\ inForce' = cfg
  /\ IF cfg.logs # <<>> THEN Configure(cfg) ELSE Close

\* main(): the process ends if the file does not parse or Parse throws, with all its state.
Start ==
  /\ mclogd = "down"
  /\ IF ParseOk(Files[file])
     THEN Parse(Files[file]) /\ FileLoggerStart(config'.files) /\ mclogd' = "wait"
     ELSE UNCHANGED <<configVars, logFilesVars, mclogd, running, inForce>>
  /\ UNCHANGED file

\* Restart() up to the parse.  When that fails the FileLogger goes on as it is.
ReloadParse ==
  /\ mclogd = "wait"
  /\ ~Throws(Files[file])
  /\ Parse(Files[file])
  /\ mclogd' = IF ParseOk(Files[file]) THEN "parsed" ELSE "wait"
  /\ UNCHANGED <<logFilesVars, file, running, inForce>>

\* FileLogger::Restart: Stop closes the files, Start configures them anew.
ReloadRestart ==
  /\ mclogd = "parsed"
  /\ mclogd' = "wait"
  /\ FileLoggerStart(config.files)
  /\ UNCHANGED <<configVars, file>>

\* The FileLogger's thread.
ProcessMsg(m) ==
  /\ running
  /\ \E failing \in SUBSET Paths(m) : Process(m, failing)
  /\ UNCHANGED <<configVars, routingVars>>

FileFails ==
  /\ running
  /\ \E p \in DOMAIN logFiles : RollFails(p)
  /\ UNCHANGED <<configVars, routingVars>>

\* The process ends; the next one starts with fresh state.
Ended ==
  /\ mclogd' = "down"
  /\ running' = FALSE
  /\ inForce' = FilesInit
  /\ config' = [InitConfig(config) EXCEPT !.filters = <<>>]
  /\ scanner' = Clean
  /\ filesConfig' = FilesInit
  /\ filtered' = <<>>
  /\ logFiles' = NoFiles
  /\ logPathCache' = NoFiles
  /\ UNCHANGED file

Exit == mclogd = "wait" /\ Ended

ReloadThrows == mclogd = "wait" /\ Throws(Files[file]) /\ Ended

Next ==
  \/ \E f \in DOMAIN Files : EditFile(f)
  \/ Start
  \/ ReloadParse
  \/ ReloadThrows
  \/ ReloadRestart
  \/ \E m \in Msgs : ProcessMsg(m)
  \/ FileFails
  \/ Exit

Spec == Init /\ [][Next]_vars

-----------------------------------------------------------------------------
(* Properties                                                              *)

\* What the files section in force says of a message: its path by a log, and its
\* path in every log whose filter is an expression that is true of it.
RightPath(m, log) ==
  IF log.path = <<>> THEN <<"logs", m.host, m.ident>>
  ELSE (IF log.path[1] = "/" THEN <<>> ELSE inForce.logDirectory) \o Substituted(log.path, m)

RightLogs(m) == {i \in DOMAIN inForce.logs : TRUE \in Meaning(inForce.logs[i].filter, m)}
RightPaths(m) == {RightPath(m, inForce.logs[i]) : i \in RightLogs(m)}

\* Every message goes to exactly the files that the configuration in force says:
\* no path comes from the cache of an earlier configuration or of another message,
\* no filter is read with the wrong precedence, no log is missed.
RoutedAsConfigured == running => \A m \in Msgs : Paths(m) = RightPaths(m)

\* Every LogFile has the settings of a log of the configuration in force that
\* sends messages to its path: none is left from an earlier configuration, and none
\* has the settings of a log whose filter refused the message it was made for.
FilesAsConfigured ==
  running => \A p \in DOMAIN logFiles : \E m \in Msgs : \E i \in RightLogs(m) :
    RightPath(m, inForce.logs[i]) = p /\ logFiles[p].cfg = inForce.logs[i]

\* A LogFile whose file could not be opened, at first or after a roll, stays closed,
\* and its messages are lost, until a reload whose file parses, or until the process
\* ends; then no file is closed until it has been tried again.
ClosedUntilReload ==
  [][\A p \in DOMAIN logFiles :
       ~logFiles[p].open =>
         IF ReloadRestart \/ mclogd' = "down" THEN p \notin DOMAIN logFiles'
         ELSE p \in DOMAIN logFiles' /\ ~logFiles'[p].open]_vars

\* A file that follows no failed parse is understood as written: Parse succeeds
\* iff the file is well-formed, and g_config then has what the file says, whatever
\* it had before, but for the named filters, which last until they are redefined.
CleanParse ==
  [][ReloadParse /\ scanner = Clean =>
       /\ (mclogd' = "parsed") = WellFormed(Files[file])
       /\ WellFormed(Files[file]) /\ Unambiguous(DOMAIN config'.filters) =>
            config' = FileMeaning(Files[file], config.filters)]_vars

\* "mclogd will reload the configuration on the reception of SIGHUP": a file
\* without any error is loaded.
ValidFileLoads == [][ReloadParse /\ WellFormed(Files[file]) => mclogd' = "parsed"]_vars
=============================================================================
