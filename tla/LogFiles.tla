------------------------------ MODULE LogFiles ------------------------------
(***************************************************************************)
(* LogFiles: which log files a message is written to.  The logs of the     *)
(* configuration are tried in turn; each one whose filter accepts the      *)
(* message gives a path, made from the log's pattern and the message's     *)
(* origin.  Paths are cached; LogFile objects are made when a path is      *)
(* first needed.                                                           *)
(*                                                                         *)
(* A path or a pattern is the sequence of its parts, an absolute one       *)
(* begins with "/".  A part of a pattern is "%H", "%I", "%F" or literal;   *)
(* host and program names are plain words.  A LogFile is [cfg, open]: the  *)
(* log it was made for, and whether its file is open.                      *)
(***************************************************************************)
EXTENDS MessageFilter

VARIABLES
  filesConfig,   \* _filesConfig
  filtered,      \* _filteredLogConfigs: the logs whose filter is valid, by their place
  logFiles,      \* _logFiles: from path to LogFile
  logPathCache   \* _logPathCache

logFilesVars == <<filesConfig, filtered, logFiles, logPathCache>>

NoFiles == <<>>   \* the empty map

LogFilesInit ==
  /\ filesConfig = [logDirectory |-> <<"/", "mclog">>, logs |-> <<>>]
  /\ filtered = <<>>
  /\ logFiles = NoFiles
  /\ logPathCache = NoFiles

-----------------------------------------------------------------------------
(* Paths                                                                   *)

\* Facilities are the multiples of 8 of syslog.
Facilities == <<"kernel", "user", "mail", "daemon", "auth", "syslog", "lpr", "news", "uucp",
                "cron", "authpriv", "ftp", "unknown", "unknown", "unknown", "unknown",
                "local0", "local1", "local2", "local3", "local4", "local5", "local6", "local7">>

FacilityName(f) == Facilities[f \div 8 + 1]

Substituted(pattern, msg) ==
  [i \in DOMAIN pattern |-> CASE pattern[i] = "%H" -> msg.host
                              [] pattern[i] = "%I" -> msg.ident
                              [] pattern[i] = "%F" -> FacilityName(msg.facility)
                              [] OTHER -> pattern[i]]

\* A path that is not absolute is below the log directory.
NewPath(msg, log) ==
  IF log.path = <<>> THEN <<"logs", msg.host, msg.ident>>
  ELSE IF Head(log.path) = "/" THEN Substituted(log.path, msg)
  ELSE filesConfig.logDirectory \o Substituted(log.path, msg)

\* _facilitySeverity is facility | severity, which have no bit in common.
LogPathCacheKey(msg, pattern) ==
  <<msg.facility, msg.severity, msg.host, msg.ident, pattern>>

LogPath(msg, log) ==
  LET key == LogPathCacheKey(msg, log.path)
  IN  IF key \in DOMAIN logPathCache THEN logPathCache[key] ELSE NewPath(msg, log)

-----------------------------------------------------------------------------
(* Operations                                                              *)

Valid(logs) == [i \in {j \in DOMAIN logs : is_valid(logs[j].filter)} |-> logs[i]]

\* Mutant: the paths of the configuration before stay in the cache.
ConfigureKeepsCache(cfg) ==
  /\ filesConfig' = cfg
  /\ filtered' = Valid(cfg.logs)
  /\ logFiles' = NoFiles
  /\ UNCHANGED logPathCache

\* Mutant: the LogFiles of the configuration before are not closed.
ConfigureKeepsFiles(cfg) ==
  /\ filesConfig' = cfg
  /\ filtered' = Valid(cfg.logs)
  /\ logPathCache' = NoFiles
  /\ UNCHANGED logFiles

\* A log whose filter is no expression is left out.
Configure(cfg) ==
  /\ filesConfig' = cfg
  /\ filtered' = Valid(cfg.logs)
  /\ logFiles' = NoFiles
  /\ logPathCache' = NoFiles

Close ==
  /\ logFiles' = NoFiles
  /\ UNCHANGED <<filesConfig, filtered, logPathCache>>

\* The logs that accept the message, as indices of filtered.
Accepting(msg) ==
  {i \in DOMAIN filtered :
     LET p == parse(filtered[i].filter, msg) IN p.rc /\ p.result}

Paths(msg) == {LogPath(msg, filtered[i]) : i \in Accepting(msg)}

\* Mutant: the settings come from the first log with the path, whatever it accepts.
LogForAny(msg, path) ==
  filtered[Min({i \in DOMAIN filtered : LogPath(msg, filtered[i]) = path})]

\* Of two logs with the same path the first one counts.
LogFor(msg, path) ==
  filtered[Min({i \in Accepting(msg) : LogPath(msg, filtered[i]) = path})]

\* A LogFile more for each new path; the files of `failing' cannot be opened.
NewLogFiles(msg, failing) ==
  [p \in DOMAIN logFiles \cup Paths(msg) |->
     IF p \in DOMAIN logFiles THEN logFiles[p]
     ELSE [cfg |-> LogFor(msg, p), open |-> p \notin failing]]

\* The cache has every path that was made.
NewPathCache(msg) ==
  LET Key(i) == LogPathCacheKey(msg, filtered[i].path)
  IN  [k \in DOMAIN logPathCache \cup {Key(i) : i \in Accepting(msg)} |->
         IF k \in DOMAIN logPathCache THEN logPathCache[k]
         ELSE NewPath(msg, filtered[CHOOSE i \in Accepting(msg) : Key(i) = k])]

\* The new LogFiles stay in the map whether or not they could be opened, and a
\* LogFile that is not open drops the message.
Process(msg, failing) ==
  /\ failing \subseteq Paths(msg) \ DOMAIN logFiles
  /\ logFiles' = NewLogFiles(msg, failing)
  /\ logPathCache' = NewPathCache(msg)
  /\ UNCHANGED <<filesConfig, filtered>>

\* A LogFile rolls its file and cannot open the new one.
RollFails(p) ==
  /\ p \in DOMAIN logFiles
  /\ logFiles[p].open
  /\ logFiles' = [logFiles EXCEPT ![p].open = FALSE]
  /\ UNCHANGED <<filesConfig, filtered, logPathCache>>
=============================================================================
