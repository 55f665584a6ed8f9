------------------------------- MODULE LogFile -------------------------------
(***************************************************************************)
(* A log file and its archives (class LogFile): the file being written,    *)
(* path.0 as RollCurrent leaves it, and the compressed archives            *)
(* path.0.bz2, path.1.bz2, ...  The compressor runs in the background, as  *)
(* a process of its own, while the LogFile goes on and may roll again.     *)
(*                                                                         *)
(* Messages are numbered in the order in which they are written; a file's  *)
(* content is the set of the numbers in it.  Each has a size of its own,   *)
(* 1..MaxSize, which is what the file grows by: less than the message when *)
(* a write fails half way (what close() may still flush of it included).   *)
(*                                                                         *)
(* An archive is complete, or being written by a compressor, or left       *)
(* incomplete by one that was killed.  bzip2 (gzip, xz, ...) opens its     *)
(* files when it starts and removes them by name when it ends, so that one *)
(* whose files were renamed meanwhile removes others.                      *)
(*                                                                         *)
(* Time is counted in roll periods: RollInterval::StartTime() is the       *)
(* period that was current when SetToCurrent() was called, EndTime() the   *)
(* next one.  A call takes no time on this scale.                          *)
(***************************************************************************)
EXTENDS Naturals, FiniteSets, Sequences

CONSTANTS
  Keep,        \* _keep: how many archives RollArchives leaves room for
  RollSize,    \* _rollSize: 0 turns rolling by size off
  MaxSize,     \* bound: the size of a message
  MaxMsgs,     \* bound: messages written
  MaxPeriod,   \* bound: roll periods that pass
  MaxJobs      \* bound: compressors alive at the same time

ASSUME LogFileAssumption ==
  /\ Keep \in Nat
  /\ RollSize \in Nat
  /\ MaxSize \in Nat \ {0}
  /\ MaxMsgs \in Nat
  /\ MaxPeriod \in Nat
  /\ MaxJobs \in Nat \ {0}

VARIABLES
  pc,          \* where the thread that uses the LogFile is
  pending,     \* Process rolls first and has its message still to write
  bad,         \* _ofs is in a failed state
  cur,         \* the file at _path
  size,        \* its size; tellp() once it is open, in append mode
  mtime,       \* its modification time
  raw,         \* the file at _path.0
  arch,        \* the files at _path.n.bz2
  endTime,     \* _rollInterval.EndTime()
  now,         \* the wall clock
  spawned,     \* compressors that have not looked at their input yet
  writing,     \* the archives that compressors are writing, by number
  orphans,     \* compressors whose archive RollArchives or another one removed
  partial,     \* the archives that were left incomplete
  written,     \* history: the period in which each message was written
  rolled,      \* history: the contents of the file at every roll
  clean,       \* history: the rolls since the last one that was disturbed, that is,
               \* began before path.0 was gone or a compressor had ended, or was cut
               \* short between the archives and the file
  late         \* history: a message was processed in another period than the one
               \* of its timestamp

thread     == <<pc, pending, bad, endTime>>
compressor == <<spawned, writing, orphans, partial>>
history    == <<written, rolled, clean, late>>
vars       == <<thread, cur, size, mtime, raw, arch, now, compressor, history>>

NoFile == {0}              \* no message has the number 0
Nums   == 0..Keep          \* archive numbers that can occur
Times  == 0..MaxPeriod
File   == (SUBSET (1..MaxMsgs)) \cup {NoFile}

-----------------------------------------------------------------------------
(* Rolling                                                                 *)

\* Mutant: the file is rolled when it has grown beyond the limit.
RollCriteriaMetLate(ts) ==
  \/ RollSize > 0 /\ ~bad /\ size > RollSize
  \/ ts >= endTime /\ now >= endTime

\* A failed stream has no position: tellp() is -1 and no size is too large.
RollCriteriaMet(ts) ==
  \/ RollSize > 0 /\ ~bad /\ size >= RollSize
  \/ ts >= endTime /\ now >= endTime

\* Mutants of Rotated: one archive too many is kept, one too few, and the oldest
\* one is renamed to the lowest number instead of being removed.
RotatedOneMore == [n \in Nums |-> IF n > 0 THEN arch[n - 1] ELSE NoFile]
RotatedOneLess == [n \in Nums |-> IF n > 0 /\ ~(n + 1 >= Keep) THEN arch[n - 1] ELSE NoFile]
RotatedRing == [n \in Nums |->
                  IF n = 0 THEN arch[Keep - 1] ELSE IF n < Keep THEN arch[n - 1] ELSE NoFile]

\* RollArchives, from the highest number down: remove or rename to the next.
Rotated == [n \in Nums |-> IF n > 0 /\ ~(n >= Keep) THEN arch[n - 1] ELSE NoFile]

\* The same when it does not get further down than to k.
RotatedFrom(k) ==
  [n \in Nums |-> IF n < k THEN arch[n] ELSE IF n = k THEN NoFile ELSE Rotated[n]]

\* The archives S, by number, after that.
Moved(S, k) == {n \in S : n < k} \cup {n + 1 : n \in {m \in S : m >= k /\ ~(m + 1 >= Keep)}}

\* The archives below Room are the only ones, so that at most one is removed.
MovedOut(k) == IF \E n \in writing : n >= k /\ n + 1 >= Keep THEN 1 ELSE 0

RollArchives ==
  /\ pc = "rollArchives"
  /\ pc' = "rollCurrent"
  /\ arch' = Rotated
  /\ writing' = Moved(writing, 0)
  /\ partial' = Moved(partial, 0)
  /\ orphans' = orphans + MovedOut(0)
  /\ clean' = IF raw = NoFile /\ spawned = 0 /\ writing = {} /\ orphans = 0
              THEN clean + 1
              ELSE 0
  /\ UNCHANGED <<pending, bad, endTime, cur, size, mtime, raw, now, spawned>>
  /\ UNCHANGED <<written, rolled, late>>

\* mclogd ends among the renames of RollArchives: it is killed, or a rename throws,
\* as when a compressor has removed its output since the directory was read;
\* nothing catches the filesystem_error.
RollArchivesCut(k) ==
  /\ pc = "rollArchives"
  /\ pc' = "closed"
  /\ pending' = FALSE
  /\ arch' = RotatedFrom(k)
  /\ writing' = Moved(writing, k)
  /\ partial' = Moved(partial, k)
  /\ orphans' = orphans + MovedOut(k)
  /\ clean' = 0
  /\ UNCHANGED <<bad, endTime, cur, size, mtime, raw, now, spawned>>
  /\ UNCHANGED <<written, rolled, late>>

\* RollCurrent renames the file to path.0, replacing one that is still there,
RollCurrent ==
  /\ pc = "rollCurrent"
  /\ pc' = "compress"
  /\ raw' = cur
  /\ cur' = NoFile
  /\ size' = 0
  /\ rolled' = Append(rolled, cur)
  /\ UNCHANGED <<pending, bad, endTime, mtime, arch, now, written, clean, late>>
  /\ UNCHANGED compressor

\* and starts the compressor on that name; whether system() succeeds is not looked
\* at.  Roll then sets the new interval.
StartCompressor ==
  /\ pc = "compress"
  /\ pc' = "reopen"
  /\ endTime' = now + 1
  /\ \/ /\ spawned + Cardinality(writing) + orphans < MaxJobs
        /\ spawned' = spawned + 1
     \/ spawned' = spawned
  /\ UNCHANGED <<pending, bad, cur, size, mtime, raw, arch, now, writing, orphans, partial>>
  /\ UNCHANGED history

-----------------------------------------------------------------------------
(* Opening, closing and writing                                            *)

\* One message goes to the end of the file, whose content was c and whose size z,
\* whole or, when the write fails, cut off or not at all; the stream is then failed.
Write(c, z) ==
  \/ /\ Len(written) < MaxMsgs
     /\ \E s \in 1..MaxSize : size' = z + s
     /\ cur' = c \cup {Len(written) + 1}
     /\ written' = Append(written, now)
     /\ bad' \in BOOLEAN
  \/ /\ size' = z
     /\ cur' = c
     /\ bad' = TRUE
     /\ UNCHANGED written

\* Mutant: a file of an earlier period is opened as it is.
OpenAsIs ==
  /\ pc = "closed"
  /\ pending' = FALSE
  /\ bad' = FALSE
  /\ endTime' = now + 1
  /\ pc' = "open"
  /\ cur' = IF cur = NoFile THEN {} ELSE cur
  /\ mtime' = IF cur = NoFile THEN now ELSE mtime
  /\ UNCHANGED <<size, raw, arch, now>>
  /\ UNCHANGED compressor
  /\ UNCHANGED history

\* A LogFile is constructed (mclogd starts, or LogFiles was reconfigured) and
\* opened.  NeedRollBeforeOpen: the file was last written in an earlier period.
Open ==
  /\ pc = "closed"
  /\ pending' = FALSE
  /\ bad' = FALSE
  /\ endTime' = now + 1
  /\ \/ /\ cur # NoFile /\ now > mtime
        /\ pc' = "rollArchives"
        /\ UNCHANGED <<cur, mtime>>
     \/ /\ ~(cur # NoFile /\ now > mtime)
        /\ pc' = "open"
        /\ cur' = IF cur = NoFile THEN {} ELSE cur
        /\ mtime' = IF cur = NoFile THEN now ELSE mtime
  /\ UNCHANGED <<size, raw, arch, now>>
  /\ UNCHANGED compressor
  /\ UNCHANGED history

\* OpenNoLock after a roll creates the file, and then the message that caused the
\* roll is written.
Reopen ==
  /\ pc = "reopen"
  /\ pc' = "open"
  /\ pending' = FALSE
  /\ mtime' = now
  /\ IF ~pending
     THEN cur' = {} /\ size' = 0 /\ bad' = FALSE /\ UNCHANGED written
     ELSE Write({}, 0)
  /\ UNCHANGED <<endTime, raw, arch, now, rolled, clean, late>>
  /\ UNCHANGED compressor

\* The file cannot be opened: the LogFile stays closed and the message is lost.
OpenFails ==
  /\ pc \in {"closed", "reopen"}
  /\ pc = "closed" => ~(cur # NoFile /\ now > mtime)
  /\ pc' = "closed"
  /\ pending' = FALSE
  /\ UNCHANGED <<bad, endTime, cur, size, mtime, raw, arch, now>>
  /\ UNCHANGED compressor
  /\ UNCHANGED history

Close ==
  /\ pc = "open"
  /\ pc' = "closed"
  /\ UNCHANGED <<pending, bad, endTime, cur, size, mtime, raw, arch, now>>
  /\ UNCHANGED compressor
  /\ UNCHANGED history

\* mclogd is killed between two steps of a roll (a kill at any other time is a
\* Close), or ended by the filesystem_error of a rename or of reading the directory.
Kill ==
  /\ pc \in {"rollArchives", "rollCurrent", "compress", "reopen"}
  /\ pc' = "closed"
  /\ pending' = FALSE
  /\ clean' = IF pc = "rollCurrent" THEN 0 ELSE clean
  /\ UNCHANGED <<bad, endTime, cur, size, mtime, raw, arch, now, written, rolled, late>>
  /\ UNCHANGED compressor

\* Process without a roll.  Nothing is written to a failed stream.
ProcessWrite(ts) ==
  /\ pc = "open"
  /\ ~RollCriteriaMet(ts)
  /\ ~bad
  /\ Write(cur, size)
  /\ mtime' = IF size' = size THEN mtime ELSE now
  /\ late' = (late \/ ts # now)
  /\ UNCHANGED <<pc, pending, endTime, raw, arch, now, rolled, clean>>
  /\ UNCHANGED compressor

\* Process closes the file and rolls it first.
ProcessRoll(ts) ==
  /\ pc = "open"
  /\ RollCriteriaMet(ts)
  /\ pc' = "rollArchives"
  /\ pending' = TRUE
  /\ bad' = FALSE
  /\ late' = (late \/ ts # now)
  /\ UNCHANGED <<endTime, cur, size, mtime, raw, arch, now, written, rolled, clean>>
  /\ UNCHANGED compressor

-----------------------------------------------------------------------------
(* The environment                                                         *)

\* The compressor gives up if its input is gone or its output exists; else it
\* has opened path.0 and created path.0.bz2.
CompressStart ==
  /\ spawned > 0
  /\ spawned' = spawned - 1
  /\ IF raw = NoFile \/ arch[0] # NoFile
     THEN UNCHANGED <<arch, writing>>
     ELSE arch' = [arch EXCEPT ![0] = raw] /\ writing' = writing \cup {0}
  /\ UNCHANGED <<thread, cur, size, mtime, raw, now, orphans, partial>>
  /\ UNCHANGED history

\* It completes archive n and removes its input, by name; it fails to if its output
\* was renamed meanwhile.
CompressFinish(n) ==
  /\ n \in writing
  /\ writing' = writing \ {n}
  /\ \/ raw' = NoFile
     \/ n > 0 /\ raw' = raw
  /\ UNCHANGED <<thread, cur, size, mtime, arch, now, spawned, orphans, partial>>
  /\ UNCHANGED history

\* It is killed and leaves the archive incomplete.
CompressKilled(n) ==
  /\ n \in writing
  /\ writing' = writing \ {n}
  /\ partial' = partial \cup {n}
  /\ UNCHANGED <<thread, cur, size, mtime, raw, arch, now, spawned, orphans>>
  /\ UNCHANGED history

\* It fails (no space, an unreadable file) and removes its output, by name.
CompressFail(n) ==
  /\ n \in writing
  /\ arch' = [arch EXCEPT ![0] = NoFile]
  /\ writing' = writing \ {0, n}
  /\ partial' = (partial \cup {n}) \ {0}
  /\ orphans' = orphans + (IF n > 0 /\ 0 \in writing THEN 1 ELSE 0)
  /\ UNCHANGED <<thread, cur, size, mtime, raw, now, spawned>>
  /\ UNCHANGED history

\* One whose archive was removed ends in the same ways.
OrphanEnds ==
  /\ orphans > 0
  /\ \/ /\ raw' \in {NoFile, raw}
        /\ orphans' = orphans - 1
        /\ UNCHANGED <<arch, writing, partial>>
     \/ /\ arch' = [arch EXCEPT ![0] = NoFile]
        /\ writing' = writing \ {0}
        /\ partial' = partial \ {0}
        /\ orphans' = IF 0 \in writing THEN orphans ELSE orphans - 1
        /\ UNCHANGED raw
  /\ UNCHANGED <<thread, cur, size, mtime, now, spawned>>
  /\ UNCHANGED history

Tick ==
  /\ pc \in {"open", "closed"}
  /\ now < MaxPeriod
  /\ now' = now + 1
  /\ UNCHANGED <<thread, cur, size, mtime, raw, arch>>
  /\ UNCHANGED compressor
  /\ UNCHANGED history

-----------------------------------------------------------------------------
Init ==
  /\ pc = "closed"
  /\ pending = FALSE
  /\ bad = FALSE
  /\ cur = NoFile
  /\ size = 0
  /\ mtime = 0
  /\ raw = NoFile
  /\ arch = [n \in Nums |-> NoFile]
  /\ endTime = 1
  /\ now = 0
  /\ spawned = 0
  /\ writing = {}
  /\ orphans = 0
  /\ partial = {}
  /\ written = <<>>
  /\ rolled = <<>>
  /\ clean = 0
  /\ late = FALSE

CompressorStep ==
  \/ CompressStart
  \/ \E n \in Nums : CompressFinish(n) \/ CompressKilled(n) \/ CompressFail(n)
  \/ OrphanEnds

Next ==
  \/ Open
  \/ Close
  \/ OpenFails
  \/ Kill
  \/ \E ts \in Times : ProcessWrite(ts) \/ ProcessRoll(ts)
  \/ RollArchives
  \/ \E k \in Nums : RollArchivesCut(k)
  \/ RollCurrent
  \/ StartCompressor
  \/ Reopen
  \/ CompressorStep
  \/ Tick

Spec == Init /\ [][Next]_vars

-----------------------------------------------------------------------------
(* Properties                                                              *)

\* Every variable has its type.
TypeOK ==
  /\ pc \in {"closed", "open", "rollArchives", "rollCurrent", "compress", "reopen"}
  /\ pending \in BOOLEAN
  /\ bad \in BOOLEAN
  /\ cur \in File
  /\ size \in Nat
  /\ mtime \in Times
  /\ raw \in File
  /\ arch \in [Nums -> File]
  /\ endTime \in 1..(MaxPeriod + 1)
  /\ now \in Times
  /\ spawned \in Nat
  /\ writing \subseteq Nums
  /\ orphans \in Nat
  /\ partial \subseteq Nums
  /\ written \in Seq(Times)
  /\ Len(written) <= MaxMsgs
  /\ rolled \in Seq(File)
  /\ clean \in Nat
  /\ late \in BOOLEAN

OlderThan(f, g)  == \A m \in f, n \in g : f # NoFile /\ g # NoFile => m < n
NotNewer(f, g)   == f = g \/ OlderThan(f, g)

\* The numbers of the archives tell their age: path.n.bz2 is no newer than
\* path.m.bz2 for m < n (two compressors may have read the same file), none is
\* newer than path.0, and all are older than the file being written, however
\* rolls, kills and compressors interleave.
Chronological ==
  /\ \A m, n \in Nums : m < n => NotNewer(arch[n], arch[m])
  /\ \A n \in Nums : NotNewer(arch[n], raw)
  /\ \A n \in Nums : OlderThan(arch[n], cur)
  /\ OlderThan(raw, cur)

\* RollArchives leaves nothing beyond the configured number of archives, except
\* that the newest archive is kept even when _keep is 0.
Room == IF Keep = 0 THEN 1 ELSE Keep
NumbersBelowKeep ==
  \A n \in Nums : arch[n] # NoFile => n < Room

\* The file rolled i + 1 rolls ago can still be read.
Retained(i) ==
  LET content == rolled[Len(rolled) - i]
  IN  \/ arch[i] = content /\ i \notin writing \cup partial
      \/ i = 0 /\ raw = content

\* The files that were rolled since the last disturbed roll are all there, up to
\* _keep of them, each under its number and whole, whatever the compressors do:
\* while one is at work, and when it fails, is killed or was never started, the
\* file that it was to compress is still path.0.
RetainsKeepSinceDisturbed ==
  pc # "rollCurrent" =>
    \A i \in 0..(Room - 1) : i < clean => Retained(i)

\* A log exceeds _rollSize by less than one message, across restarts and failed
\* writes too: the size is looked at before a message is written.
SizeBound ==
  RollSize > 0 => size < RollSize + MaxSize

\* As long as messages arrive in the period of their timestamp, no file mixes two
\* periods, whether a period ends while the log is open or while mclogd is down.
OnePeriodPerFile ==
  late \/
    \A f \in {cur, raw} \cup {arch[n] : n \in Nums} :
      f # NoFile => \A m, n \in f : written[m] = written[n]
=============================================================================
