---------------------------- MODULE LogFileProofs ----------------------------
(***************************************************************************)
(* The invariants of a log file and its archives, for every _keep, every   *)
(* _rollSize and any number of messages, periods and compressors.  Basic   *)
(* says which files there are at each step of a roll; each property then   *)
(* has an inductive invariant of its own on top of it.                     *)
(***************************************************************************)
EXTENDS LogFile, FiniteSetTheorems, TLAPS

\* The file is there until it is rolled and from then on is not, until it is
\* opened again.
Places ==
  /\ pc \in {"open", "rollArchives", "rollCurrent"} => cur # NoFile
  /\ pc \in {"compress", "reopen"} => cur = NoFile

\* Files hold messages that were written.
Holds(f) == f = NoFile \/ f \subseteq 1..Len(written)
Bounded == Holds(cur) /\ Holds(raw) /\ \A n \in Nums : Holds(arch[n])

Basic == TypeOK /\ Places /\ Bounded

\* A write adds the next number to the file, or nothing.
LEMMA WriteOK ==
  ASSUME TypeOK, NEW c \in SUBSET (1..MaxMsgs), c \subseteq 1..Len(written),
         NEW z \in Nat, Write(c, z)
  PROVE  /\ cur' \in SUBSET (1..MaxMsgs) /\ cur' \subseteq 1..Len(written')
         /\ bad' \in BOOLEAN /\ size' \in Nat
         /\ written' \in Seq(Times) /\ Len(written') <= MaxMsgs
         /\ Len(written) \in Nat /\ Len(written') >= Len(written) /\ Len(written') \in Nat
         /\ \A i \in 1..Len(written) : written'[i] = written[i]
         /\ \/ /\ cur' = c \cup {Len(written) + 1} /\ Len(written') = Len(written) + 1
               /\ written'[Len(written) + 1] = now /\ size' # z
            \/ cur' = c /\ bad' = TRUE /\ written' = written /\ size' = z
<1>1. written \in Seq(Times) /\ now \in Times /\ Len(written) <= MaxMsgs
  BY DEF TypeOK
<1>2. Len(written) \in Nat /\ MaxMsgs \in Nat /\ MaxSize \in Nat
  BY <1>1, LogFileAssumption
<1>3. CASE /\ Len(written) < MaxMsgs
           /\ \E s \in 1..MaxSize : size' = z + s
           /\ cur' = c \cup {Len(written) + 1}
           /\ written' = Append(written, now)
           /\ bad' \in BOOLEAN
  <2>1. written' \in Seq(Times) /\ Len(written') = Len(written) + 1
    BY <1>1, <1>3
  <2>2. \A i \in 1..Len(written) : written'[i] = written[i]
    BY <1>1, <1>3
  <2>3. written'[Len(written) + 1] = now
    BY <1>1, <1>3
  <2>4. cur' \in SUBSET (1..MaxMsgs) /\ cur' \subseteq 1..Len(written')
    <3>1. Len(written) + 1 \in 1..MaxMsgs /\ Len(written) + 1 \in 1..Len(written')
      BY <1>2, <1>3, <2>1
    <3>2. \A x \in 1..Len(written) : x \in 1..Len(written')
      BY <1>2, <2>1
    <3> QED BY <1>3, <3>1, <3>2
  <2>5. Len(written') <= MaxMsgs /\ Len(written') >= Len(written) /\ Len(written') \in Nat
    BY <1>2, <1>3, <2>1
  <2>6. size' \in Nat /\ size' # z
    BY <1>2, <1>3
  <2> QED BY <1>2, <1>3, <2>1, <2>2, <2>3, <2>4, <2>5, <2>6
<1>4. CASE size' = z /\ cur' = c /\ bad' = TRUE /\ UNCHANGED written
  BY <1>1, <1>2, <1>4
<1> QED BY <1>3, <1>4 DEF Write

\* A file of numbers is no NoFile.
LEMMA NotNoFile ==
  ASSUME NEW k, NEW f \in SUBSET (1..k)
  PROVE  f # NoFile
  BY DEF NoFile

-----------------------------------------------------------------------------
(* Types and places                                                        *)

LEMMA BasicInit == Init => Basic
<1> SUFFICES ASSUME Init PROVE Basic
  OBVIOUS
<1>1. TypeOK
  BY LogFileAssumption DEF Init, TypeOK, File, Times, Nums
<1>2. Places
  BY LogFileAssumption DEF Init, Places
<1>3. Bounded
  BY DEF Init, Bounded, Holds
<1> QED BY <1>1, <1>2, <1>3 DEF Basic

\* What RollArchives leaves, to its end or when it is cut short.
LEMMA RotatedOK ==
  ASSUME Basic
  PROVE  /\ Rotated \in [Nums -> File]
         /\ \A n \in Nums : Rotated[n] = IF n > 0 /\ ~(n >= Keep) THEN arch[n - 1] ELSE NoFile
         /\ \A n \in Nums : n > 0 => n - 1 \in Nums
         /\ \A n \in Nums : Holds(Rotated[n])
         /\ \A k \in Nums :
              /\ RotatedFrom(k) \in [Nums -> File]
              /\ \A n \in Nums : Holds(RotatedFrom(k)[n])
<1>1. \A n \in Nums : n \in Nat /\ (n > 0 => n - 1 \in Nums)
  BY LogFileAssumption DEF Nums
<1>2. arch \in [Nums -> File] /\ NoFile \in File
  BY DEF Basic, TypeOK, File
<1>3. Rotated \in [Nums -> File]
  BY <1>1, <1>2 DEF Rotated
<1>4. \A n \in Nums : Rotated[n] = IF n > 0 /\ ~(n >= Keep) THEN arch[n - 1] ELSE NoFile
  BY DEF Rotated
<1>5. \A n \in Nums : Holds(Rotated[n])
  BY <1>1, <1>4 DEF Basic, Bounded, Holds
<1>6. ASSUME NEW k \in Nums
      PROVE  /\ RotatedFrom(k) \in [Nums -> File]
             /\ \A n \in Nums : Holds(RotatedFrom(k)[n])
  <2> HIDE DEF Rotated
  <2>1. RotatedFrom(k) \in [Nums -> File]
    BY <1>2, <1>3 DEF RotatedFrom
  <2>2. \A n \in Nums : RotatedFrom(k)[n] \in {arch[n], NoFile, Rotated[n]}
    BY DEF RotatedFrom
  <2> QED BY <1>5, <2>1, <2>2 DEF Basic, Bounded, Holds
<1> QED BY <1>1, <1>3, <1>4, <1>5, <1>6

\* The archives' numbers after that.
LEMMA MovedOK ==
  ASSUME TypeOK, NEW k \in Nums
  PROVE  /\ Moved(writing, k) \subseteq Nums
         /\ Moved(partial, k) \subseteq Nums
         /\ orphans + MovedOut(k) \in Nat
<1>1. writing \subseteq Nums /\ partial \subseteq Nums /\ orphans \in Nat
  BY DEF TypeOK
<1>2. \A n \in Nums : n \in Nat /\ (~(n + 1 >= Keep) => n + 1 \in Nums)
  BY LogFileAssumption DEF Nums
<1>3. MovedOut(k) \in {0, 1}
  BY DEF MovedOut
<1>4. orphans + MovedOut(k) \in Nat
  BY <1>1, <1>3
<1> QED BY <1>1, <1>2, <1>4 DEF Moved

LEMMA BasicNext == Basic /\ [Next]_vars => Basic'
<1> SUFFICES ASSUME Basic, [Next]_vars PROVE Basic'
  OBVIOUS
<1>1. /\ pc \in {"closed", "open", "rollArchives", "rollCurrent", "compress", "reopen"}
      /\ pending \in BOOLEAN /\ bad \in BOOLEAN /\ cur \in File /\ size \in Nat /\ mtime \in Times
      /\ raw \in File /\ arch \in [Nums -> File] /\ endTime \in 1..(MaxPeriod + 1)
      /\ now \in Times /\ spawned \in Nat /\ writing \subseteq Nums /\ orphans \in Nat
      /\ partial \subseteq Nums
      /\ written \in Seq(Times) /\ Len(written) <= MaxMsgs /\ rolled \in Seq(File)
      /\ clean \in Nat /\ late \in BOOLEAN
  BY DEF Basic, TypeOK
<1>2. MaxPeriod \in Nat /\ MaxMsgs \in Nat /\ Len(written) \in Nat /\ 0 \in Nums
      /\ now + 1 \in 1..(MaxPeriod + 1)
  BY <1>1, LogFileAssumption DEF Nums, Times
<1>3. {} \in File /\ NoFile \in File /\ {} # NoFile /\ {} \subseteq 1..Len(written)
  BY DEF File, NoFile
<1>4. CASE Open
  <2>1. /\ pc' \in {"open", "rollArchives"} /\ pending' = FALSE /\ bad' = FALSE
        /\ endTime' = now + 1 /\ cur' \in {cur, {}} /\ cur' # NoFile /\ mtime' \in {mtime, now}
        /\ UNCHANGED <<size, raw, arch, now, spawned, writing, orphans, partial>>
        /\ UNCHANGED <<written, rolled, clean, late>>
    BY <1>3, <1>4 DEF Open, compressor, history
  <2>2. TypeOK'
    BY <1>1, <1>2, <1>3, <2>1 DEF TypeOK
  <2>3. Places'
    BY <2>1 DEF Places
  <2>4. Bounded'
    BY <1>3, <2>1 DEF Basic, Bounded, Holds
  <2> QED BY <2>2, <2>3, <2>4 DEF Basic
<1>5. CASE Close \/ OpenFails \/ Tick
  <2>1. /\ UNCHANGED <<bad, endTime, cur, size, mtime, raw, arch>>
        /\ UNCHANGED <<spawned, writing, orphans, partial, written, rolled, clean, late>>
        /\ pending' \in BOOLEAN
        /\ pc' = "closed" \/ pc' = pc
    BY <1>1, <1>5 DEF Close, OpenFails, Tick, thread, compressor, history
  <2>2. now' \in Times
    BY <1>1, <1>2, <1>5 DEF Close, OpenFails, Tick, Times
  <2>3. TypeOK'
    BY <1>1, <2>1, <2>2 DEF TypeOK
  <2>4. Places'
    BY <2>1 DEF Basic, Places
  <2>5. Bounded'
    BY <2>1 DEF Basic, Bounded, Holds
  <2> QED BY <2>3, <2>4, <2>5 DEF Basic
<1>6. CASE Kill
  <2>1. /\ UNCHANGED <<bad, endTime, cur, size, mtime, raw, arch, now>>
        /\ UNCHANGED <<spawned, writing, orphans, partial, written, rolled, late>>
        /\ pc' = "closed" /\ pending' = FALSE /\ clean' = IF pc = "rollCurrent" THEN 0 ELSE clean
    BY <1>6 DEF Kill, compressor
  <2>5. clean' \in Nat
    BY <1>1, <2>1
  <2>2. TypeOK'
    BY <1>1, <2>1, <2>5 DEF TypeOK
  <2>3. Places'
    BY <2>1 DEF Places
  <2>4. Bounded'
    BY <2>1 DEF Basic, Bounded, Holds
  <2> QED BY <2>2, <2>3, <2>4 DEF Basic
<1>7. CASE \E ts \in Times : ProcessWrite(ts)
  <2> PICK ts \in Times : ProcessWrite(ts)
    BY <1>7
  <2>1. cur \in SUBSET (1..MaxMsgs) /\ cur \subseteq 1..Len(written)
    BY <1>1 DEF ProcessWrite, Basic, Places, Bounded, Holds, File
  <2>2. late' \in BOOLEAN
    BY <1>1, Zenon DEF ProcessWrite
  <2>3. /\ cur' \in SUBSET (1..MaxMsgs) /\ cur' \subseteq 1..Len(written')
        /\ bad' \in BOOLEAN /\ size' \in Nat
        /\ written' \in Seq(Times) /\ Len(written') <= MaxMsgs
        /\ Len(written') >= Len(written) /\ Len(written') \in Nat
    BY <1>1, <2>1, WriteOK DEF ProcessWrite, Basic
  <2>4. /\ UNCHANGED <<pc, pending, endTime, raw, arch, now, rolled, clean>>
        /\ UNCHANGED <<spawned, writing, orphans, partial>>
        /\ mtime' \in {mtime, now}
    BY DEF ProcessWrite, compressor
  <2>5. TypeOK'
    BY <1>1, <2>2, <2>3, <2>4 DEF TypeOK, File
  <2>6. Places'
    BY <2>3, <2>4, NotNoFile DEF Basic, Places, ProcessWrite
  <2>7. Bounded'
    BY <1>2, <2>3, <2>4 DEF Basic, Bounded, Holds
  <2> QED BY <2>5, <2>6, <2>7 DEF Basic
<1>8. CASE \E ts \in Times : ProcessRoll(ts)
  <2> PICK ts \in Times : ProcessRoll(ts)
    BY <1>8
  <2>1. late' \in BOOLEAN
    BY <1>1, Zenon DEF ProcessRoll
  <2>2. /\ pc = "open" /\ pc' = "rollArchives" /\ pending' = TRUE /\ bad' = FALSE
        /\ UNCHANGED <<endTime, cur, size, mtime, raw, arch, now, written, rolled, clean>>
        /\ UNCHANGED <<spawned, writing, orphans, partial>>
    BY DEF ProcessRoll, compressor
  <2>3. TypeOK'
    BY <1>1, <2>1, <2>2 DEF TypeOK
  <2>4. Places'
    BY <2>2 DEF Basic, Places
  <2>5. Bounded'
    BY <2>2 DEF Basic, Bounded, Holds
  <2> QED BY <2>3, <2>4, <2>5 DEF Basic
<1>9. CASE RollArchives \/ \E k \in Nums : RollArchivesCut(k)
  <2>1. PICK k \in Nums :
          /\ arch' = Rotated \/ arch' = RotatedFrom(k)
          /\ writing' = Moved(writing, k) /\ partial' = Moved(partial, k)
          /\ orphans' = orphans + MovedOut(k)
    BY <1>2, <1>9 DEF RollArchives, RollArchivesCut
  <2>2. /\ UNCHANGED <<bad, endTime, cur, size, mtime, raw, now, spawned, written, rolled, late>>
        /\ pc = "rollArchives" /\ pc' \in {"rollCurrent", "closed"}
    BY <1>9 DEF RollArchives, RollArchivesCut
  <2>8. clean' \in Nat
    BY <1>1, <1>9 DEF RollArchives, RollArchivesCut
  <2>9. pending' \in BOOLEAN
    BY <1>1, <1>9, Zenon DEF RollArchives, RollArchivesCut
  <2>3. arch' \in [Nums -> File] /\ \A n \in Nums : Holds(arch'[n])
    BY <2>1, RotatedOK
  <2>4. writing' \subseteq Nums /\ partial' \subseteq Nums /\ orphans' \in Nat
    BY <2>1, MovedOK DEF Basic
  <2>5. TypeOK'
    BY <1>1, <2>2, <2>3, <2>4, <2>8, <2>9 DEF TypeOK
  <2>6. Places'
    BY <2>2 DEF Basic, Places
  <2>7. Bounded'
    BY <2>2, <2>3 DEF Basic, Bounded, Holds
  <2> QED BY <2>5, <2>6, <2>7 DEF Basic
<1>10. CASE RollCurrent
  <2>1. /\ pc = "rollCurrent" /\ pc' = "compress" /\ raw' = cur /\ cur' = NoFile /\ size' = 0
        /\ UNCHANGED <<pending, bad, endTime, mtime, arch, now, written, clean, late>>
        /\ UNCHANGED <<spawned, writing, orphans, partial>>
    BY <1>10 DEF RollCurrent, compressor
  <2>2. rolled' \in Seq(File)
    BY <1>1, <1>10 DEF RollCurrent
  <2>3. TypeOK'
    BY <1>1, <1>3, <2>1, <2>2 DEF TypeOK
  <2>4. Places'
    BY <2>1 DEF Places
  <2>5. Bounded'
    BY <2>1 DEF Basic, Bounded, Holds
  <2> QED BY <2>3, <2>4, <2>5 DEF Basic
<1>11. CASE StartCompressor
  <2>1. /\ pc = "compress" /\ pc' = "reopen" /\ endTime' = now + 1
        /\ spawned' \in {spawned, spawned + 1}
        /\ UNCHANGED <<pending, bad, cur, size, mtime, raw, arch, now, writing, orphans, partial>>
        /\ UNCHANGED <<written, rolled, clean, late>>
    BY <1>11 DEF StartCompressor, history
  <2>2. TypeOK'
    BY <1>1, <1>2, <2>1 DEF TypeOK
  <2>3. Places'
    BY <2>1 DEF Basic, Places
  <2>4. Bounded'
    BY <2>1 DEF Basic, Bounded, Holds
  <2> QED BY <2>2, <2>3, <2>4 DEF Basic
<1>12. CASE Reopen
  <2>1. /\ cur' \in SUBSET (1..MaxMsgs) /\ cur' \subseteq 1..Len(written')
        /\ bad' \in BOOLEAN /\ size' \in Nat
        /\ written' \in Seq(Times) /\ Len(written') <= MaxMsgs
        /\ Len(written') >= Len(written) /\ Len(written') \in Nat
    <3>1. CASE pending
      BY <1>3, <1>12, <3>1, WriteOK DEF Reopen, Basic
    <3>2. CASE ~pending
      <4>1. cur' = {} /\ size' = 0 /\ bad' = FALSE /\ written' = written
        BY <1>12, <3>2 DEF Reopen
      <4>2. cur' \in SUBSET (1..MaxMsgs) /\ cur' \subseteq 1..Len(written') /\ bad' \in BOOLEAN
        BY <4>1
      <4>3. /\ written' \in Seq(Times) /\ Len(written') <= MaxMsgs
            /\ Len(written') >= Len(written) /\ Len(written') \in Nat /\ size' \in Nat
        BY <1>1, <1>2, <4>1
      <4> QED BY <4>2, <4>3
    <3> QED BY <3>1, <3>2
  <2>2. /\ UNCHANGED <<raw, arch, endTime, now, rolled, clean, late>>
        /\ UNCHANGED <<spawned, writing, orphans, partial>>
        /\ pc' = "open" /\ pending' = FALSE /\ mtime' = now
    BY <1>12 DEF Reopen, compressor
  <2>3. TypeOK'
    BY <1>1, <2>1, <2>2 DEF TypeOK, File
  <2>4. Places'
    BY <2>1, <2>2, NotNoFile DEF Places
  <2>5. Bounded'
    BY <1>2, <2>1, <2>2 DEF Basic, Bounded, Holds
  <2> QED BY <2>3, <2>4, <2>5 DEF Basic
<1>13. CASE CompressorStep
  <2>1. /\ UNCHANGED <<pc, pending, bad, endTime, cur, size, mtime, now, written, rolled, clean, late>>
        /\ raw' \in {NoFile, raw}
        /\ arch' = arch \/ arch' = [arch EXCEPT ![0] = raw] \/ arch' = [arch EXCEPT ![0] = NoFile]
    BY <1>13 DEF CompressorStep, CompressStart, CompressFinish, CompressKilled, CompressFail,
                 OrphanEnds, thread, history
  <2>2. spawned' \in Nat /\ orphans' \in Nat
    BY <1>1, <1>13 DEF CompressorStep, CompressStart, CompressFinish, CompressKilled, CompressFail,
                       OrphanEnds
  <2>3. writing' \subseteq Nums /\ partial' \subseteq Nums
    BY <1>1, <1>2, <1>13 DEF CompressorStep, CompressStart, CompressFinish, CompressKilled,
                             CompressFail, OrphanEnds
  <2>4. TypeOK'
    BY <1>1, <1>3, <2>1, <2>2, <2>3 DEF TypeOK
  <2>5. Places'
    BY <2>1 DEF Basic, Places
  <2>6. Bounded'
    BY <1>1, <2>1 DEF Basic, Bounded, Holds
  <2> QED BY <2>4, <2>5, <2>6 DEF Basic
<1>14. CASE UNCHANGED vars
  BY <1>14 DEF vars, thread, compressor, history, Basic, TypeOK, Places, Bounded, Holds
<1> QED BY <1>4, <1>5, <1>6, <1>7, <1>8, <1>9, <1>10, <1>11, <1>12, <1>13, <1>14 DEF Next

LEMMA BasicInvariant == Spec => []Basic
  BY BasicInit, BasicNext, PTL DEF Spec

\* The variables of the log file keep their types.
THEOREM TypeCorrect == Spec => []TypeOK
<1>1. Basic => TypeOK
  BY DEF Basic
<1> QED BY BasicInvariant, <1>1, PTL

-----------------------------------------------------------------------------
(* Archives                                                                *)

\* What an archive is after a roll of the archives that came down to number k: what
\* it was, or what the one before it was, or gone.
Rolled(f, k) ==
  \A n \in Nums :
    \/ f[n] = NoFile
    \/ n < k /\ f[n] = arch[n]
    \/ n > k /\ f[n] = arch[n - 1] /\ ~(n >= Keep)

LEMMA RolledOK ==
  ASSUME Basic, NEW k \in Nums
  PROVE  Rolled(RotatedFrom(k), k) /\ Rolled(Rotated, 0)
<1>1. \A n \in Nums : Rotated[n] = NoFile \/ (n > 0 /\ Rotated[n] = arch[n - 1] /\ ~(n >= Keep))
  BY RotatedOK
<1>2. \A n \in Nums : n \in Nat
  BY DEF Nums
<1> HIDE DEF Rotated
<1>3. Rolled(Rotated, 0)
  BY <1>1, <1>2 DEF Rolled
<1>4. \A n \in Nums : RotatedFrom(k)[n] =
        IF n < k THEN arch[n] ELSE IF n = k THEN NoFile ELSE Rotated[n]
  BY DEF RotatedFrom
<1>5. Rolled(RotatedFrom(k), k)
  BY <1>1, <1>2, <1>4 DEF Rolled
<1> QED BY <1>3, <1>5

\* Only a roll of the archives and the compressors change the archives; only a roll
\* and a compressor that ends change path.0.
LEMMA ArchiveSteps ==
  ASSUME Basic, [Next]_vars
  PROVE  /\ \/ arch' = arch
            \/ /\ \E k \in Nums : Rolled(arch', k)
               /\ UNCHANGED <<cur, raw, rolled, written>>
            \/ /\ arch' = [arch EXCEPT ![0] = raw] /\ raw # NoFile /\ arch[0] = NoFile
               /\ UNCHANGED <<cur, raw, rolled, written>>
            \/ /\ arch' = [arch EXCEPT ![0] = NoFile]
               /\ UNCHANGED <<cur, raw, rolled, written>>
         /\ \/ raw' = raw
            \/ raw' = NoFile /\ UNCHANGED <<arch, cur, rolled, written>>
            \/ RollCurrent
<1>1. CASE RollArchives \/ \E k \in Nums : RollArchivesCut(k)
  <2>1. 0 \in Nums
    BY LogFileAssumption DEF Nums
  <2>2. PICK k \in Nums : arch' = Rotated \/ arch' = RotatedFrom(k)
    BY <1>1, <2>1 DEF RollArchives, RollArchivesCut
  <2>3. \E l \in Nums : Rolled(arch', l)
    BY <2>1, <2>2, RolledOK, Zenon
  <2>4. UNCHANGED <<cur, raw, rolled, written>>
    BY <1>1 DEF RollArchives, RollArchivesCut
  <2> QED BY <2>3, <2>4
<1>2. CASE CompressorStep
  BY <1>2 DEF CompressorStep, CompressStart, CompressFinish, CompressKilled, CompressFail, OrphanEnds,
              history
<1>3. CASE ~CompressorStep /\ ~(RollArchives \/ \E k \in Nums : RollArchivesCut(k))
  <2>1. arch' = arch /\ (raw' = raw \/ RollCurrent)
    BY <1>3 DEF Next, vars, Open, Close, OpenFails, Kill, ProcessWrite, ProcessRoll,
                RollCurrent, StartCompressor, Reopen, Tick
  <2> QED BY <2>1
<1> QED BY <1>1, <1>2, <1>3

\* No archive has a number beyond the configured one, for every _keep.
THEOREM NumbersStayBelowKeep == Spec => []NumbersBelowKeep
<1>1. Init => NumbersBelowKeep
  BY DEF Init, NumbersBelowKeep
<1>2. Basic /\ NumbersBelowKeep /\ [Next]_vars => NumbersBelowKeep'
  <2> SUFFICES ASSUME Basic, NumbersBelowKeep, [Next]_vars PROVE NumbersBelowKeep'
    OBVIOUS
  <2>1. CASE arch' = arch
    BY <2>1 DEF NumbersBelowKeep
  <2>2. CASE \E k \in Nums : Rolled(arch', k)
    <3>1. PICK k \in Nums : Rolled(arch', k)
      BY <2>2
    <3>2. \A n \in Nums : n \in Nat
      BY DEF Nums
    <3> QED BY <3>1, <3>2, LogFileAssumption DEF Rolled, NumbersBelowKeep, Room
  <2>3. CASE arch' = [arch EXCEPT ![0] = raw] \/ arch' = [arch EXCEPT ![0] = NoFile]
    <3>1. arch \in [Nums -> File]
      BY DEF Basic, TypeOK
    <3> QED BY <2>3, <3>1, LogFileAssumption DEF NumbersBelowKeep, Room
  <2> QED BY <2>1, <2>2, <2>3, ArchiveSteps
<1> QED BY BasicInvariant, <1>1, <1>2, PTL DEF Spec

\* NoFile is older than everything and everything is older than it.
LEMMA OlderThanNoFile ==
  \A f : OlderThan(f, NoFile) /\ OlderThan(NoFile, f) /\ NotNewer(f, NoFile) /\ NotNewer(NoFile, f)
  BY DEF OlderThan, NotNewer

\* The archives' numbers tell their age, however rolls, kills and compressors
\* interleave, for every _keep and any number of compressors.
THEOREM ArchivesChronological == Spec => []Chronological
<1>1. Init => Chronological
  <2> SUFFICES ASSUME Init PROVE Chronological
    OBVIOUS
  <2>1. raw = NoFile /\ cur = NoFile /\ \A n \in Nums : arch[n] = NoFile
    BY DEF Init
  <2> QED BY <2>1, OlderThanNoFile DEF Chronological
<1>2. Basic /\ Chronological /\ [Next]_vars => Chronological'
  <2> SUFFICES ASSUME Basic, Chronological, [Next]_vars PROVE Chronological'
    OBVIOUS
  <2>1. CASE (\E k \in Nums : Rolled(arch', k)) /\ UNCHANGED <<cur, raw>>
    <3>1. PICK k \in Nums : Rolled(arch', k)
      BY <2>1
    <3>2. \A n \in Nums : n \in Nat /\ (n > 0 => n - 1 \in Nums)
      BY LogFileAssumption DEF Nums
    <3>3. ASSUME NEW m \in Nums, NEW n \in Nums, m < n
          PROVE  NotNewer(arch'[n], arch'[m])
      <4>1. CASE arch'[n] = NoFile \/ arch'[m] = NoFile
        BY <4>1, OlderThanNoFile
      <4>2. CASE arch'[n] # NoFile /\ arch'[m] # NoFile
        <5>1. \/ n < k /\ m < k /\ arch'[n] = arch[n] /\ arch'[m] = arch[m]
              \/ n > k /\ m < k /\ arch'[n] = arch[n - 1] /\ arch'[m] = arch[m]
              \/ n > k /\ m > k /\ arch'[n] = arch[n - 1] /\ arch'[m] = arch[m - 1]
          BY <3>1, <3>2, <3>3, <4>2 DEF Rolled
        <5>2. PICK i \in Nums, j \in Nums : i < j /\ arch'[n] = arch[j] /\ arch'[m] = arch[i]
          <6>1. CASE n < k /\ m < k /\ arch'[n] = arch[n] /\ arch'[m] = arch[m]
            BY <3>3, <6>1
          <6>2. CASE n > k /\ m < k /\ arch'[n] = arch[n - 1] /\ arch'[m] = arch[m]
            <7>1. n - 1 \in Nums /\ m < n - 1
              BY <3>2, <6>2
            <7> QED BY <6>2, <7>1
          <6>3. CASE n > k /\ m > k /\ arch'[n] = arch[n - 1] /\ arch'[m] = arch[m - 1]
            <7>1. k \in Nat /\ m \in Nat /\ n \in Nat
              BY <3>2
            <7>2. m > 0 /\ n > 0 /\ m - 1 < n - 1
              BY <3>3, <6>3, <7>1
            <7>3. n - 1 \in Nums /\ m - 1 \in Nums
              BY <3>2, <7>2
            <7> QED BY <6>3, <7>2, <7>3
          <6> QED BY <5>1, <6>1, <6>2, <6>3
        <5> QED BY <5>2 DEF Chronological
      <4> QED BY <4>1, <4>2
    <3>4. ASSUME NEW n \in Nums
          PROVE  NotNewer(arch'[n], raw) /\ OlderThan(arch'[n], cur)
      <4>1. CASE arch'[n] = NoFile
        BY <4>1, OlderThanNoFile
      <4>2. CASE arch'[n] # NoFile
        <5>1. PICK j \in Nums : arch'[n] = arch[j]
          BY <3>1, <3>2, <4>2 DEF Rolled
        <5> QED BY <5>1 DEF Chronological
      <4> QED BY <4>1, <4>2
    <3> QED BY <2>1, <3>3, <3>4 DEF Chronological
  <2>2. CASE arch' = [arch EXCEPT ![0] = raw] /\ UNCHANGED <<cur, raw>>
    <3>1. arch \in [Nums -> File] /\ 0 \in Nums /\ \A n \in Nums : n \in Nat
      BY LogFileAssumption DEF Basic, TypeOK, Nums
    <3>2. arch'[0] = raw /\ \A n \in Nums : n # 0 => arch'[n] = arch[n]
      BY <2>2, <3>1
    <3>3. ASSUME NEW m \in Nums, NEW n \in Nums, m < n
          PROVE  NotNewer(arch'[n], arch'[m])
      <4>1. arch'[n] = arch[n]
        BY <3>1, <3>2, <3>3
      <4>2. CASE m = 0
        BY <3>2, <4>1, <4>2 DEF Chronological
      <4>3. CASE m # 0
        BY <3>2, <3>3, <4>1, <4>3 DEF Chronological
      <4> QED BY <4>2, <4>3
    <3>4. ASSUME NEW n \in Nums
          PROVE  NotNewer(arch'[n], raw) /\ OlderThan(arch'[n], cur)
      <4>1. NotNewer(raw, raw)
        BY DEF NotNewer
      <4> QED BY <3>2, <4>1 DEF Chronological
    <3> QED BY <2>2, <3>3, <3>4 DEF Chronological
  <2>6. CASE arch' = [arch EXCEPT ![0] = NoFile] /\ UNCHANGED <<cur, raw>>
    <3>1. arch \in [Nums -> File] /\ 0 \in Nums
      BY LogFileAssumption DEF Basic, TypeOK, Nums
    <3>2. \A n \in Nums : arch'[n] = NoFile \/ arch'[n] = arch[n]
      BY <2>6, <3>1
    <3> QED BY <2>6, <3>2, OlderThanNoFile DEF Chronological
  <2>3. CASE RollCurrent
    <3>1. raw' = cur /\ cur' = NoFile /\ arch' = arch
      BY <2>3 DEF RollCurrent
    <3>2. \A n \in Nums : NotNewer(arch[n], cur)
      BY DEF Chronological, NotNewer
    <3> QED BY <3>1, <3>2, OlderThanNoFile DEF Chronological
  <2>4. CASE raw' = NoFile /\ UNCHANGED <<arch, cur>>
    BY <2>4, OlderThanNoFile DEF Chronological
  <2>5. CASE UNCHANGED <<raw, arch>>
    <3>1. CASE cur' = cur \/ cur' = {}
      <4>1. \A f : OlderThan(f, {})
        BY DEF OlderThan
      <4> QED BY <2>5, <3>1, <4>1 DEF Chronological
    <3>2. CASE \E c \in SUBSET (1..MaxMsgs) :
                 /\ c \subseteq 1..Len(written) /\ (c = cur \/ c = {})
                 /\ cur' = c \cup {Len(written) + 1}
      <4>1. PICK c \in SUBSET (1..MaxMsgs) :
              /\ c \subseteq 1..Len(written) /\ (c = cur \/ c = {})
              /\ cur' = c \cup {Len(written) + 1}
        BY <3>2
      <4>2. ASSUME NEW f, Holds(f), OlderThan(f, cur) PROVE OlderThan(f, cur')
        <5>1. CASE f = NoFile
          BY <5>1, OlderThanNoFile
        <5>2. CASE f # NoFile
          <6>1. ASSUME NEW m \in f, NEW n \in cur' PROVE m < n
            <7>1. m \in 1..Len(written) /\ Len(written) \in Nat
              BY <4>2, <5>2, <6>1 DEF Holds, Basic, TypeOK
            <7>2. CASE n = Len(written) + 1
              BY <7>1, <7>2
            <7>3. CASE n \in c
              <8>1. cur # NoFile
                BY <4>1, <7>3, NotNoFile
              <8> QED BY <4>1, <4>2, <5>2, <6>1, <7>3, <8>1 DEF OlderThan
            <7> QED BY <4>1, <6>1, <7>2, <7>3
          <6> QED BY <6>1 DEF OlderThan
        <5> QED BY <5>1, <5>2
      <4> QED BY <2>5, <4>2 DEF Chronological, Basic, Bounded
    <3>3. cur' = cur \/ cur' = {} \/ RollCurrent
          \/ \E c \in SUBSET (1..MaxMsgs) :
                 /\ c \subseteq 1..Len(written) /\ (c = cur \/ c = {})
                 /\ cur' = c \cup {Len(written) + 1}
      <4>1. CASE \E ts \in Times : ProcessWrite(ts)
        <5>1. cur \in SUBSET (1..MaxMsgs) /\ cur \subseteq 1..Len(written)
          BY <4>1 DEF ProcessWrite, Basic, TypeOK, Places, Bounded, Holds, File
        <5> QED BY <4>1, <5>1 DEF ProcessWrite, Write
      <4>2. CASE Reopen
        BY <4>2 DEF Reopen, Write
      <4>3. CASE ~Reopen /\ ~\E ts \in Times : ProcessWrite(ts)
        BY <4>3 DEF Next, vars, Open, Close, OpenFails, Kill, ProcessRoll, RollArchives,
                    RollArchivesCut, StartCompressor, CompressorStep, CompressStart, CompressFinish,
                    CompressKilled, CompressFail, OrphanEnds, Tick
      <4> QED BY <4>1, <4>2, <4>3
    <3> QED BY <2>3, <3>1, <3>2, <3>3
  <2> QED BY <2>1, <2>2, <2>3, <2>4, <2>5, <2>6, ArchiveSteps
<1> QED BY BasicInvariant, <1>1, <1>2, PTL DEF Spec

-----------------------------------------------------------------------------
(* Sizes                                                                   *)

\* A log exceeds _rollSize by less than one message, for every size of the limit and
\* of the messages, across restarts, cut-off writes and failed opens.
THEOREM SizeStaysBounded == Spec => []SizeBound
<1>1. Init => SizeBound
  BY LogFileAssumption DEF Init, SizeBound
<1>2. Basic /\ SizeBound /\ [Next]_vars => SizeBound'
  <2> SUFFICES ASSUME Basic, SizeBound, [Next]_vars, RollSize > 0
               PROVE  size' < RollSize + MaxSize
    BY DEF SizeBound
  <2>1. RollSize \in Nat /\ MaxSize \in Nat /\ MaxSize > 0 /\ size \in Nat
    BY LogFileAssumption DEF Basic, TypeOK
  <2>2. CASE \E ts \in Times : ProcessWrite(ts)
    <3>1. size < RollSize
      BY <2>1, <2>2 DEF ProcessWrite, RollCriteriaMet
    <3>2. size' = size \/ \E s \in 1..MaxSize : size' = size + s
      BY <2>2 DEF ProcessWrite, Write
    <3> QED BY <2>1, <3>1, <3>2
  <2>3. CASE Reopen
    <3>1. size' = 0 \/ \E s \in 1..MaxSize : size' = 0 + s
      BY <2>3 DEF Reopen, Write
    <3> QED BY <2>1, <3>1
  <2>4. CASE ~Reopen /\ ~\E ts \in Times : ProcessWrite(ts)
    <3>1. size' = size \/ size' = 0
      BY <2>4 DEF Next, vars, Open, Close, OpenFails, Kill, ProcessRoll, RollArchives,
                  RollArchivesCut, RollCurrent, StartCompressor, CompressorStep, CompressStart,
                  CompressFinish, CompressKilled, CompressFail, OrphanEnds, Tick
    <3> QED BY <2>1, <3>1 DEF SizeBound
  <2> QED BY <2>2, <2>3, <2>4
<1> QED BY BasicInvariant, <1>1, <1>2, PTL DEF Spec

-----------------------------------------------------------------------------
(* Periods                                                                 *)

\* All messages in f were written in the period t.
WrittenIn(f, t) == \A m \in f : written[m] = t
OnePeriod(f) == f # NoFile => \A m, n \in f : written[m] = written[n]

\* The file being written has the messages of one period, that of its modification
\* time, and the interval in force while it can be written to is that period.
CurrentPeriod ==
  /\ mtime <= now
  /\ pc = "reopen" => endTime = now + 1
  /\ ~late /\ pc = "open" /\ ~bad => endTime = mtime + 1
  /\ ~late /\ cur # NoFile => WrittenIn(cur, mtime)

OnePeriodEach ==
  ~late => OnePeriod(cur) /\ OnePeriod(raw) /\ \A n \in Nums : OnePeriod(arch[n])

PeriodInv == CurrentPeriod /\ OnePeriodEach

LEMMA PeriodInit == Init => PeriodInv
  BY DEF Init, PeriodInv, CurrentPeriod, OnePeriodEach, OnePeriod

\* The messages of a file keep their periods when others are written.
LEMMA PeriodKept ==
  ASSUME Basic, Len(written') \in Nat, Len(written') >= Len(written),
         \A i \in 1..Len(written) : written'[i] = written[i],
         NEW f, Holds(f), f # NoFile
  PROVE  /\ OnePeriod(f) => \A m, n \in f : written'[m] = written'[n]
         /\ \A t : WrittenIn(f, t) => \A m \in f : written'[m] = t
  BY DEF Holds, OnePeriod, WrittenIn

\* The history of writes only grows.
LEMMA WrittenGrows ==
  ASSUME Basic, [Next]_vars
  PROVE  /\ Len(written) \in Nat /\ Len(written') \in Nat /\ Len(written') >= Len(written)
         /\ \A i \in 1..Len(written) : written'[i] = written[i]
<1>1. Len(written) \in Nat /\ TypeOK
  BY DEF Basic, TypeOK
<1>2. CASE \E ts \in Times : ProcessWrite(ts)
  <2>1. cur \in SUBSET (1..MaxMsgs) /\ cur \subseteq 1..Len(written) /\ size \in Nat
    BY <1>2 DEF ProcessWrite, Basic, TypeOK, Places, Bounded, Holds, File
  <2> QED BY <1>1, <1>2, <2>1, WriteOK DEF ProcessWrite
<1>3. CASE Reopen /\ pending
  <2>1. {} \in SUBSET (1..MaxMsgs) /\ {} \subseteq 1..Len(written)
    OBVIOUS
  <2> QED BY <1>1, <1>3, <2>1, WriteOK DEF Reopen
<1>4. CASE written' = written
  BY <1>1, <1>4
<1>5. CASE ~(Reopen /\ pending) /\ ~\E ts \in Times : ProcessWrite(ts)
  <2>1. written' = written
    BY <1>5 DEF Next, vars, Open, Close, OpenFails, Kill, ProcessRoll, RollArchives, RollArchivesCut,
                RollCurrent, StartCompressor, Reopen, CompressorStep, CompressStart, CompressFinish,
                CompressKilled, CompressFail, OrphanEnds, Tick, history
  <2> QED BY <1>4, <2>1
<1> QED BY <1>2, <1>3, <1>5

LEMMA CurrentPeriodNext ==
  ASSUME Basic, CurrentPeriod, [Next]_vars
  PROVE  CurrentPeriod'
<1>1. mtime \in Nat /\ now \in Nat /\ endTime \in Nat /\ late \in BOOLEAN
  BY LogFileAssumption DEF Basic, TypeOK, Times
<1>2. \A t : WrittenIn({}, t)
  BY DEF WrittenIn
<1>3. CASE Open
  <2>1. /\ pc' \in {"open", "rollArchives"} /\ endTime' = now + 1
        /\ UNCHANGED <<now, written, late>>
        /\ \/ cur' = cur /\ mtime' = mtime /\ (pc' = "open" => ~(now > mtime))
           \/ cur' = {} /\ mtime' = now
    BY <1>3 DEF Open, history
  <2>2. mtime' <= now' /\ (pc' = "open" => endTime' = mtime' + 1)
    BY <1>1, <2>1 DEF CurrentPeriod
  <2>3. ~late' /\ cur' # NoFile => WrittenIn(cur, mtime)'
    BY <2>1 DEF CurrentPeriod, WrittenIn
  <2> QED BY <2>1, <2>2, <2>3 DEF CurrentPeriod
<1>4. CASE Close \/ OpenFails \/ Kill \/ Tick
  <2>1. /\ UNCHANGED <<cur, mtime, written, late, bad, endTime>>
        /\ now' = now \/ now' = now + 1
        /\ pc' # "reopen" /\ (pc' = "open" => pc = "open")
    BY <1>4 DEF Close, OpenFails, Kill, Tick, thread, history
  <2> QED BY <1>1, <2>1 DEF CurrentPeriod, WrittenIn
<1>5. CASE \E ts \in Times : ProcessWrite(ts)
  <2> PICK ts \in Times : ProcessWrite(ts)
    BY <1>5
  <2>1. /\ pc = "open" /\ ~bad /\ ~(ts >= endTime /\ now >= endTime) /\ late' = (late \/ ts # now)
        /\ UNCHANGED <<pc, endTime, now>>
    BY DEF ProcessWrite, RollCriteriaMet
  <2>2. cur \in SUBSET (1..MaxMsgs) /\ cur \subseteq 1..Len(written) /\ cur # NoFile
        /\ size \in Nat
    BY <2>1 DEF Basic, TypeOK, Places, Bounded, Holds, File
  <2>3. ~late' => ~late /\ ts = now
    BY <2>1, Zenon
  <2>4. \/ /\ cur' = cur \cup {Len(written) + 1} /\ written'[Len(written) + 1] = now
           /\ mtime' = now
        \/ cur' = cur /\ bad' = TRUE /\ written' = written /\ mtime' = mtime
    BY <2>2, WriteOK DEF ProcessWrite, Basic
  <2>5. ~late' => endTime = mtime + 1 /\ now = mtime
    BY <1>1, <2>1, <2>3 DEF CurrentPeriod
  <2>6. mtime' <= now' /\ (~late' => endTime' = mtime' + 1)
    BY <1>1, <2>1, <2>4, <2>5 DEF CurrentPeriod
  <2>7. ASSUME ~late' PROVE \A m \in cur' : written'[m] = mtime'
    <3>1. \A m \in cur : written[m] = mtime
      BY <2>2, <2>3, <2>7 DEF CurrentPeriod, WrittenIn
    <3>2. \A m \in cur : written'[m] = mtime
      BY <2>2, <3>1, WrittenGrows
    <3> QED BY <2>4, <2>5, <2>7, <3>2
  <2> QED BY <2>1, <2>6, <2>7 DEF CurrentPeriod, WrittenIn
<1>6. CASE \/ \E ts \in Times : ProcessRoll(ts)
           \/ RollArchives \/ \E k \in Nums : RollArchivesCut(k)
           \/ CompressorStep
  <2>1. /\ UNCHANGED <<cur, mtime, written, endTime, now>> /\ (late => late')
        /\ \/ pc' \in {"rollArchives", "rollCurrent", "closed"}
           \/ pc' = pc /\ bad' = bad
    BY <1>1, <1>6 DEF ProcessRoll, RollArchives, RollArchivesCut, CompressorStep, CompressStart,
                      CompressFinish, CompressKilled, CompressFail, OrphanEnds, thread, history
  <2> QED BY <2>1 DEF CurrentPeriod, WrittenIn
<1>7. CASE RollCurrent \/ StartCompressor
  <2>1. /\ UNCHANGED <<mtime, now, written, late>> /\ pc' # "open"
        /\ cur' = NoFile \/ cur' = cur
        /\ pc' = "reopen" => endTime' = now + 1
    BY <1>7 DEF RollCurrent, StartCompressor, history
  <2> QED BY <2>1 DEF CurrentPeriod, WrittenIn
<1>8. CASE Reopen
  <2>1. endTime = now + 1 /\ pc' = "open" /\ mtime' = now /\ UNCHANGED <<endTime, now, late>>
    BY <1>8 DEF Reopen, CurrentPeriod
  <2>2. \/ cur' = {}
        \/ /\ cur' = {Len(written) + 1} /\ written'[Len(written) + 1] = now
    <3>1. {} \in SUBSET (1..MaxMsgs) /\ {} \subseteq 1..Len(written)
      OBVIOUS
    <3>2. CASE pending
      BY <1>8, <3>1, <3>2, WriteOK DEF Reopen, Basic
    <3>3. CASE ~pending
      BY <1>8, <3>3 DEF Reopen
    <3> QED BY <3>2, <3>3
  <2>3. mtime' <= now' /\ endTime' = mtime' + 1
    BY <1>1, <2>1
  <2>4. \A m \in cur' : written'[m] = mtime'
    BY <2>1, <2>2
  <2> QED BY <2>1, <2>3, <2>4 DEF CurrentPeriod, WrittenIn
<1>9. CASE UNCHANGED vars
  BY <1>9 DEF vars, thread, history, CurrentPeriod, WrittenIn
<1> QED BY <1>3, <1>4, <1>5, <1>6, <1>7, <1>8, <1>9 DEF Next

LEMMA OnePeriodNext ==
  ASSUME Basic, PeriodInv, [Next]_vars, CurrentPeriod'
  PROVE  OnePeriodEach'
<1> SUFFICES ASSUME ~late'
             PROVE  /\ OnePeriod(cur)'
                    /\ OnePeriod(raw)'
                    /\ \A n \in Nums : OnePeriod(arch[n])'
  BY DEF OnePeriodEach
<1>1. ~late
  <2>1. late \in BOOLEAN
    BY DEF Basic, TypeOK
  <2>2. late' = late \/ \E x : late' = (late \/ x)
    BY DEF Next, vars, Open, Close, OpenFails, Kill, ProcessWrite, ProcessRoll, RollArchives,
           RollArchivesCut, RollCurrent, StartCompressor, Reopen, CompressorStep, CompressStart,
           CompressFinish, CompressKilled, CompressFail, OrphanEnds, Tick, history
  <2> QED BY <2>1, <2>2
<1>2. OnePeriod(cur)'
  BY DEF CurrentPeriod, WrittenIn, OnePeriod
<1>3. ASSUME NEW f, Holds(f), OnePeriod(f), f # NoFile
      PROVE  \A m, n \in f : written'[m] = written'[n]
  BY <1>3, WrittenGrows, PeriodKept
<1>4. raw' \in {NoFile, raw, cur}
  BY ArchiveSteps DEF RollCurrent
<1>5. ASSUME NEW n \in Nums
      PROVE  arch'[n] \in {NoFile, raw} \cup {arch[k] : k \in Nums}
  <2>1. arch \in [Nums -> File]
    BY DEF Basic, TypeOK
  <2>2. CASE \E k \in Nums : Rolled(arch', k)
    <3>1. PICK k \in Nums : Rolled(arch', k)
      BY <2>2
    <3>2. \A m \in Nums : m \in Nat /\ (m > 0 => m - 1 \in Nums)
      BY LogFileAssumption DEF Nums
    <3> QED BY <3>1, <3>2 DEF Rolled
  <2>3. CASE \/ arch' = arch \/ arch' = [arch EXCEPT ![0] = raw]
             \/ arch' = [arch EXCEPT ![0] = NoFile]
    BY <2>1, <2>3
  <2> QED BY <2>2, <2>3, ArchiveSteps
<1>6. /\ Holds(cur) /\ Holds(raw) /\ \A k \in Nums : Holds(arch[k])
      /\ OnePeriod(cur) /\ OnePeriod(raw) /\ \A k \in Nums : OnePeriod(arch[k])
  BY <1>1 DEF Basic, Bounded, PeriodInv, OnePeriodEach
<1>7. OnePeriod(raw)'
  BY <1>3, <1>4, <1>6 DEF OnePeriod
<1>8. ASSUME NEW n \in Nums PROVE OnePeriod(arch[n])'
  BY <1>3, <1>5, <1>6 DEF OnePeriod
<1> QED BY <1>2, <1>7, <1>8

\* No file mixes two periods as long as messages arrive in the period of their
\* timestamp, for every history of openings, rolls and kills.
THEOREM FilesHaveOnePeriod == Spec => []OnePeriodPerFile
<1>1. Basic /\ PeriodInv /\ [Next]_vars => PeriodInv'
  BY CurrentPeriodNext, OnePeriodNext DEF PeriodInv
<1>2. PeriodInv => OnePeriodPerFile
  BY DEF PeriodInv, OnePeriodEach, OnePeriod, OnePeriodPerFile
<1> QED BY BasicInvariant, PeriodInit, <1>1, <1>2, PTL DEF Spec

-----------------------------------------------------------------------------
(* Retention                                                               *)

\* What was rolled was a file, path.0 is the last one of them or gone, and those
\* that are counted were rolled, or are about to be.
Rolls ==
  /\ \A k \in 1..Len(rolled) : rolled[k] # NoFile
  /\ raw # NoFile => Len(rolled) > 0 /\ raw = rolled[Len(rolled)]
  /\ clean <= Len(rolled) + (IF pc = "rollCurrent" THEN 1 ELSE 0)

\* Archive n holds f and is complete.
Complete(n, f) == arch[n] = f /\ n \notin writing \cup partial

\* While the archives have made room for the next one, every file that is to be
\* kept is one number further; no compressor is at work.
MadeRoom ==
  clean > 0 =>
    /\ raw = NoFile /\ spawned = 0 /\ writing = {} /\ orphans = 0 /\ 0 \notin partial
    /\ \A i \in 1..(Room - 1) : i < clean => Complete(i, rolled[Len(rolled) - (i - 1)])

\* At any other time each is there under its number; the compressor of the last roll
\* is the only one, and path.0 and path.0.bz2 are its files.
InPlace ==
  /\ \A i \in 0..(Room - 1) : i < clean => Retained(i)
  /\ clean > 0 =>
       /\ writing \subseteq {0} /\ orphans = 0
       /\ 0 \in writing => raw = rolled[Len(rolled)] /\ arch[0] = rolled[Len(rolled)]
       /\ 0 \in partial => arch[0] # NoFile /\ 0 \notin writing

RetainInv == Rolls /\ IF pc = "rollCurrent" THEN MadeRoom ELSE InPlace

LEMMA RetainInit == Init => RetainInv
  BY DEF Init, RetainInv, Rolls, InPlace

LEMMA RoomFacts ==
  /\ Room \in Nat \ {0} /\ 0 \in Nums
  /\ \A i \in 0..(Room - 1) : i \in Nums /\ i \in Nat
  /\ \A i \in 1..(Room - 1) : i \in Nums /\ i \in Nat /\ i > 0 /\ ~(i >= Keep) /\ i - 1 \in 0..(Room - 1)
  BY LogFileAssumption DEF Room, Nums

LEMMA RollsNext ==
  ASSUME Basic, Rolls, [Next]_vars
  PROVE  Rolls'
<1>1. clean \in Nat /\ rolled \in Seq(File) /\ Len(rolled) \in Nat
  BY DEF Basic, TypeOK
<1>2. CASE RollCurrent
  <2>1. cur \in File /\ cur # NoFile
    BY <1>2 DEF RollCurrent, Basic, TypeOK, Places
  <2>2. rolled' = Append(rolled, cur) /\ raw' = cur /\ clean' = clean /\ pc = "rollCurrent"
    BY <1>2 DEF RollCurrent
  <2>3. /\ Len(rolled') = Len(rolled) + 1
        /\ \A k \in 1..Len(rolled) : rolled'[k] = rolled[k]
        /\ rolled'[Len(rolled) + 1] = cur
    BY <1>1, <2>1, <2>2
  <2> QED BY <1>1, <2>1, <2>2, <2>3 DEF Rolls
<1>3. CASE ~RollCurrent
  <2>1. rolled' = rolled
    BY <1>3 DEF Next, vars, Open, Close, OpenFails, Kill, ProcessWrite, ProcessRoll, RollArchives,
                RollArchivesCut, StartCompressor, Reopen, CompressorStep, CompressStart,
                CompressFinish, CompressKilled, CompressFail, OrphanEnds, Tick, history
  <2>2. raw' \in {raw, NoFile}
    BY <1>3, ArchiveSteps
  <2>3. \/ clean' = 0
        \/ clean' = clean + 1 /\ pc = "rollArchives" /\ pc' = "rollCurrent"
        \/ clean' = clean /\ (pc = "rollCurrent" => pc' = "rollCurrent")
    BY <1>3 DEF Next, vars, Open, Close, OpenFails, Kill, ProcessWrite, ProcessRoll, RollArchives,
                RollArchivesCut, StartCompressor, Reopen, CompressorStep, CompressStart,
                CompressFinish, CompressKilled, CompressFail, OrphanEnds, Tick, thread, history
  <2>4. clean' <= Len(rolled) + (IF pc' = "rollCurrent" THEN 1 ELSE 0)
    BY <1>1, <2>3 DEF Rolls
  <2> QED BY <2>1, <2>2, <2>4 DEF Rolls
<1> QED BY <1>2, <1>3

\* What is there of the files to be kept when a compressor has done a step.
LEMMA RetainCompressor ==
  ASSUME Basic, RetainInv, CompressorStep
  PROVE  IF pc' = "rollCurrent" THEN MadeRoom' ELSE InPlace'
<1>1. /\ UNCHANGED <<pc, rolled, clean>> /\ clean \in Nat
  BY DEF CompressorStep, CompressStart, CompressFinish, CompressKilled, CompressFail, OrphanEnds,
         thread, history, Basic, TypeOK
<1>2. CASE ~(clean > 0)
  <2>1. \A i \in 0..(Room - 1) : ~(i < clean)
    BY <1>1, <1>2, RoomFacts
  <2> QED BY <1>1, <1>2, <2>1 DEF MadeRoom, InPlace
<1>3. CASE clean > 0 /\ pc = "rollCurrent"
  <2>1. spawned = 0 /\ writing = {} /\ orphans = 0
    BY <1>3 DEF RetainInv, MadeRoom
  <2> QED BY <2>1 DEF CompressorStep, CompressStart, CompressFinish, CompressKilled, CompressFail,
                      OrphanEnds
<1>4. CASE clean > 0 /\ pc # "rollCurrent"
  <2>1. /\ InPlace /\ Rolls /\ writing \subseteq {0} /\ orphans = 0
        /\ 0 \in writing => raw = rolled[Len(rolled)] /\ arch[0] = rolled[Len(rolled)]
        /\ 0 \in partial => arch[0] # NoFile /\ 0 \notin writing
    BY <1>4 DEF RetainInv, InPlace
  <2>2. /\ arch \in [Nums -> File] /\ 0 \in Nums /\ Len(rolled) \in Nat
        /\ \A n \in Nums : n \in Nat
    BY RoomFacts DEF Basic, TypeOK, Nums
  <2>3. Len(rolled) > 0 /\ rolled[Len(rolled)] # NoFile
    BY <1>1, <1>4, <2>1, <2>2 DEF Rolls
  <2> DEFINE last == rolled[Len(rolled)]
  <2> HIDE DEF last
  <2>4. /\ (0 \in writing => raw = last /\ arch[0] = last) /\ last # NoFile
        /\ raw # NoFile => raw = last
    BY <2>1, <2>3 DEF last, Rolls
  <2>5. /\ writing' \subseteq {0} /\ orphans' = 0
        /\ 0 \in writing' => raw' = last /\ arch'[0] = last
        /\ 0 \in partial' => arch'[0] # NoFile /\ 0 \notin writing'
        /\ raw = last \/ Complete(0, last) =>
             raw' = last \/ (arch'[0] = last /\ 0 \notin writing' \cup partial')
        /\ \A n \in Nums : n # 0 => arch'[n] = arch[n] /\ (n \in partial' <=> n \in partial)
    <3>1. CASE CompressStart
      <4>1. /\ raw' = raw /\ partial' = partial /\ orphans' = orphans
            /\ \/ arch' = arch /\ writing' = writing
               \/ /\ raw # NoFile /\ arch[0] = NoFile
                  /\ arch' = [arch EXCEPT ![0] = raw] /\ writing' = writing \cup {0}
        BY <3>1 DEF CompressStart
      <4>2. CASE arch' = arch /\ writing' = writing
        BY <2>1, <2>4, <4>1, <4>2 DEF Complete
      <4>3. CASE raw # NoFile /\ arch[0] = NoFile
                 /\ arch' = [arch EXCEPT ![0] = raw] /\ writing' = writing \cup {0}
        <5>1. /\ raw = last /\ arch'[0] = raw /\ 0 \notin partial
              /\ \A n \in Nums : n # 0 => arch'[n] = arch[n]
          BY <2>1, <2>2, <2>4, <4>3
        <5> QED BY <2>1, <4>1, <4>3, <5>1
      <4> QED BY <4>1, <4>2, <4>3
    <3>2. CASE \E n \in Nums : CompressFinish(n) \/ CompressKilled(n) \/ CompressFail(n)
      <4>1. PICK n \in Nums : CompressFinish(n) \/ CompressKilled(n) \/ CompressFail(n)
        BY <3>2
      <4>2. n = 0 /\ raw = last /\ arch[0] = last /\ writing = {0} /\ 0 \notin partial
        BY <2>1, <2>4, <4>1 DEF CompressFinish, CompressKilled, CompressFail
      <4>3. CASE CompressFinish(0)
        <5>1. writing' = {} /\ arch' = arch /\ orphans' = orphans /\ partial' = partial
          BY <4>2, <4>3 DEF CompressFinish
        <5> QED BY <2>1, <4>2, <5>1 DEF Complete
      <4>4. CASE CompressKilled(0)
        <5>1. /\ writing' = {} /\ arch' = arch /\ raw' = raw /\ orphans' = orphans
              /\ partial' = partial \cup {0}
          BY <4>2, <4>4 DEF CompressKilled
        <5> QED BY <2>1, <2>4, <4>2, <5>1
      <4>5. CASE CompressFail(0)
        <5>1. /\ writing' = {} /\ arch' = [arch EXCEPT ![0] = NoFile] /\ raw' = raw
              /\ orphans' = orphans + 0 /\ partial' = (partial \cup {0}) \ {0}
          BY <4>2, <4>5 DEF CompressFail
        <5> QED BY <2>1, <2>2, <4>2, <5>1
      <4> QED BY <4>1, <4>2, <4>3, <4>4, <4>5
    <3>3. CASE OrphanEnds
      BY <2>1, <3>3 DEF OrphanEnds
    <3> QED BY <3>1, <3>2, <3>3 DEF CompressorStep
  <2>6. ASSUME NEW i \in 0..(Room - 1), i < clean PROVE Retained(i)'
    <3>1. Retained(i) /\ i \in Nums
      BY <2>1, <2>6, RoomFacts DEF InPlace
    <3>2. CASE i = 0
      <4>1. Len(rolled) - i = Len(rolled)
        BY <2>2, <3>2
      <4>2. raw = last \/ Complete(0, last)
        BY <3>1, <3>2, <4>1 DEF Retained, Complete, last
      <4>3. raw' = last \/ (arch'[0] = last /\ 0 \notin writing' \cup partial')
        BY <2>5, <4>2
      <4> QED BY <1>1, <3>2, <4>1, <4>3 DEF Retained, last
    <3>3. CASE i # 0
      <4>1. arch[i] = rolled[Len(rolled) - i] /\ i \notin partial
        BY <3>1, <3>3 DEF Retained
      <4>2. arch'[i] = arch[i] /\ i \notin partial' /\ i \notin writing'
        BY <2>5, <3>1, <3>3, <4>1
      <4> QED BY <1>1, <4>1, <4>2 DEF Retained
    <3> QED BY <3>2, <3>3
  <2>7. 0 \in writing' => raw' = rolled'[Len(rolled')] /\ arch'[0] = rolled'[Len(rolled')]
    BY <1>1, <2>5 DEF last
  <2> QED BY <1>1, <1>4, <2>5, <2>6, <2>7 DEF InPlace
<1> QED BY <1>1, <1>2, <1>3, <1>4

\* The roll of the archives makes room, if nothing disturbs it.
LEMMA RetainArchives ==
  ASSUME Basic, RetainInv, RollArchives
  PROVE  MadeRoom'
<1>1. /\ pc = "rollArchives" /\ arch' = Rotated
      /\ writing' = Moved(writing, 0) /\ partial' = Moved(partial, 0)
      /\ orphans' = orphans + MovedOut(0)
      /\ clean' = IF raw = NoFile /\ spawned = 0 /\ writing = {} /\ orphans = 0
                  THEN clean + 1 ELSE 0
      /\ UNCHANGED <<raw, rolled, spawned>>
  BY DEF RollArchives
<1>2. /\ rolled \in Seq(File) /\ Len(rolled) \in Nat /\ clean \in Nat
      /\ partial \subseteq Nums /\ \A n \in Nums : n \in Nat
  BY DEF Basic, TypeOK, Nums
<1>3. CASE ~(raw = NoFile /\ spawned = 0 /\ writing = {} /\ orphans = 0)
  BY <1>1, <1>3 DEF MadeRoom
<1>4. CASE raw = NoFile /\ spawned = 0 /\ writing = {} /\ orphans = 0
  <2>1. writing' = {} /\ orphans' = 0 /\ clean' = clean + 1
    BY <1>1, <1>4 DEF Moved, MovedOut
  <2>2. /\ 0 \notin partial'
        /\ \A n \in Nums : n > 0 /\ n \in partial' => n - 1 \in partial
    BY <1>1, <1>2 DEF Moved
  <2>3. InPlace
    BY <1>1 DEF RetainInv
  <2>4. ASSUME NEW i \in 1..(Room - 1), i < clean'
        PROVE  Complete(i, rolled[Len(rolled) - (i - 1)])'
    <3>1. Rotated[i] = arch[i - 1]
      BY RotatedOK, RoomFacts
    <3>2. i - 1 < clean /\ i \in Nums /\ i > 0
      BY <1>2, <2>1, <2>4, RoomFacts
    <3>3. Retained(i - 1)
      BY <2>3, <3>2, RoomFacts DEF InPlace
    <3>4. Len(rolled) - (i - 1) \in 1..Len(rolled)
      BY <1>1, <1>2, <3>2, RoomFacts DEF RetainInv, Rolls
    <3>5. rolled[Len(rolled) - (i - 1)] # NoFile
      BY <3>4 DEF RetainInv, Rolls
    <3>6. arch[i - 1] = rolled[Len(rolled) - (i - 1)] /\ i - 1 \notin partial
      BY <1>4, <3>3, <3>5 DEF Retained
    <3>7. i \notin partial' /\ i \notin writing'
      BY <2>1, <2>2, <3>2, <3>6
    <3>8. arch'[i] = rolled[Len(rolled) - (i - 1)]
      <4> HIDE DEF Rotated
      <4> QED BY <1>1, <3>1, <3>6
    <3> QED BY <1>1, <3>7, <3>8 DEF Complete
  <2> QED BY <1>1, <1>4, <2>1, <2>2, <2>4 DEF MadeRoom
<1> QED BY <1>3, <1>4

\* The file that is rolled takes the place that was made for it.
LEMMA RetainCurrent ==
  ASSUME Basic, RetainInv, RollCurrent
  PROVE  InPlace'
<1>1. /\ pc = "rollCurrent" /\ raw' = cur /\ rolled' = Append(rolled, cur)
      /\ UNCHANGED <<arch, clean, spawned, writing, orphans, partial>>
  BY DEF RollCurrent, compressor
<1>2. /\ rolled \in Seq(File) /\ Len(rolled) \in Nat /\ cur \in File /\ clean \in Nat
  BY DEF Basic, TypeOK
<1>3. MadeRoom
  BY <1>1 DEF RetainInv
<1>4. /\ Len(rolled') = Len(rolled) + 1
      /\ \A k \in 1..Len(rolled) : rolled'[k] = rolled[k]
      /\ rolled'[Len(rolled) + 1] = cur
  BY <1>1, <1>2
<1>5. ASSUME NEW i \in 0..(Room - 1), i < clean'
      PROVE  Retained(i)'
  <2>1. CASE i = 0
    <3>1. Len(rolled') - i = Len(rolled) + 1
      BY <1>2, <1>4, <2>1
    <3> QED BY <1>1, <1>4, <2>1, <3>1 DEF Retained
  <2>2. CASE i # 0
    <3>1. i \in 1..(Room - 1) /\ i < clean /\ clean > 0
      BY <1>1, <1>2, <1>5, <2>2, RoomFacts
    <3>2. Complete(i, rolled[Len(rolled) - (i - 1)])
      BY <1>3, <3>1 DEF MadeRoom
    <3>3. Len(rolled) - (i - 1) \in 1..Len(rolled) /\ Len(rolled') - i = Len(rolled) - (i - 1)
      BY <1>1, <1>2, <1>4, <3>1, RoomFacts DEF RetainInv, Rolls
    <3>4. rolled'[Len(rolled') - i] = rolled[Len(rolled) - (i - 1)]
      BY <1>4, <3>3
    <3> QED BY <1>1, <3>2, <3>4 DEF Retained, Complete
  <2> QED BY <2>1, <2>2
<1>6. clean' > 0 => writing' = {} /\ orphans' = 0 /\ 0 \notin partial'
  BY <1>1, <1>3 DEF MadeRoom
<1> QED BY <1>5, <1>6 DEF InPlace

LEMMA RetainNext ==
  ASSUME Basic, RetainInv, [Next]_vars
  PROVE  IF pc' = "rollCurrent" THEN MadeRoom' ELSE InPlace'
<1>1. CASE RollArchives
  BY <1>1, RetainArchives DEF RollArchives
<1>2. CASE RollCurrent
  BY <1>2, RetainCurrent DEF RollCurrent
<1>3. CASE CompressorStep
  BY <1>3, RetainCompressor
<1>4. CASE (\E k \in Nums : RollArchivesCut(k)) \/ (Kill /\ pc = "rollCurrent")
  <2>1. clean' = 0 /\ pc' = "closed"
    BY <1>4 DEF RollArchivesCut, Kill
  <2>2. \A i \in 0..(Room - 1) : ~(i < 0)
    BY RoomFacts
  <2> QED BY <2>1, <2>2 DEF InPlace
<1>5. CASE \/ Open \/ Close \/ OpenFails \/ StartCompressor \/ Reopen \/ (Kill /\ pc # "rollCurrent")
           \/ \E ts \in Times : ProcessWrite(ts) \/ ProcessRoll(ts)
  <2>1. /\ UNCHANGED <<raw, arch, rolled, writing, orphans, partial, clean>>
        /\ pc # "rollCurrent" /\ pc' # "rollCurrent"
    BY <1>5 DEF Open, Close, OpenFails, StartCompressor, Reopen, Kill, ProcessWrite, ProcessRoll,
                compressor, history
  <2> QED BY <2>1 DEF RetainInv, InPlace, Retained
<1>6. CASE Tick \/ UNCHANGED vars
  <2>1. UNCHANGED <<pc, raw, arch, rolled, spawned, writing, orphans, partial, clean>>
    BY <1>6 DEF Tick, vars, thread, compressor, history
  <2> QED BY <2>1 DEF RetainInv, InPlace, MadeRoom, Complete, Retained
<1> QED BY <1>1, <1>2, <1>3, <1>4, <1>5, <1>6 DEF Next

\* The files rolled since the last disturbed roll are all there, whole and under
\* their number, up to _keep of them: for every _keep, and whether the compressors
\* succeed, fail, are killed or are never started.
THEOREM RetainsAll == Spec => []RetainsKeepSinceDisturbed
<1>1. Basic /\ RetainInv /\ [Next]_vars => RetainInv'
  BY RollsNext, RetainNext DEF RetainInv
<1>2. RetainInv => RetainsKeepSinceDisturbed
  BY DEF RetainInv, InPlace, RetainsKeepSinceDisturbed
<1> QED BY BasicInvariant, RetainInit, <1>1, <1>2, PTL DEF Spec
=============================================================================
