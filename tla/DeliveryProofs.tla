--------------------------- MODULE DeliveryProofs ---------------------------
(***************************************************************************)
(* What becomes of messages on their way.  FileLogger implements           *)
(* ReliableFifo, for every queue limit and any number of messages and      *)
(* restarts.  The messages of a packet are delivered as they were added to *)
(* it, for every size of the buffers and all messages.  And of what was    *)
(* delivered, mclog shows the messages that its filter passes, from the    *)
(* binary log file and from its own printed text.                          *)
(***************************************************************************)
EXTENDS FileLogger, Pipeline, WellFoundedInduction, TLAPS

-----------------------------------------------------------------------------
(* FileLogger                                                              *)

\* The numbers in the three places a message can be follow each other.
Numbered ==
  /\ accepted = Len(written) + Len(msgs) + Len(queue)
  /\ \A i \in 1..Len(written) : written[i] = i
  /\ \A i \in 1..Len(msgs) : msgs[i] = Len(written) + i
  /\ \A i \in 1..Len(queue) : queue[i] = Len(written) + Len(msgs) + i

\* The local list is empty except while it is written.
ListInLoop == wpc # "write" => msgs = <<>>

\* There is no thread between Stop and Start.
NoThread == mpc = "stopped" => wpc = "none"

IInv == TypeOK /\ Numbered /\ ListInLoop /\ NoThread

\* Facts about sequences of numbers that the steps below use.
LEMMA AppendFacts ==
  ASSUME NEW s \in Seq(Nat), NEW e \in Nat
  PROVE  /\ Append(s, e) \in Seq(Nat)
         /\ Len(Append(s, e)) = Len(s) + 1
         /\ Len(s) \in Nat
         /\ \A i \in 1..Len(s) : Append(s, e)[i] = s[i]
         /\ Append(s, e)[Len(s) + 1] = e
OBVIOUS

\* The same of Tail.
LEMMA TailFacts ==
  ASSUME NEW s \in Seq(Nat), s # <<>>
  PROVE  /\ Tail(s) \in Seq(Nat)
         /\ Len(s) \in Nat
         /\ Len(s) >= 1
         /\ Len(Tail(s)) = Len(s) - 1
         /\ Head(s) = s[1]
         /\ Head(s) \in Nat
         /\ \A i \in 1..Len(Tail(s)) : Tail(s)[i] = s[i + 1]
OBVIOUS

\* A message that is queued, by whoever, keeps the numbering.
LEMMA QueuedKeeps ==
  ASSUME IInv, Queued, UNCHANGED <<msgs, written>>
  PROVE  /\ queue' \in Seq(Nat) /\ Len(queue') <= MaxLength
         /\ accepted' \in Nat
         /\ Numbered'
<1> USE FileLoggerAssumption DEF IInv, TypeOK
<1>1. CASE Len(queue) < MaxLength
  <2>1. /\ queue' = Append(queue, accepted + 1)
        /\ accepted' = accepted + 1
    BY <1>1 DEF Queued
  <2>2. Len(written) \in Nat /\ Len(msgs) \in Nat
    OBVIOUS
  <2>3. Numbered'
    <3>1. accepted + 1 = Len(written) + Len(msgs) + Len(queue) + 1
      BY <2>2 DEF Numbered
    <3>2. /\ Len(queue') = Len(queue) + 1
          /\ \A i \in 1..Len(queue) : queue'[i] = queue[i]
          /\ queue'[Len(queue) + 1] = accepted + 1
          /\ Len(queue) \in Nat
      BY <2>1, AppendFacts
    <3>3. \A i \in 1..Len(queue') : queue'[i] = Len(written) + Len(msgs) + i
      <4> TAKE i \in 1..Len(queue')
      <4>1. CASE i = Len(queue) + 1
        BY <4>1, <3>1, <3>2, <2>2
      <4>2. CASE i # Len(queue) + 1
        <5>1. i \in 1..Len(queue)
          BY <4>2, <3>2
        <5> QED
          BY <5>1, <3>2 DEF Numbered
      <4> QED
        BY <4>1, <4>2
    <3> QED
      BY <2>1, <2>2, <3>1, <3>2, <3>3 DEF Numbered
  <2> QED
    BY <1>1, <2>1, <2>3, AppendFacts
<1>2. CASE ~(Len(queue) < MaxLength)
  BY <1>2 DEF Queued, Numbered
<1> QED
  BY <1>1, <1>2

\* PushBack wakes a sleeping thread and does nothing else to it.
LEMMA PushBackWakes ==
  ASSUME PushBack
  PROVE  Queued /\ (wpc' = wpc \/ (wpc = "asleep" /\ wpc' = "swap"))
<1>1. wpc' = wpc \/ wpc' = Woken
  BY DEF PushBack
<1>2. Woken = wpc \/ (wpc = "asleep" /\ Woken = "swap")
  BY DEF Woken
<1> QED
  BY <1>1, <1>2 DEF PushBack

\* The initial state satisfies the inductive invariant.
LEMMA InitIInv == Init => IInv
<1> SUFFICES ASSUME Init PROVE IInv
  OBVIOUS
<1>1. <<>> \in Seq(Nat) /\ Len(<<>>) = 0
  OBVIOUS
<1>2. run \in BOOLEAN
  BY DEF Init
<1>3. TypeOK
  BY FileLoggerAssumption, <1>1, <1>2 DEF Init, TypeOK
<1>4. Numbered
  BY <1>1 DEF Init, Numbered
<1> QED
  BY <1>3, <1>4 DEF Init, IInv, ListInLoop, NoThread

\* Every step preserves it.
LEMMA StepIInv == IInv /\ [Next]_vars => IInv'
<1> SUFFICES ASSUME IInv, [Next]_vars PROVE IInv'
  OBVIOUS
<1> USE FileLoggerAssumption
<1>1. CASE Process
  <2>1. /\ PushBack
        /\ UNCHANGED <<mpc, run, msgs, starts, written>>
    BY <1>1 DEF Process
  <2> QED
    BY <2>1, QueuedKeeps, PushBackWakes DEF IInv, TypeOK, ListInLoop, NoThread
<1>2. ASSUME NEW logs \in BOOLEAN, Start(logs) PROVE IInv'
  <2>1. run' \in BOOLEAN
    BY <1>2 DEF Start, IInv, TypeOK
  <2>2. wpc' \in {"begin", wpc}
    BY <1>2 DEF Start
  <2>3. /\ starts' \in 0..MaxStarts
        /\ mpc' = "running"
        /\ UNCHANGED <<queue, msgs, accepted, written>>
        /\ wpc = "none"
    BY <1>2 DEF Start, IInv, TypeOK, NoThread
  <2> QED
    BY <2>1, <2>2, <2>3 DEF IInv, TypeOK, Numbered, ListInLoop, NoThread
<1>3. CASE Stop
  BY <1>3 DEF Stop, IInv, TypeOK, Numbered, ListInLoop, NoThread
<1>4. CASE StopLog
  <2>1. /\ PushBack
        /\ UNCHANGED <<run, msgs, starts, written>>
        /\ mpc' = "signal"
    BY <1>4 DEF StopLog
  <2> QED
    BY <2>1, QueuedKeeps, PushBackWakes DEF IInv, TypeOK, ListInLoop, NoThread
<1>5. CASE StopSignal
  BY <1>5 DEF StopSignal, Woken, IInv, TypeOK, Numbered, ListInLoop, NoThread
<1>6. CASE StopJoin
  <2>1. CASE Queued
    BY <1>6, <2>1, QueuedKeeps DEF StopJoin, IInv, TypeOK, ListInLoop, NoThread
  <2>2. CASE UNCHANGED <<queue, accepted>>
    BY <1>6, <2>2 DEF StopJoin, IInv, TypeOK, Numbered, ListInLoop, NoThread
  <2> QED
    BY <1>6, <2>1, <2>2 DEF StopJoin
<1>7. CASE RunCheck
  <2>1. CASE Queued
    BY <1>7, <2>1, QueuedKeeps DEF RunCheck, IInv, TypeOK, ListInLoop, NoThread
  <2>2. CASE UNCHANGED <<queue, accepted>>
    BY <1>7, <2>2 DEF RunCheck, IInv, TypeOK, Numbered, ListInLoop, NoThread
  <2> QED
    BY <1>7, <2>1, <2>2 DEF RunCheck
<1>8. CASE ConditionWait
  BY <1>8 DEF ConditionWait, AfterWait, IInv, TypeOK, Numbered, ListInLoop, NoThread
<1>9. CASE Swap
  <2>1. /\ msgs = <<>>
        /\ msgs' = queue
        /\ queue' = <<>>
        /\ UNCHANGED <<accepted, written>>
    BY <1>9 DEF Swap, IInv, ListInLoop
  <2>2. Numbered'
    BY <2>1 DEF IInv, TypeOK, Numbered
  <2> QED
    BY <1>9, <2>1, <2>2 DEF Swap, IInv, TypeOK, ListInLoop, NoThread
<1>10. CASE LogFilesProcess
  <2>1. /\ msgs # <<>>
        /\ written' = Append(written, Head(msgs))
        /\ msgs' = Tail(msgs)
        /\ UNCHANGED <<queue, accepted>>
    BY <1>10 DEF LogFilesProcess
  <2>2. /\ written \in Seq(Nat) /\ msgs \in Seq(Nat) /\ queue \in Seq(Nat)
        /\ Len(queue) \in Nat
    BY DEF IInv, TypeOK
  <2>3. Head(msgs) = Len(written) + 1
    BY <2>1, <2>2, TailFacts DEF IInv, Numbered
  <2>4. Numbered'
    <3>1. /\ Len(written) \in Nat /\ Len(written') = Len(written) + 1
          /\ \A i \in 1..Len(written) : written'[i] = written[i]
          /\ written'[Len(written) + 1] = Len(written) + 1
      <4>1. Head(msgs) \in Nat
        BY <2>1, <2>2, TailFacts
      <4> QED BY <2>1, <2>2, <2>3, <4>1, AppendFacts
    <3>2. /\ Len(msgs) \in Nat /\ Len(msgs) >= 1 /\ Len(msgs') = Len(msgs) - 1
          /\ \A i \in 1..Len(msgs') : msgs'[i] = msgs[i + 1]
      BY <2>1, <2>2, TailFacts
    <3>3. accepted' = Len(written') + Len(msgs') + Len(queue')
      BY <2>1, <2>2, <3>1, <3>2 DEF IInv, Numbered
    <3>4. \A i \in 1..Len(written') : written'[i] = i
      <4>1. \A i \in 1..Len(written') : i \in 1..Len(written) \/ i = Len(written) + 1
        BY <3>1
      <4>2. \A i \in 1..Len(written) : written[i] = i
        BY DEF IInv, Numbered
      <4> QED BY <3>1, <4>1, <4>2
    <3>5. \A i \in 1..Len(msgs') : msgs'[i] = Len(written') + i
      <4> TAKE i \in 1..Len(msgs')
      <4>1. i + 1 \in 1..Len(msgs)
        BY <3>2
      <4>2. msgs[i + 1] = Len(written) + (i + 1)
        BY <4>1 DEF IInv, Numbered
      <4> QED BY <3>1, <3>2, <4>2
    <3>6. \A i \in 1..Len(queue') : queue'[i] = Len(written') + Len(msgs') + i
      <4>1. Len(written') + Len(msgs') = Len(written) + Len(msgs)
        BY <3>1, <3>2
      <4> QED BY <2>1, <4>1 DEF IInv, Numbered
    <3> QED BY <3>3, <3>4, <3>5, <3>6 DEF Numbered
  <2> QED
    BY <1>10, <2>1, <2>2, <2>4, TailFacts, AppendFacts
       DEF LogFilesProcess, IInv, TypeOK, ListInLoop, NoThread
<1>11. CASE RunLoop
  BY <1>11 DEF RunLoop, IInv, TypeOK, Numbered, ListInLoop, NoThread
<1>12. CASE SpuriousWakeup
  BY <1>12 DEF SpuriousWakeup, IInv, TypeOK, Numbered, ListInLoop, NoThread
<1>13. CASE RunBegin
  BY <1>13, QueuedKeeps DEF RunBegin, IInv, TypeOK, ListInLoop, NoThread
<1>14. CASE UNCHANGED vars
  BY <1>14 DEF vars, IInv, TypeOK, Numbered, ListInLoop, NoThread
<1> QED
  BY <1>1, <1>2, <1>3, <1>4, <1>5, <1>6, <1>7, <1>8, <1>9, <1>10, <1>11, <1>12, <1>13,
     <1>14 DEF Next, StopStep, RunStep

\* IInv is an invariant of the specification.
THEOREM Invariance == Spec => []IInv
BY InitIInv, StepIInv, PTL DEF Spec

\* Every variable keeps its type and the queue of FileLogger its limit.
THEOREM TypeCorrect == Spec => []TypeOK
<1>1. IInv => TypeOK
  BY DEF IInv
<1> QED
  BY Invariance, <1>1, PTL

\* After FileLogger::Stop has returned there is no thread that writes.
THEOREM StoppedForGood == Spec => []NoWriterWhenStopped
<1>1. IInv => NoWriterWhenStopped
  BY DEF IInv, ListInLoop, NoThread, NoWriterWhenStopped
<1> QED
  BY Invariance, <1>1, PTL

\* FileLogger implements ReliableFifo: nothing that Process accepted is lost,
\* doubled or reordered on its way to the log files, across restarts.
THEOREM Implements == Spec => InOrderNoLoss
<1>1. Init => Fifo!Init
  BY DEF Init, Fifo!Init
<1>2. IInv /\ [Next]_vars => [Fifo!Next]_<<accepted, written>>
  <2> SUFFICES ASSUME IInv, [Next]_vars PROVE [Fifo!Next]_<<accepted, written>>
    OBVIOUS
  <2>1. ASSUME Queued, UNCHANGED written PROVE [Fifo!Next]_<<accepted, written>>
    BY <2>1 DEF Queued, Fifo!Next, Fifo!Accept
  <2>2. CASE LogFilesProcess
    <3>1. /\ msgs # <<>>
          /\ written' = Append(written, Head(msgs))
          /\ UNCHANGED accepted
      BY <2>2 DEF LogFilesProcess
    <3>2. Head(msgs) = Len(written) + 1 /\ Len(written) < accepted
      BY <3>1, TailFacts DEF IInv, TypeOK, Numbered
    <3> QED
      BY <3>1, <3>2 DEF Fifo!Next, Fifo!Emit
  <2>3. CASE UNCHANGED <<accepted, written>>
    BY <2>3
  <2>4. \/ Queued /\ UNCHANGED written
        \/ LogFilesProcess
        \/ UNCHANGED <<accepted, written>>
    BY DEF Next, StopStep, RunStep, Process, Start, Stop, StopLog, StopSignal, StopJoin,
           PushBack, RunBegin, RunCheck, ConditionWait, Swap, RunLoop, SpuriousWakeup, vars
  <2> QED
    BY <2>1, <2>2, <2>3, <2>4
<1> QED
  BY <1>1, <1>2, Invariance, PTL DEF Spec, InOrderNoLoss, Fifo!Spec

-----------------------------------------------------------------------------
(* Numbers                                                                 *)

\* A set of numbers that is not empty has a least one.
LEMMA Least ==
  ASSUME NEW T, T \subseteq Nat, T # {}
  PROVE  \E x \in T : \A y \in T : x <= y
<1> DEFINE R == OpToRel(<, Nat)
<1>1. IsWellFoundedOn(R, Nat)
  BY NatLessThanWellFounded
<1>2. \A x, y \in Nat : <<y, x>> \in R <=> y < x
  BY DEF OpToRel
<1> HIDE DEF R
<1>3. PICK x \in T : \A y \in T : ~ (<<y, x>> \in R)
  BY <1>1, WFMin
<1>4. ASSUME NEW y \in T PROVE x <= y
  <2>1. ~ (<<y, x>> \in R) /\ (<<y, x>> \in R <=> y < x)
    BY <1>2, <1>3, Zenon
  <2>2. ~ (y < x) /\ x \in Nat /\ y \in Nat
    BY <2>1
  <2> QED BY <2>2
<1> QED BY <1>3, <1>4

\* Induction up to a number.
LEMMA UpTo ==
  ASSUME NEW n \in Nat, NEW T, 0 \in T, \A k \in 0..(n - 1) : k \in T => k + 1 \in T
  PROVE  \A k \in 0..n : k \in T
<1> DEFINE Wrong == {k \in 0..n : k \notin T}
<1> SUFFICES ASSUME Wrong # {} PROVE FALSE
  OBVIOUS
<1>1. PICK x \in Wrong : \A y \in Wrong : x <= y
  <2>1. Wrong \subseteq Nat
    OBVIOUS
  <2> QED BY <2>1, Least
<1>2. x \in 1..n /\ x \notin T
  OBVIOUS
<1>3. x - 1 \in 0..(n - 1) /\ (x - 1) + 1 = x /\ x - 1 \in 0..n /\ ~(x <= x - 1)
  BY <1>2
<1>4. x - 1 \in T
  BY <1>1, <1>3
<1> QED BY <1>2, <1>3, <1>4

\* The maximum of a set is the member that no other exceeds.
LEMMA MaxIs ==
  ASSUME NEW S, NEW x \in S, S \subseteq Nat, \A y \in S : y <= x
  PROVE  Max(S) = x
<1>1. x \in Nat /\ \A y \in S : y \in Nat
  OBVIOUS
<1>2. \E z \in S : \A y \in S : z >= y
  BY <1>1
<1>3. Max(S) \in S /\ \A y \in S : Max(S) >= y
  BY <1>2, Zenon DEF Max
<1>4. Max(S) \in Nat /\ Max(S) <= x /\ Max(S) >= x
  BY <1>1, <1>3
<1> QED BY <1>1, <1>4

-----------------------------------------------------------------------------
(* Sequences that are read one item at a time                              *)

\* ReadAll and ParseText: at each position an item is read and one goes on behind
\* it, or one stops.
IsScan(f, n, more, first, nx) ==
  f = [p \in 0..n |-> IF p \in more THEN <<first[p]>> \o f[nx[p]] ELSE <<>>]

\* What is read at a position ends behind it and in the stream.
Onward(n, more, nx) == n \in Nat /\ \A p \in 0..n : p \in more => nx[p] \in (p + 1)..n

\* Then the function that reads on from each position exists.
LEMMA ScanExists ==
  ASSUME NEW n, NEW more, NEW first, NEW nx, Onward(n, more, nx)
  PROVE  \E f : IsScan(f, n, more, first, nx)
<1> DEFINE From(k) == (n - k)..n
           Good(f, k) ==
             f = [p \in From(k) |-> IF p \in more THEN <<first[p]>> \o f[nx[p]] ELSE <<>>]
           T == {k \in 0..n : \E f : Good(f, k)}
<1>0. n \in Nat /\ \A p \in 0..n : p \in more => nx[p] \in (p + 1)..n
  BY DEF Onward
<1>1. 0 \in T
  <2> DEFINE e == [p \in From(0) |-> <<>>]
  <2>1. From(0) = {n}
    BY <1>0
  <2>2. n \notin more
    BY <1>0
  <2>3. \A p \in From(0) : p \notin more
    BY <2>1, <2>2
  <2>5. \A p \in From(0) : e[p] = <<>>
    OBVIOUS
  <2>6. e = [p \in From(0) |-> e[p]]
    OBVIOUS
  <2> HIDE DEF From, e
  <2>7. \A p \in From(0) : e[p] = IF p \in more THEN <<first[p]>> \o e[nx[p]] ELSE <<>>
    BY <2>3, <2>5
  <2>8. e = [p \in From(0) |-> IF p \in more THEN <<first[p]>> \o e[nx[p]] ELSE <<>>]
    BY <2>6, <2>7
  <2>4. Good(e, 0)
    BY <2>8, Zenon
  <2> HIDE DEF Good
  <2> QED BY <1>0, <2>4
<1>2. ASSUME NEW k \in 0..(n - 1), k \in T PROVE k + 1 \in T
  <2>1. PICK f : Good(f, k)
    BY <1>2
  <2> DEFINE q == n - (k + 1)
             g == [p \in From(k + 1) |->
                     IF p = q THEN (IF q \in more THEN <<first[q]>> \o f[nx[q]] ELSE <<>>)
                              ELSE f[p]]
  <2>2. q \in 0..n /\ q \notin From(k) /\ From(k + 1) = From(k) \cup {q}
    BY <1>0
  <2>3. \A p \in From(k + 1) : p \in more => nx[p] \in From(k)
    BY <1>0
  <2>4. \A p \in From(k) : g[p] = f[p] /\ p # q
    BY <2>2
  <2>5. \A p \in From(k) : f[p] = IF p \in more THEN <<first[p]>> \o f[nx[p]] ELSE <<>>
    BY <2>1
  <2> HIDE DEF From
  <2>6. \A p \in From(k + 1) : g[p] = IF p \in more THEN <<first[p]>> \o g[nx[p]] ELSE <<>>
    <3> SUFFICES ASSUME NEW p \in From(k + 1)
                 PROVE  g[p] = IF p \in more THEN <<first[p]>> \o g[nx[p]] ELSE <<>>
      OBVIOUS
    <3>1. p \in more => g[nx[p]] = f[nx[p]]
      BY <2>3, <2>4
    <3>2. CASE p = q
      BY <3>1, <3>2
    <3>3. CASE p # q
      <4>1. p \in From(k) /\ g[p] = f[p]
        BY <2>2, <2>4, <3>3
      <4> QED BY <2>5, <3>1, <4>1
    <3> QED BY <3>2, <3>3
  <2>7. g = [p \in From(k + 1) |-> g[p]]
    OBVIOUS
  <2> HIDE DEF g
  <2>8. Good(g, k + 1)
    BY <2>6, <2>7
  <2> QED BY <1>0, <2>8
<1> HIDE DEF T
<1>3. n \in T
  BY <1>0, <1>1, <1>2, UpTo
<1>4. PICK f : Good(f, n)
  BY <1>3 DEF T
<1>5. From(n) = 0..n
  BY <1>0
<1> QED BY <1>4, <1>5 DEF IsScan

\* Items follow each other, at these positions, up to where one stops.
Follow(n, more, first, nx, k, off, items) ==
  /\ \A j \in 0..k : off[j] \in 0..n
  /\ off[k] \notin more
  /\ \A j \in 1..k : /\ off[j - 1] \in more /\ nx[off[j - 1]] = off[j]
                     /\ first[off[j - 1]] = items[j]

\* Items that follow each other are read, in this order, up to where one stops.
LEMMA ScanIs ==
  ASSUME NEW f, NEW n, NEW more, NEW first, NEW nx, IsScan(f, n, more, first, nx),
         NEW k \in Nat, NEW off, NEW items, Follow(n, more, first, nx, k, off, items)
  PROVE  f[off[0]] = [j \in 1..k |-> items[j]]
<1> DEFINE Rest(j) == [i \in 1..j |-> items[k - j + i]]
           T == {j \in 0..k : f[off[k - j]] = Rest(j)}
<1>0. \A p \in 0..n : f[p] = IF p \in more THEN <<first[p]>> \o f[nx[p]] ELSE <<>>
  BY DEF IsScan
<1>a. /\ \A j \in 0..k : off[j] \in 0..n
      /\ off[k] \notin more
      /\ \A j \in 1..k : /\ off[j - 1] \in more /\ nx[off[j - 1]] = off[j]
                         /\ first[off[j - 1]] = items[j]
  BY Zenon DEF Follow
<1>1. 0 \in T
  <2>1. off[k] \in 0..n /\ k - 0 = k
    BY <1>a
  <2>2. f[off[k]] = <<>>
    BY <1>0, <1>a, <2>1
  <2>3. Rest(0) = <<>>
    OBVIOUS
  <2> QED BY <2>1, <2>2, <2>3
<1>2. ASSUME NEW j \in 0..(k - 1), j \in T PROVE j + 1 \in T
  <2> DEFINE i == k - j
  <2>1. i \in 1..k /\ i - 1 = k - (j + 1) /\ i - 1 \in 0..k
    OBVIOUS
  <2>2. /\ off[i - 1] \in 0..n /\ off[i - 1] \in more /\ nx[off[i - 1]] = off[i]
        /\ first[off[i - 1]] = items[i]
    BY <1>a, <2>1
  <2> HIDE DEF i
  <2>3. f[off[i - 1]] = <<items[i]>> \o f[off[i]]
    <3>1. f[off[i - 1]] = <<first[off[i - 1]]>> \o f[nx[off[i - 1]]]
      BY <1>0, <2>2
    <3> QED BY <2>2, <3>1
  <2>4. f[off[i]] = Rest(j)
    BY <1>2 DEF i
  <2>5. <<items[i]>> \o Rest(j) = Rest(j + 1)
    <3> DEFINE r == Rest(j)
    <3>1. r = [h \in 1..j |-> r[h]] /\ j \in Nat
      OBVIOUS
    <3>3. \A h \in 1..j : r[h] = items[i + h]
      BY DEF i
    <3> HIDE DEF r
    <3>2. r \in Seq({r[h] : h \in 1..j}) /\ Len(r) = j
      BY <3>1
    <3>4. <<items[i]>> \o r = [h \in 1..(j + 1) |-> IF h = 1 THEN items[i] ELSE r[h - 1]]
      BY <3>2
    <3>5. \A h \in 1..(j + 1) : (IF h = 1 THEN items[i] ELSE r[h - 1]) = items[k - (j + 1) + h]
      <4> SUFFICES ASSUME NEW h \in 1..(j + 1)
                   PROVE  (IF h = 1 THEN items[i] ELSE r[h - 1]) = items[k - (j + 1) + h]
        OBVIOUS
      <4>1. CASE h = 1
        BY <4>1 DEF i
      <4>2. CASE h # 1
        <5>1. h - 1 \in 1..j /\ i + (h - 1) = k - (j + 1) + h
          BY <4>2 DEF i
        <5> QED BY <3>3, <4>2, <5>1
      <4> QED BY <4>1, <4>2
    <3>6. Rest(j + 1) = [h \in 1..(j + 1) |-> items[k - (j + 1) + h]]
      OBVIOUS
    <3> HIDE DEF Rest
    <3>7. <<items[i]>> \o r = Rest(j + 1)
      BY <3>4, <3>5, <3>6
    <3> QED BY <3>7 DEF r
  <2>6. k - (j + 1) = i - 1 /\ j + 1 \in 0..k
    BY DEF i
  <2> HIDE DEF Rest
  <2> QED BY <2>3, <2>4, <2>5, <2>6
<1> HIDE DEF T
<1>3. \A j \in 0..k : j \in T
  BY <1>1, <1>2, UpTo
<1>4. f[off[k - k]] = Rest(k)
  BY <1>3 DEF T
<1>5. k - k = 0 /\ \A h \in 1..k : k - k + h = h
  OBVIOUS
<1> QED BY <1>4, <1>5

(* Messages in a stream                                                    *)

\* The elements of a stream after a position are those of a message.
Size(m) == 7 + Len(m.message)

Fields(s, p, m) ==
  /\ s[p + 1] = <<"timestamp", m.timestamp>>
  /\ s[p + 2] = <<"facility", m.facility>>
  /\ s[p + 3] = <<"severity", m.severity>>
  /\ s[p + 4] = <<"string", m.hostname>>
  /\ s[p + 5] = <<"string", m.appname>>
  /\ s[p + 6] = <<"procid", m.procid>>
  /\ s[p + 7] = <<"length", Len(m.message)>>
  /\ \A i \in 1..Len(m.message) : s[p + 7 + i] = <<"char", m.message[i]>>

\* A sequence is two sequences one after the other.
IsJoin(w, s, t) ==
  /\ Len(w) = Len(s) + Len(t)
  /\ \A i \in 1..Len(s) : w[i] = s[i]
  /\ \A i \in 1..Len(t) : w[Len(s) + i] = t[i]

\* This is what \o makes.
LEMMA Joined ==
  ASSUME NEW E, NEW s \in Seq(E), NEW t \in Seq(E)
  PROVE  s \o t \in Seq(E) /\ IsJoin(s \o t, s, t)
<1>1. s \o t \in Seq(E) /\ Len(s \o t) = Len(s) + Len(t)
  OBVIOUS
<1>2. \A i \in 1..Len(s) : (s \o t)[i] = s[i]
  OBVIOUS
<1>3. \A i \in 1..Len(t) : (s \o t)[Len(s) + i] = t[i]
  OBVIOUS
<1> QED BY <1>1, <1>2, <1>3 DEF IsJoin

\* What a message consists of.
LEMMA MessageHas ==
  ASSUME NEW m \in Message
  PROVE  /\ m.timestamp \in DOMAIN Zone /\ m.facility \in DOMAIN FacilityNames
         /\ m.facility \in 0..23 /\ m.severity \in 0..7
         /\ m.hostname \in Seq(STRING) /\ m.appname \in Seq(STRING) /\ m.procid \in Nat
         /\ Len(m.hostname) <= MaxName
         /\ m.message \in Seq(STRING) /\ Len(m.message) \in Nat /\ Len(m.message) <= MaxText
         /\ m = [timestamp |-> m.timestamp, facility |-> m.facility, severity |-> m.severity,
                 hostname |-> m.hostname, appname |-> m.appname, procid |-> m.procid,
                 message |-> m.message]
<1>1. DOMAIN FacilityNames \subseteq 0..23
  BY DEF FacilityNames
<1>2. m.message \in MessageText /\ m.severity \in emerg..debug
  BY DEF Message
<1>3. m.severity \in 0..7
  BY <1>2 DEF emerg, debug
<1>4. m.message \in Seq(STRING) /\ Len(m.message) \in Nat /\ Len(m.message) <= MaxText
  BY <1>2 DEF MessageText
<1>5. /\ m.timestamp \in DOMAIN Zone /\ m.facility \in DOMAIN FacilityNames
      /\ m.hostname \in Name /\ m.appname \in Name /\ m.procid \in Nat
      /\ m = [timestamp |-> m.timestamp, facility |-> m.facility, severity |-> m.severity,
              hostname |-> m.hostname, appname |-> m.appname, procid |-> m.procid,
              message |-> m.message]
  BY DEF Message
<1>6. m.hostname \in Seq(STRING) /\ m.appname \in Seq(STRING) /\ Len(m.hostname) <= MaxName
  BY <1>5 DEF Name
<1> QED BY <1>1, <1>3, <1>4, <1>5, <1>6

\* Write gives the fields of the header, the length of the text and its characters.
LEMMA WriteIs ==
  ASSUME NEW m \in Message
  PROVE  /\ Size(m) \in Nat /\ Size(m) >= 7 /\ Len(m.message) \in Nat
         /\ Write(m) = [i \in 1..Size(m) |-> Write(m)[i]]
         /\ Len(Write(m)) = Size(m)
         /\ Fields(Write(m), 0, m)
<1> DEFINE h == WriteHeader(m)
           l == <<<<"length", Len(m.message)>>>>
           c == Chars(m.message)
           n == Len(m.message)
<1>0. n \in Nat /\ m.message \in Seq(STRING) /\ DOMAIN m.message = 1..n
  BY MessageHas
<1>1. /\ Len(h) = 6 /\ h[1] = <<"timestamp", m.timestamp>> /\ h[2] = <<"facility", m.facility>>
      /\ h[3] = <<"severity", m.severity>> /\ h[4] = <<"string", m.hostname>>
      /\ h[5] = <<"string", m.appname>> /\ h[6] = <<"procid", m.procid>>
  BY DEF WriteHeader, WriteOrigin, WriteTimestamp
<1>2. h = [i \in 1..6 |-> h[i]]
  BY DEF WriteHeader, WriteOrigin, WriteTimestamp
<1>3. c = [i \in 1..n |-> <<"char", m.message[i]>>]
  BY <1>0 DEF Chars
<1> DEFINE E == {h[i] : i \in 1..6} \cup {l[1]} \cup {c[i] : i \in 1..n}
<1>4. l = [i \in 1..1 |-> <<"length", n>>] /\ l[1] = <<"length", n>>
  OBVIOUS
<1>5. \A i \in 1..n : c[i] = <<"char", m.message[i]>>
  BY <1>3
<1>6. c = [i \in 1..n |-> c[i]]
  BY <1>3
<1>7. Write(m) = h \o l \o c
  BY DEF Write
<1>a. (\A i \in 1..6 : h[i] \in E) /\ l[1] \in E /\ (\A i \in 1..n : c[i] \in E)
  OBVIOUS
<1> HIDE DEF h, l, c, n, E
<1>8. h \in Seq(E)
  BY <1>a, <1>2
<1>b. l \in Seq(E) /\ Len(l) = 1
  <2>1. l = [i \in 1..1 |-> l[i]] /\ \A i \in 1..1 : l[i] \in E
    BY <1>a, <1>4
  <2> QED BY <2>1
<1>c. c \in Seq(E) /\ Len(c) = n
  <2>1. c \in [1..n -> E]
    BY <1>a, <1>6
  <2>2. c \in Seq(E)
    BY <1>0, <2>1
  <2>3. n \in Nat /\ DOMAIN c = 1..n
    BY <1>0, <2>1
  <2> QED BY <2>2, <2>3
<1>d. Len(h) = 6
  BY <1>1
<1> DEFINE g == h \o l
           w == g \o c
<1>g. g = h \o l
  OBVIOUS
<1>w. w = g \o c
  OBVIOUS
<1>f. Write(m) = w
  BY <1>7
<1> HIDE DEF g, w
<1>i. g \in Seq(E) /\ IsJoin(g, h, l)
  BY <1>8, <1>b, <1>g, Joined
<1>10. g \in Seq(E) /\ Len(g) = 7 /\ g[7] = l[1] /\ \A i \in 1..6 : g[i] = h[i]
  <2>2. g[6 + 1] = l[1]
    BY <1>b, <1>d, <1>i DEF IsJoin
  <2> QED BY <1>b, <1>d, <1>i, <2>2 DEF IsJoin
<1>j. w \in Seq(E) /\ IsJoin(w, g, c)
  BY <1>c, <1>10, <1>w, Joined
<1>11. w \in Seq(E) /\ Len(w) = 7 + n
  BY <1>c, <1>10, <1>j DEF IsJoin
<1>e. (\A i \in 1..7 : w[i] = g[i]) /\ \A i \in 1..n : w[7 + i] = c[i]
  BY <1>c, <1>10, <1>j DEF IsJoin
<1>12. w = [i \in 1..(7 + n) |-> w[i]]
  BY <1>11
<1>13. /\ w[0 + 1] = h[1] /\ w[0 + 2] = h[2] /\ w[0 + 3] = h[3] /\ w[0 + 4] = h[4]
       /\ w[0 + 5] = h[5] /\ w[0 + 6] = h[6] /\ w[0 + 7] = l[1]
       /\ \A i \in 1..n : w[0 + 7 + i] = c[i]
  BY <1>10, <1>e
<1>14. Fields(w, 0, m)
  BY <1>1, <1>4, <1>5, <1>13 DEF Fields, n
<1>15. Size(m) = 7 + n
  BY DEF Size, n
<1> QED BY <1>0, <1>11, <1>12, <1>f, <1>14, <1>15 DEF n

\* A stream has some messages one after the other in its first n elements.
Offsets(s, n, ms, off) ==
  /\ off[0] = 0 /\ off[Len(ms)] = n
  /\ \A k \in 0..Len(ms) : off[k] \in 0..n
  /\ \A k \in 1..Len(ms) : off[k] = off[k - 1] + Size(ms[k]) /\ Fields(s, off[k - 1], ms[k])

\* There are offsets that show it.
Packed(s, n, ms) == n \in Nat /\ \E off : Offsets(s, n, ms, off)

\* A packet of no length has no messages.
LEMMA PackedNone == ASSUME NEW s PROVE Packed(s, 0, <<>>)
<1> DEFINE off == [k \in 0..0 |-> 0]
<1>1. Len(<<>>) = 0 /\ 1..0 = {} /\ off[0] = 0 /\ \A k \in 0..0 : off[k] \in 0..0
  OBVIOUS
<1> HIDE DEF off
<1>2. Offsets(s, 0, <<>>, off)
  BY <1>1 DEF Offsets
<1> QED BY <1>2 DEF Packed

\* Elements that agree are the same message.
Agree(t, q, s, p, n) == \A i \in 1..n : t[q + i] = s[p + i]

\* A stream that agrees with the form of a message at another place has the message
\* there.
LEMMA SameFields ==
  ASSUME NEW s, NEW t, NEW p \in Nat, NEW q \in Nat, NEW m \in Message, Fields(s, p, m),
         Agree(t, q, s, p, Size(m))
  PROVE  Fields(t, q, m)
<1>1. Len(m.message) \in Nat /\ Size(m) = 7 + Len(m.message)
  BY MessageHas DEF Size
<1>2. \A i \in {1, 2, 3, 4, 5, 6, 7} : i \in 1..Size(m)
  BY <1>1
<1>3. \A i \in 1..Len(m.message) : /\ 7 + i \in 1..Size(m)
                                   /\ q + (7 + i) = q + 7 + i /\ p + (7 + i) = p + 7 + i
  BY <1>1
<1>4. \A i \in 1..Len(m.message) : t[q + 7 + i] = s[p + 7 + i]
  BY <1>3 DEF Agree
<1>5. \A i \in {1, 2, 3, 4, 5, 6, 7} : t[q + i] = s[p + i]
  BY <1>2 DEF Agree
<1> QED BY <1>4, <1>5 DEF Fields

\* Whether a stream has messages is a matter of its first n elements.
LEMMA PackedSame ==
  ASSUME NEW s, NEW t, NEW n, NEW ms \in Seq(Message), Packed(s, n, ms),
         \A i \in 1..n : t[i] = s[i]
  PROVE  Packed(t, n, ms)
<1>1. PICK off : Offsets(s, n, ms, off)
  BY DEF Packed
<1>2. n \in Nat /\ Len(ms) \in Nat /\ \A k \in 1..Len(ms) : ms[k] \in Message
  BY DEF Packed
<1>3. ASSUME NEW k \in 1..Len(ms) PROVE Fields(t, off[k - 1], ms[k])
  <2>1. /\ off[k] = off[k - 1] + Size(ms[k]) /\ Fields(s, off[k - 1], ms[k])
        /\ off[k] \in 0..n /\ off[k - 1] \in 0..n
    BY <1>1, <1>2 DEF Offsets
  <2>2. Size(ms[k]) \in Nat
    BY <1>2, WriteIs
  <2>3. \A i \in 1..Size(ms[k]) : off[k - 1] + i \in 1..n
    <3> DEFINE a == off[k - 1]
               b == Size(ms[k])
    <3>1. a \in Nat /\ b \in Nat /\ a + b <= n
      BY <1>2, <2>1, <2>2
    <3> HIDE DEF a, b
    <3>2. \A i \in 1..b : a + i \in 1..n
      BY <1>2, <3>1
    <3> QED BY <3>2, Zenon DEF a, b
  <2>4. Agree(t, off[k - 1], s, off[k - 1], Size(ms[k]))
    BY <2>3 DEF Agree
  <2>5. off[k - 1] \in Nat /\ ms[k] \in Message
    BY <1>2, <2>1
  <2> QED BY <2>1, <2>4, <2>5, SameFields
<1> QED BY <1>1, <1>2, <1>3 DEF Packed, Offsets

\* A message may be written behind those that are there.
LEMMA PackedMore ==
  ASSUME NEW s, NEW t, NEW n, NEW ms \in Seq(Message), NEW m \in Message, Packed(s, n, ms),
         \A i \in 1..n : t[i] = s[i], Fields(t, n, m)
  PROVE  Packed(t, n + Size(m), Append(ms, m))
<1> DEFINE l == Len(ms)
           more == Append(ms, m)
<1>1. Packed(t, n, ms)
  BY PackedSame
<1>2. PICK off : Offsets(t, n, ms, off)
  BY <1>1 DEF Packed
<1>3. /\ n \in Nat /\ l \in Nat /\ Len(more) = l + 1 /\ more[l + 1] = m
      /\ \A k \in 1..l : more[k] = ms[k]
  BY DEF Packed
<1>4. Size(m) \in Nat
  BY WriteIs
<1> DEFINE N == n + Size(m)
           o == [k \in 0..(l + 1) |-> IF k = l + 1 THEN N ELSE off[k]]
<1>5. /\ off[0] = 0 /\ off[l] = n /\ \A k \in 0..l : off[k] \in 0..n
  BY <1>2 DEF Offsets
<1>6. \A k \in 1..l : off[k] = off[k - 1] + Size(ms[k]) /\ Fields(t, off[k - 1], ms[k])
  BY <1>2 DEF Offsets
<1>7. o[l + 1] = N /\ \A k \in 0..l : o[k] = off[k]
  BY <1>3
<1> HIDE DEF o, more, l
<1>8. o[0] = 0 /\ o[l + 1] = N /\ N \in Nat /\ o[l] = n
  BY <1>3, <1>4, <1>5, <1>7
<1>9. \A k \in 0..(l + 1) : o[k] \in 0..N
  <2> SUFFICES ASSUME NEW k \in 0..(l + 1) PROVE o[k] \in 0..N
    OBVIOUS
  <2>1. CASE k = l + 1
    BY <1>8, <2>1
  <2>2. CASE k # l + 1
    <3>1. k \in 0..l
      BY <1>3, <2>2
    <3>2. o[k] \in 0..n
      BY <1>5, <1>7, <3>1
    <3> QED BY <1>3, <1>4, <3>2
  <2> QED BY <2>1, <2>2
<1>10. ASSUME NEW k \in 1..(l + 1)
       PROVE  o[k] = o[k - 1] + Size(more[k]) /\ Fields(t, o[k - 1], more[k])
  <2>1. CASE k = l + 1
    <3>1. k - 1 = l
      BY <1>3, <2>1
    <3> QED BY <1>3, <1>8, <2>1, <3>1
  <2>2. CASE k # l + 1
    <3>1. k \in 1..l /\ k - 1 \in 0..l /\ k \in 0..l
      BY <1>3, <2>2
    <3> QED BY <1>3, <1>6, <1>7, <3>1
  <2> QED BY <2>1, <2>2
<1>11. Offsets(t, N, more, o)
  BY <1>3, <1>8, <1>9, <1>10 DEF Offsets
<1> QED BY <1>8, <1>11 DEF Packed, more

\* Where the elements are those of a message, it is read, unless its origin is not
\* valid.
LEMMA ReadsMessage ==
  ASSUME NEW s, Len(s) \in Nat, NEW p \in Nat, NEW m \in Message, Fields(s, p, m),
         p + Size(m) <= Len(s)
  PROVE  /\ Reads(s, p) <=> HasValidOrigin(m)
         /\ Read(s, p) = m
         /\ p + 7 + s[p + 7][2] = p + Size(m)
<1>1. /\ Len(m.message) \in Nat /\ Size(m) = 7 + Len(m.message)
      /\ m.facility \in 0..23 /\ m.severity \in 0..7
  BY MessageHas DEF Size
<1>2. /\ s[p + 1] = <<"timestamp", m.timestamp>> /\ s[p + 2] = <<"facility", m.facility>>
      /\ s[p + 3] = <<"severity", m.severity>> /\ s[p + 4] = <<"string", m.hostname>>
      /\ s[p + 5] = <<"string", m.appname>> /\ s[p + 6] = <<"procid", m.procid>>
      /\ s[p + 7] = <<"length", Len(m.message)>>
  BY DEF Fields
<1>3. \A i \in 1..Len(m.message) : s[p + 7 + i] = <<"char", m.message[i]>>
  BY DEF Fields
<1>4. /\ s[p + 1][1] = "timestamp" /\ s[p + 1][2] = m.timestamp
      /\ s[p + 2][1] = "facility" /\ s[p + 2][2] = m.facility
      /\ s[p + 3][1] = "severity" /\ s[p + 3][2] = m.severity
      /\ s[p + 4][1] = "string" /\ s[p + 4][2] = m.hostname
  BY <1>2
<1>5. /\ s[p + 5][1] = "string" /\ s[p + 5][2] = m.appname
      /\ s[p + 6][1] = "procid" /\ s[p + 6][2] = m.procid
      /\ s[p + 7][1] = "length" /\ s[p + 7][2] = Len(m.message)
  BY <1>2
<1>6. /\ p + 3 + 1 = p + 4 /\ p + 3 + 2 = p + 5 /\ p + 3 + 3 = p + 6
      /\ p + 3 <= Len(s) /\ p + 3 + 3 <= Len(s) /\ p + 7 <= Len(s)
  BY <1>1
<1>7. ReadsOrigin(s, p + 3) <=> HasValidOrigin(m)
  BY <1>4, <1>5, <1>6 DEF ReadsOrigin, HasValidOrigin
<1>8. m.facility <= local7 /\ m.severity <= debug
  <2> DEFINE f == m.facility
             v == m.severity
  <2>1. f \in 0..23 /\ v \in 0..7
    BY <1>1
  <2> HIDE DEF f, v
  <2>2. f <= local7 /\ v <= debug
    BY <2>1 DEF local7, debug
  <2> QED BY <2>2 DEF f, v
<1>9. ReadsHeader(s, p) <=> HasValidOrigin(m)
  BY <1>4, <1>6, <1>7, <1>8 DEF ReadsHeader
<1>10. p + 7 + s[p + 7][2] = p + Size(m)
  <2> DEFINE v == s[p + 7][2]
             l == Len(m.message)
  <2>1. v = l /\ l \in Nat /\ Size(m) = 7 + l
    BY <1>1, <1>5
  <2> HIDE DEF v, l
  <2>2. p + 7 + v = p + Size(m)
    BY <2>1
  <2> QED BY <2>2 DEF v
<1>11. Reads(s, p) <=> HasValidOrigin(m)
  BY <1>5, <1>6, <1>9, <1>10 DEF Reads
<1>12. [i \in 1..Len(m.message) |-> s[p + 7 + i][2]] = m.message
  <2>0. m.message \in Seq(STRING)
    BY MessageHas
  <2>1. m.message = [i \in 1..Len(m.message) |-> m.message[i]]
    BY <2>0
  <2>2. \A i \in 1..Len(m.message) : s[p + 7 + i][2] = m.message[i]
    BY <1>3
  <2> QED BY <2>1, <2>2
<1>13. m = [timestamp |-> m.timestamp, facility |-> m.facility, severity |-> m.severity,
            hostname |-> m.hostname, appname |-> m.appname, procid |-> m.procid,
            message |-> m.message]
  BY MessageHas
<1>14. Read(s, p) = m
  BY <1>4, <1>5, <1>12, <1>13, Zenon DEF Read
<1> QED BY <1>10, <1>11, <1>14

\* What stands for the length of a text is a number.
LengthsAre(s, n) == \A i \in 1..n : s[i][1] = "length" => s[i][2] \in Nat

\* In a stream of messages it does.
LEMMA PackedLengths ==
  ASSUME NEW s, NEW n, NEW ms \in Seq(Message), Packed(s, n, ms)
  PROVE  LengthsAre(s, n)
<1>1. PICK off : Offsets(s, n, ms, off)
  BY DEF Packed
<1> DEFINE l == Len(ms)
           T == {k \in 0..l : LengthsAre(s, off[k])}
<1>2. n \in Nat /\ l \in Nat /\ \A k \in 1..l : ms[k] \in Message
  BY DEF Packed
<1>3. /\ off[0] = 0 /\ off[l] = n /\ \A k \in 0..l : off[k] \in 0..n
  BY <1>1 DEF Offsets
<1>4. \A k \in 1..l : off[k] = off[k - 1] + Size(ms[k]) /\ Fields(s, off[k - 1], ms[k])
  BY <1>1 DEF Offsets
<1> HIDE DEF l
<1>5. 0 \in T
  BY <1>2, <1>3 DEF LengthsAre
<1>6. ASSUME NEW k \in 0..(l - 1), k \in T PROVE k + 1 \in T
  <2> DEFINE m == ms[k + 1]
             a == off[k]
             b == Len(m.message)
  <2>1. k + 1 \in 1..l /\ k + 1 \in 0..l /\ k \in 0..l /\ (k + 1) - 1 = k
    BY <1>2
  <2>2. off[k + 1] = a + Size(m) /\ Fields(s, a, m) /\ m \in Message /\ a \in Nat
    BY <1>2, <1>3, <1>4, <2>1
  <2>3. b \in Nat /\ Size(m) = 7 + b
    BY <2>2, MessageHas DEF Size
  <2>4. /\ s[a + 1][1] = "timestamp" /\ s[a + 2][1] = "facility" /\ s[a + 3][1] = "severity"
        /\ s[a + 4][1] = "string" /\ s[a + 5][1] = "string" /\ s[a + 6][1] = "procid"
        /\ s[a + 7][2] = b /\ \A i \in 1..b : s[a + 7 + i][1] = "char"
    <3> HIDE DEF a, b, m
    <3>1. /\ s[a + 1] = <<"timestamp", m.timestamp>> /\ s[a + 2] = <<"facility", m.facility>>
          /\ s[a + 3] = <<"severity", m.severity>> /\ s[a + 4] = <<"string", m.hostname>>
          /\ s[a + 5] = <<"string", m.appname>> /\ s[a + 6] = <<"procid", m.procid>>
      BY <2>2 DEF Fields
    <3>2. s[a + 7] = <<"length", b>>
      BY <2>2 DEF Fields, b
    <3>3. \A i \in 1..b : s[a + 7 + i] = <<"char", m.message[i]>>
      BY <2>2 DEF Fields, b
    <3> QED BY <3>1, <3>2, <3>3
  <2>5. LengthsAre(s, a)
    BY <1>6
  <2> HIDE DEF a, b, m
  <2>6. ASSUME NEW i \in 1..(a + 7 + b), s[i][1] = "length" PROVE s[i][2] \in Nat
    <3>1. CASE i <= a
      BY <2>2, <2>5, <2>6, <3>1 DEF LengthsAre
    <3>2. CASE i \in {a + 1, a + 2, a + 3, a + 4, a + 5, a + 6}
      BY <2>4, <2>6, <3>2
    <3>3. CASE i = a + 7
      BY <2>3, <2>4, <3>3
    <3>4. CASE i > a + 7
      <4>1. i - (a + 7) \in 1..b /\ a + 7 + (i - (a + 7)) = i
        BY <2>2, <2>3, <3>4
      <4>2. s[i][1] = "char"
        BY <2>4, <4>1
      <4> QED BY <2>6, <4>2
    <3>5. i <= a \/ i \in {a + 1, a + 2, a + 3, a + 4, a + 5, a + 6} \/ i = a + 7 \/ i > a + 7
      <4>1. i \in Int /\ a \in Int
        BY <2>2, <2>3
      <4> QED BY <4>1
    <3> QED BY <3>1, <3>2, <3>3, <3>4, <3>5, Zenon
  <2>7. off[k + 1] = a + 7 + b
    BY <2>2, <2>3
  <2>8. LengthsAre(s, off[k + 1])
    BY <2>6, <2>7 DEF LengthsAre
  <2> QED BY <2>1, <2>8
<1> HIDE DEF T
<1>7. \A k \in 0..l : k \in T
  BY <1>2, <1>5, <1>6, UpTo
<1>8. l \in T
  BY <1>2, <1>7
<1> QED BY <1>3, <1>8 DEF T

\* The longest beginning whose members are all in a set.
LEMMA PrefixIs ==
  ASSUME NEW E, NEW s \in Seq(E), NEW good
  PROVE  \E k \in 0..Len(s) :
           /\ Prefix(s, good) = [i \in 1..k |-> s[i]]
           /\ \A i \in 1..k : s[i] \in good
           /\ k < Len(s) => s[k + 1] \notin good
<1> DEFINE l == Len(s)
           B == {i \in 1..l : s[i] \notin good}
           S == {n \in 0..l : \A i \in 1..n : s[i] \in good}
<1>0. l \in Nat
  OBVIOUS
<1>1. \E k \in 0..l : (\A i \in 1..k : s[i] \in good) /\ (k < l => s[k + 1] \notin good)
  <2>1. CASE B = {}
    <3>1. \A i \in 1..l : s[i] \in good
      BY <2>1
    <3> QED BY <1>0, <3>1
  <2>2. CASE B # {}
    <3>1. B \subseteq Nat
      OBVIOUS
    <3>2. PICK x \in B : \A y \in B : x <= y
      BY <2>2, <3>1, Least
    <3>3. x \in 1..l /\ s[x] \notin good
      OBVIOUS
    <3>4. x - 1 \in 0..l /\ (x - 1) + 1 = x
      BY <3>3
    <3>5. \A i \in 1..(x - 1) : s[i] \in good
      <4>1. \A i \in 1..(x - 1) : i \in 1..l /\ ~(x <= i)
        BY <3>3
      <4> QED BY <3>2, <4>1
    <3> QED BY <3>3, <3>4, <3>5
  <2> QED BY <2>1, <2>2
<1>2. PICK k \in 0..l : (\A i \in 1..k : s[i] \in good) /\ (k < l => s[k + 1] \notin good)
  BY <1>1
<1>3. k \in S /\ S \subseteq Nat
  BY <1>0, <1>2
<1>4. \A y \in S : y <= k
  <2> SUFFICES ASSUME NEW y \in S, ~ (y <= k) PROVE FALSE
    OBVIOUS
  <2>1. k < l /\ k + 1 \in 1..y
    OBVIOUS
  <2> QED BY <1>2, <2>1
<1>5. Max(S) = k
  <2> HIDE DEF S
  <2> QED BY <1>3, <1>4, MaxIs
<1>6. Prefix(s, good) = SubSeq(s, 1, k)
  BY <1>5 DEF Prefix
<1>7. SubSeq(s, 1, k) = [i \in 1..k |-> s[i]]
  BY <1>0
<1> QED BY <1>2, <1>6, <1>7

\* ReadAll reads item by item.
LEMMA ReadAllIs ==
  ASSUME NEW s, Len(s) \in Nat, LengthsAre(s, Len(s))
  PROVE  \E f : /\ IsScan(f, Len(s), {p \in 0..Len(s) : Reads(s, p)},
                          [p \in 0..Len(s) |-> Read(s, p)],
                          [p \in 0..Len(s) |-> p + 7 + s[p + 7][2]])
                /\ ReadAll(s) = f[0]
<1> DEFINE n == Len(s)
           more == {p \in 0..n : Reads(s, p)}
           first == [p \in 0..n |-> Read(s, p)]
           nx == [p \in 0..n |-> p + 7 + s[p + 7][2]]
           Is(f) == f = [p \in 0..Len(s) |->
                           IF Reads(s, p) THEN <<Read(s, p)>> \o f[p + 7 + s[p + 7][2]] ELSE <<>>]
<1>1. Onward(n, more, nx)
  <2> SUFFICES ASSUME NEW p \in 0..n, p \in more PROVE nx[p] \in (p + 1)..n
    BY DEF Onward
  <2>1. p + 7 <= n /\ s[p + 7][1] = "length" /\ p + 7 + s[p + 7][2] <= n
    BY DEF Reads
  <2>2. s[p + 7][2] \in Nat
    BY <2>1 DEF LengthsAre
  <2>3. nx[p] = p + 7 + s[p + 7][2]
    OBVIOUS
  <2> HIDE DEF nx
  <2> QED BY <2>1, <2>2, <2>3
<1>2. ASSUME NEW f PROVE Is(f) <=> IsScan(f, n, more, first, nx)
  <2> DEFINE A == [p \in 0..n |->
                     IF Reads(s, p) THEN <<Read(s, p)>> \o f[p + 7 + s[p + 7][2]] ELSE <<>>]
             C == [p \in 0..n |-> IF p \in more THEN <<first[p]>> \o f[nx[p]] ELSE <<>>]
  <2>1. \A p \in 0..n : (p \in more <=> Reads(s, p)) /\ first[p] = Read(s, p)
                        /\ nx[p] = p + 7 + s[p + 7][2]
    OBVIOUS
  <2> HIDE DEF more, first, nx
  <2>2. A = C
    BY <2>1
  <2>3. Is(f) <=> f = A
    OBVIOUS
  <2>4. IsScan(f, n, more, first, nx) <=> f = C
    BY DEF IsScan
  <2> HIDE DEF A, C, Is
  <2> QED BY <2>2, <2>3, <2>4
<1>3. ReadAll(s) = (CHOOSE f : Is(f))[0]
  BY Zenon DEF ReadAll
<1> HIDE DEF Is, more, first, nx
<1>4. \E f : Is(f)
  <2>1. PICK f : IsScan(f, n, more, first, nx)
    BY <1>1, ScanExists
  <2> QED BY <1>2, <2>1
<1>5. Is(CHOOSE f : Is(f))
  BY <1>4, Zenon
<1>6. PICK f : Is(f) /\ ReadAll(s) = f[0]
  BY <1>3, <1>5, Zenon
<1>7. IsScan(f, n, more, first, nx) /\ ReadAll(s) = f[0]
  BY <1>2, <1>6
<1> QED BY <1>7, Zenon DEF more, first, nx

\* The messages that a stream has one after the other are read, in this order, up
\* to the first one with an invalid origin.
LEMMA MessagesRead ==
  ASSUME NEW s, Len(s) \in Nat, NEW ms \in Seq(Message), Packed(s, Len(s), ms),
         NEW good,
         \A m \in Message : (\E i \in 1..Len(ms) : ms[i] = m)
                           => (m \in good <=> HasValidOrigin(m))
  PROVE  ReadAll(s) = Prefix(ms, good)
<1> DEFINE n == Len(s)
           l == Len(ms)
           more == {p \in 0..n : Reads(s, p)}
           first == [p \in 0..n |-> Read(s, p)]
           nx == [p \in 0..n |-> p + 7 + s[p + 7][2]]
<1>1. PICK f : IsScan(f, n, more, first, nx) /\ ReadAll(s) = f[0]
  BY PackedLengths, ReadAllIs
<1>2. PICK off : Offsets(s, n, ms, off)
  BY DEF Packed
<1>3. PICK k \in 0..l : /\ Prefix(ms, good) = [i \in 1..k |-> ms[i]]
                        /\ \A i \in 1..k : ms[i] \in good
                        /\ k < l => ms[k + 1] \notin good
  BY PrefixIs
<1>4. n \in Nat /\ l \in Nat /\ k \in Nat
  OBVIOUS
<1>5. off[0] = 0 /\ off[l] = n /\ \A j \in 0..l : off[j] \in 0..n
  BY <1>2 DEF Offsets
<1>6. ASSUME NEW j \in 0..(l - 1)
      PROVE  /\ off[j] \in more <=> ms[j + 1] \in good
             /\ first[off[j]] = ms[j + 1] /\ nx[off[j]] = off[j + 1]
  <2> DEFINE p == off[j]
             m == ms[j + 1]
  <2>1. j + 1 \in 1..l /\ j + 1 \in 0..l /\ j \in 0..l /\ (j + 1) - 1 = j
    BY <1>4
  <2>2. off[j + 1] = p + Size(m) /\ Fields(s, p, m)
    BY <1>2, <2>1 DEF Offsets
  <2>3. m \in Message /\ p \in 0..n /\ p \in Nat /\ off[j + 1] <= n
    BY <1>4, <1>5, <2>1
  <2>4. m \in good <=> HasValidOrigin(m)
    BY <2>1, <2>3
  <2>5. /\ p \in more <=> Reads(s, p)
        /\ first[p] = Read(s, p) /\ nx[p] = p + 7 + s[p + 7][2]
    BY <2>3
  <2> HIDE DEF p, m, more, first, nx
  <2>6. Reads(s, p) <=> HasValidOrigin(m)
    BY <2>2, <2>3, ReadsMessage
  <2>7. Read(s, p) = m /\ p + 7 + s[p + 7][2] = p + Size(m)
    BY <2>2, <2>3, ReadsMessage
  <2>8. (p \in more <=> m \in good) /\ first[p] = m /\ nx[p] = off[j + 1]
    BY <2>2, <2>4, <2>5, <2>6, <2>7
  <2> QED BY <2>8 DEF p, m
<1>7. off[k] \notin more
  <2>1. CASE k < l
    <3>1. k \in 0..(l - 1)
      BY <1>4, <2>1
    <3> QED BY <1>3, <1>6, <2>1, <3>1
  <2>2. CASE k = l
    <3>1. ~ Reads(s, n)
      BY <1>4 DEF Reads
    <3> QED BY <1>5, <2>2, <3>1
  <2> QED BY <1>4, <2>1, <2>2
<1> HIDE DEF more, first, nx
<1>8. ASSUME NEW j \in 1..k
      PROVE off[j - 1] \in more /\ nx[off[j - 1]] = off[j] /\ first[off[j - 1]] = ms[j]
  <2>1. j - 1 \in 0..(l - 1) /\ (j - 1) + 1 = j
    BY <1>4
  <2>2. ms[j] \in good
    BY <1>3
  <2> QED BY <1>6, <2>1, <2>2
<1>9. \A j \in 0..k : off[j] \in 0..n
  BY <1>4, <1>5
<1> HIDE DEF n, l
<1>10. Follow(n, more, first, nx, k, off, ms)
  BY <1>7, <1>8, <1>9 DEF Follow
<1>11. f[off[0]] = [j \in 1..k |-> ms[j]]
  BY <1>1, <1>4, <1>10, ScanIs
<1> QED BY <1>1, <1>3, <1>5, <1>11

-----------------------------------------------------------------------------
(* Packets                                                                 *)

\* What can be logged is a Message.
LEMMA Commanded == \A c \in Commands : MakeMessage(c) \in Message
<1>2. ASSUME NEW name PROVE FacilityValue(name) \in DOMAIN FacilityNames
  <2>1. 23 \in DOMAIN FacilityNames
    BY DEF FacilityNames
  <2>2. CASE \E f \in DOMAIN FacilityNames : FacilityNames[f] = name
    <3>1. (CHOOSE f \in DOMAIN FacilityNames : FacilityNames[f] = name) \in DOMAIN FacilityNames
      BY <2>2, Zenon
    <3> QED BY <2>2, <3>1, Zenon DEF FacilityValue
  <2>3. CASE ~ \E f \in DOMAIN FacilityNames : FacilityNames[f] = name
    <3>1. FacilityValue(name) = 23
      BY <2>3, Zenon DEF FacilityValue, local7
    <3> QED BY <2>1, <3>1
  <2> QED BY <2>2, <2>3
<1>3. ASSUME NEW name, Contains(SeverityNames, name) PROVE SeverityValue(name) \in 0..7
  <2>1. \E v \in 0..7 : SeverityNames[v + 1] = name
    <3>1. PICK i \in 1..8 : SeverityNames[i] = name
      BY <1>3 DEF Contains, SeverityNames
    <3>2. i - 1 \in 0..7 /\ (i - 1) + 1 = i
      OBVIOUS
    <3> QED BY <3>1, <3>2
  <2>2. (CHOOSE v \in 0..7 : SeverityNames[v + 1] = name) \in 0..7
    BY <2>1, Zenon
  <2> QED BY <1>3, <2>2, Zenon DEF SeverityValue, emerg, debug
<1>4. ASSUME NEW pr
       PROVE GetPriorityInfo(pr)[1] \in DOMAIN FacilityNames /\ GetPriorityInfo(pr)[2] \in 0..7
  <2>1. CASE GetPriorityInfo(pr) = <<1, 6>>
    <3>1. 1 \in DOMAIN FacilityNames
      BY DEF FacilityNames
    <3> QED BY <2>1, <3>1
  <2>2. CASE /\ GetPriorityInfo(pr) = <<FacilityValue(pr[1]), SeverityValue(pr[2])>>
             /\ Contains(SeverityNames, pr[2])
    BY <1>2, <1>3, <2>2
  <2> QED BY <2>1, <2>2, Zenon DEF GetPriorityInfo, user, info
<1> SUFFICES ASSUME NEW c \in Commands PROVE MakeMessage(c) \in Message
  OBVIOUS
<1> DEFINE f == GetPriorityInfo(c.priority)[1]
           v == GetPriorityInfo(c.priority)[2]
<1>5. f \in DOMAIN FacilityNames /\ v \in 0..7
  BY <1>4
<1>6. MakeMessage(c) =
        [timestamp |-> c.timestamp, facility |-> f, severity |-> v, hostname |-> c.hostname,
         appname |-> c.ident, procid |-> c.ppid, message |-> c.message]
  BY DEF MakeMessage
<1>7. /\ c.timestamp \in DOMAIN Zone /\ c.hostname \in Name /\ c.ident \in Name
      /\ c.ppid \in Nat /\ c.message \in MessageText
  BY PipelineAssumption
<1> HIDE DEF f, v
<1>8. v \in emerg..debug
  BY <1>5 DEF emerg, debug
<1> QED BY <1>5, <1>6, <1>7, <1>8 DEF Message

\* So all messages of the model are.
LEMMA AllAreMessages == AllMessages \subseteq Message
BY Commanded, PipelineAssumption DEF AllMessages

\* A buffer of a packet.
IsBuffer(b) == b = [i \in 1..Room |-> b[i]]

\* The buffer c is b with s written behind p elements, if there is room for it.
IsPut(c, b, p, s) ==
  /\ IsBuffer(c)
  /\ \A i \in 1..Room : i <= p => c[i] = b[i]
  /\ p + Len(s) <= Room => \A i \in 1..Len(s) : c[p + i] = s[i]

\* This is what Put makes.
LEMMA PutIs ==
  ASSUME NEW b, IsBuffer(b), NEW p \in Nat, NEW s, Len(s) \in Nat
  PROVE  IsPut(Put(b, p, s), b, p, s)
<1>0. Room \in Nat
  BY PipelineAssumption
<1>1. DOMAIN b = 1..Room
  BY DEF IsBuffer
<1>2. Put(b, p, s) = [i \in 1..Room |-> IF i > p /\ i <= p + Len(s) THEN s[i - p] ELSE b[i]]
  BY <1>1 DEF Put
<1>3. \A i \in 1..Room : i <= p => Put(b, p, s)[i] = b[i]
  BY <1>0, <1>2
<1>4. ASSUME p + Len(s) <= Room, NEW i \in 1..Len(s) PROVE Put(b, p, s)[p + i] = s[i]
  <2>1. p + i \in 1..Room /\ p + i > p /\ p + i <= p + Len(s) /\ (p + i) - p = i
    BY <1>0, <1>4
  <2> QED BY <1>2, <2>1
<1>5. IsBuffer(Put(b, p, s))
  BY <1>2 DEF IsBuffer
<1> QED BY <1>3, <1>4, <1>5 DEF IsPut

\* A packet holds these messages and nothing else.
Holds(p, ms) ==
  /\ p = [buf |-> p.buf, len |-> p.len]
  /\ IsBuffer(p.buf)
  /\ p.len \in 0..Room
  /\ ms \in Seq(AllMessages)
  /\ Packed(p.buf, p.len, ms)

\* The packet of mclogger before it adds its message, and the sender's at first.
Empty == [buf |-> [i \in 1..Room |-> Junk], len |-> 0]

\* A packet without a payload holds nothing, whatever its buffer has left in it.
LEMMA SomeHold ==
  ASSUME NEW b, IsBuffer(b)
  PROVE  Holds([buf |-> b, len |-> 0], <<>>)
<1>1. Packed(b, 0, <<>>)
  BY PackedNone
<1>2. <<>> \in Seq(AllMessages)
  OBVIOUS
<1>3. 0 \in 0..Room
  BY PipelineAssumption
<1> QED BY <1>1, <1>2, <1>3 DEF Holds

\* So a new one holds nothing.
LEMMA EmptyHolds == IsBuffer([i \in 1..Room |-> Junk]) /\ Holds(Empty, <<>>)
<1>1. IsBuffer([i \in 1..Room |-> Junk])
  BY DEF IsBuffer
<1> QED BY <1>1, SomeHold DEF Empty

\* A message that there is room for is added, and one that there is not, is not.
LEMMA AddHolds ==
  ASSUME NEW p, NEW ms, Holds(p, ms), NEW m \in AllMessages
  PROVE  /\ Fits(p, m) => Holds(Add(p, m), Append(ms, m)) /\ HasPayload(Add(p, m))
         /\ ~ Fits(p, m) => Holds(Add(p, m), ms) /\ Add(p, m).len = p.len
<1> DEFINE b == p.buf
           n == p.len
           w == Write(m)
           c == Put(b, n, w)
<1>1. /\ IsBuffer(b) /\ n \in 0..Room /\ n \in Nat /\ Room \in Nat
      /\ ms \in Seq(AllMessages) /\ Packed(b, n, ms)
  BY PipelineAssumption DEF Holds
<1>2. m \in Message /\ ms \in Seq(Message)
  BY <1>1, AllAreMessages
<1>3. Size(m) \in Nat /\ Size(m) >= 7 /\ Len(w) = Size(m) /\ Fields(w, 0, m)
  BY <1>2, WriteIs
<1>4. DOMAIN b = 1..Room /\ Len(b) = Room
  BY <1>1 DEF IsBuffer
<1>5. IsPut(c, b, n, w)
  BY <1>1, <1>3, PutIs
<1>6. Fits(p, m) <=> n + Size(m) <= Room
  BY <1>3, <1>4 DEF Fits
<1>7. Add(p, m) = [buf |-> c, len |-> IF Fits(p, m) THEN n + Size(m) ELSE n]
  BY <1>3 DEF Add
<1> HIDE DEF b, n, w, c
<1>8. IsBuffer(c) /\ \A i \in 1..n : c[i] = b[i]
  BY <1>1, <1>5 DEF IsPut
<1>9. ASSUME Fits(p, m) PROVE Holds(Add(p, m), Append(ms, m)) /\ HasPayload(Add(p, m))
  <2>1. n + Size(m) <= Room /\ n + Size(m) \in 0..Room /\ n + Size(m) > 0
    BY <1>1, <1>3, <1>6, <1>9
  <2>2. Agree(c, n, w, 0, Size(m))
    BY <1>3, <1>5, <2>1 DEF Agree, IsPut
  <2>3. Fields(c, n, m)
    BY <1>1, <1>2, <1>3, <2>2, SameFields
  <2>4. Packed(c, n + Size(m), Append(ms, m))
    BY <1>1, <1>2, <1>8, <2>3, PackedMore
  <2>5. Append(ms, m) \in Seq(AllMessages)
    BY <1>1
  <2>6. Add(p, m) = [buf |-> c, len |-> n + Size(m)]
    BY <1>7, <1>9
  <2> QED BY <1>8, <2>1, <2>4, <2>5, <2>6 DEF Holds, HasPayload
<1>10. ASSUME ~ Fits(p, m) PROVE Holds(Add(p, m), ms) /\ Add(p, m).len = p.len
  <2>1. Add(p, m) = [buf |-> c, len |-> n]
    BY <1>7, <1>10
  <2>2. Packed(c, n, ms)
    BY <1>1, <1>2, <1>8, PackedSame
  <2> QED BY <1>1, <1>8, <2>1, <2>2 DEF Holds, n
<1> QED BY <1>9, <1>10

\* The beginning of a buffer, element by element.
LEMMA BeginIs ==
  ASSUME NEW b, IsBuffer(b), NEW n \in 0..Room
  PROVE  SubSeq(b, 1, n) = [i \in 1..n |-> b[i]] /\ Len(SubSeq(b, 1, n)) = n
<1> DEFINE E == {b[i] : i \in 1..Room}
<1>0. Room \in Nat /\ n \in Nat /\ n <= Room
  BY PipelineAssumption
<1>1. b = [i \in 1..Room |-> b[i]] /\ \A i \in 1..Room : b[i] \in E
  BY DEF IsBuffer
<1> HIDE DEF E
<1>2. b \in Seq(E) /\ Len(b) = Room
  BY <1>0, <1>1
<1>3. SubSeq(b, 1, n) = [i \in 1..n |-> b[i]]
  BY <1>0, <1>2
<1> QED BY <1>0, <1>3

\* What goes out for these elements, encrypted or not.
Encoded(d, plain, n, enc) ==
  /\ d = [i \in 1..n |-> d[i]]
  /\ \A i \in 1..n : d[i] = IF enc THEN <<"cipher", plain[i]>> ELSE plain[i]

\* A datagram has these messages and nothing else in it.
Carries(d, plain, n, enc, ms) ==
  n \in 0..Room /\ Encoded(d, plain, n, enc) /\ ms \in Seq(AllMessages) /\ Packed(plain, n, ms)

\* There is a datagram under way that has what its history says.
IsDatagram(t, enc) ==
  \E d, plain, n, ms : t = <<[data |-> d, msgs |-> ms]>> /\ Carries(d, plain, n, enc, ms)

\* What goes out is what the packet holds; then it holds nothing.
LEMMA SendHeld ==
  ASSUME NEW p, NEW ms, Holds(p, ms)
  PROVE  IsDatagram(Datagram(Ready(p), ms), encrypted) /\ Holds(Reset(Ready(p)), <<>>)
<1> DEFINE b == p.buf
           n == p.len
           s == Cipher(SubSeq(b, 1, n))
           r == IF encrypted THEN Put(b, 0, s) ELSE b
           d == SubSeq(r, 1, n)
<1>1. /\ p = [buf |-> b, len |-> n] /\ IsBuffer(b) /\ n \in 0..Room /\ n \in Nat /\ Room \in Nat
      /\ ms \in Seq(AllMessages) /\ Packed(b, n, ms)
  BY PipelineAssumption DEF Holds
<1>2. Ready(p) = [buf |-> r, len |-> n]
  BY <1>1 DEF Ready, Encrypt
<1>3. s = [i \in 1..n |-> <<"cipher", b[i]>>] /\ Len(s) = n
  <2>1. SubSeq(b, 1, n) = [i \in 1..n |-> b[i]]
    BY <1>1, BeginIs
  <2>2. s = [i \in 1..n |-> <<"cipher", b[i]>>]
    BY <2>1 DEF Cipher
  <2> QED BY <1>1, <2>2
<1> HIDE DEF b, n, s
<1>4. IsBuffer(r) /\ \A i \in 1..n : r[i] = IF encrypted THEN <<"cipher", b[i]>> ELSE b[i]
  <2>1. CASE encrypted
    <3> DEFINE c == Put(b, 0, s)
    <3>1. IsPut(c, b, 0, s)
      BY <1>1, <1>3, PutIs
    <3> HIDE DEF c
    <3>2. IsBuffer(c) /\ \A i \in 1..n : c[0 + i] = s[i] /\ 0 + i = i
      BY <1>1, <1>3, <3>1 DEF IsPut
    <3>3. \A i \in 1..n : c[i] = <<"cipher", b[i]>>
      BY <1>3, <3>2
    <3>4. r = c
      BY <2>1 DEF c
    <3> HIDE DEF r
    <3> QED BY <2>1, <3>2, <3>3, <3>4
  <2>2. CASE ~ encrypted
    BY <1>1, <2>2
  <2> QED BY <2>1, <2>2
<1> HIDE DEF r
<1>5. d = [i \in 1..n |-> r[i]]
  BY <1>1, <1>4, BeginIs
<1>6. Datagram(Ready(p), ms) = <<[data |-> d, msgs |-> ms]>>
  BY <1>2 DEF Datagram
<1> HIDE DEF d
<1>7. Encoded(d, b, n, encrypted)
  BY <1>4, <1>5 DEF Encoded
<1>8. Carries(d, b, n, encrypted, ms)
  BY <1>1, <1>7 DEF Carries
<1>9. IsDatagram(Datagram(Ready(p), ms), encrypted)
  BY <1>6, <1>8, Zenon DEF IsDatagram
<1>10. Reset(Ready(p)) = [buf |-> r, len |-> 0]
  BY <1>2 DEF Reset
<1>11. Holds(Reset(Ready(p)), <<>>)
  BY <1>4, <1>10, SomeHold
<1> QED BY <1>9, <1>11

-----------------------------------------------------------------------------
(* The invariant                                                           *)

\* The sender's packet holds the messages added to it since it was last sent, and
\* a datagram carries those of its packet: neither a part of a message nor
\* anything that an earlier packet left in a buffer.
PacketInv ==
  /\ Holds(pkt, held)
  /\ net = None \/ IsDatagram(net, encrypted)
  /\ IsBuffer(rbuf)

\* It holds at first.
LEMMA InitPacketInv == PipelineInit => PacketInv
BY EmptyHolds DEF PipelineInit, PacketInv, Empty

\* The second Add may find no room either; the datagram is then what was held.
LEMMA RunAddKeeps ==
  ASSUME PacketInv, NEW m \in Logged, RunAdd(m) PROVE PacketInv'
<1>0. m \in AllMessages /\ Holds(pkt, held) /\ IsBuffer(rbuf)
  BY DEF AllMessages, PacketInv
<1>1. UNCHANGED <<encrypted, rbuf>>
  BY DEF RunAdd
<1>2. CASE Fits(pkt, m)
  <2>1. pkt' = Add(pkt, m) /\ held' = Append(held, m) /\ net' = net
    BY <1>2 DEF RunAdd
  <2>2. Holds(Add(pkt, m), Append(held, m))
    BY <1>0, <1>2, AddHolds
  <2>3. Holds(pkt', held')
    BY <2>1, <2>2
  <2> QED BY <1>1, <2>1, <2>3 DEF PacketInv
<1>3. CASE ~ Fits(pkt, m)
  <2> DEFINE a     == Add(pkt, m)
             out   == Ready(a)
             r     == Reset(out)
             again == Add(r, m)
  <2>1. /\ net' = Datagram(out, held) /\ pkt' = again
        /\ held' = IF HasPayload(again) THEN <<m>> ELSE <<>>
    BY <1>3 DEF RunAdd
  <2>2. Holds(a, held)
    BY <1>0, <1>3, AddHolds
  <2> HIDE DEF a
  <2>3. IsDatagram(Datagram(out, held), encrypted) /\ Holds(r, <<>>)
    BY <2>2, SendHeld
  <2>4. r.len = 0
    BY DEF Reset, Ready, Encrypt
  <2> HIDE DEF r, out
  <2>5. Holds(again, held')
    <3>1. CASE Fits(r, m)
      <4>1. Holds(again, Append(<<>>, m)) /\ HasPayload(again)
        BY <1>0, <2>3, <3>1, AddHolds
      <4>2. Append(<<>>, m) = <<m>>
        OBVIOUS
      <4> QED BY <2>1, <4>1, <4>2
    <3>2. CASE ~ Fits(r, m)
      <4>1. Holds(again, <<>>) /\ again.len = r.len
        BY <1>0, <2>3, <3>2, AddHolds
      <4>2. ~ HasPayload(again)
        BY <2>4, <4>1 DEF HasPayload
      <4> QED BY <2>1, <4>1, <4>2
    <3> QED BY <3>1, <3>2
  <2> HIDE DEF again
  <2>6. IsDatagram(net', encrypted')
    BY <1>1, <2>1, <2>3
  <2>7. Holds(pkt', held') /\ IsBuffer(rbuf')
    BY <1>0, <1>1, <2>1, <2>5
  <2> QED BY <2>6, <2>7 DEF PacketInv
<1> QED BY <1>2, <1>3

\* The packet goes out.
LEMMA RunSendKeeps ==
  ASSUME PacketInv, RunSend PROVE PacketInv'
<1>1. Holds(pkt, held) /\ IsBuffer(rbuf)
  BY DEF PacketInv
<1>2. /\ net' = Datagram(Ready(pkt), held) /\ pkt' = Reset(Ready(pkt)) /\ held' = <<>>
      /\ UNCHANGED <<encrypted, rbuf>>
  BY DEF RunSend
<1>3. IsDatagram(Datagram(Ready(pkt), held), encrypted) /\ Holds(Reset(Ready(pkt)), <<>>)
  BY <1>1, SendHeld
<1>4. IsDatagram(net', encrypted')
  BY <1>2, <1>3
<1>5. Holds(pkt', held') /\ IsBuffer(rbuf')
  BY <1>1, <1>2, <1>3
<1> QED BY <1>4, <1>5 DEF PacketInv

\* A packet of its own goes out, with the message or without.
LEMMA McloggerKeeps ==
  ASSUME PacketInv, NEW c \in Commands, Mclogger(c) PROVE PacketInv'
<1> DEFINE m == MakeMessage(c)
           p == Add(Empty, m)
           ms == IF HasPayload(p) THEN <<m>> ELSE <<>>
<1>1. net' = Datagram(p, ms) /\ ~ encrypted /\ UNCHANGED <<encrypted, pkt, held, rbuf>>
  BY DEF Mclogger, Empty
<1>2. m \in AllMessages
  BY DEF AllMessages
<1> HIDE DEF m
<1>3. Holds(Empty, <<>>) /\ Empty.len = 0
  BY EmptyHolds DEF Empty
<1>4. Holds(p, ms)
  <2>1. CASE Fits(Empty, m)
    <3>1. Holds(p, Append(<<>>, m)) /\ HasPayload(p)
      BY <1>2, <1>3, <2>1, AddHolds
    <3>2. Append(<<>>, m) = <<m>>
      OBVIOUS
    <3> QED BY <3>1, <3>2
  <2>2. CASE ~ Fits(Empty, m)
    <3>1. Holds(p, <<>>) /\ p.len = Empty.len
      BY <1>2, <1>3, <2>2, AddHolds
    <3>2. ~ HasPayload(p)
      BY <1>3, <3>1 DEF HasPayload
    <3> QED BY <3>1, <3>2
  <2> QED BY <2>1, <2>2
<1> HIDE DEF p, ms
<1>5. Ready(p) = p
  BY <1>1 DEF Ready
<1>6. IsDatagram(Datagram(Ready(p), ms), encrypted)
  BY <1>4, SendHeld
<1>7. IsDatagram(net', encrypted')
  BY <1>1, <1>5, <1>6
<1>8. Holds(pkt', held') /\ IsBuffer(rbuf')
  BY <1>1 DEF PacketInv
<1> QED BY <1>7, <1>8 DEF PacketInv

\* The longest beginning of nothing.
LEMMA ReadNone == ASSUME NEW good PROVE Prefix(<<>>, good) = <<>>
<1> DEFINE e == <<>>
<1>0. e = <<>>
  OBVIOUS
<1>1. e \in Seq(Message) /\ Len(e) = 0
  OBVIOUS
<1> HIDE DEF e
<1>2. PICK k \in 0..Len(e) : /\ Prefix(e, good) = [i \in 1..k |-> e[i]]
                             /\ \A i \in 1..k : e[i] \in good
                             /\ k < Len(e) => e[k + 1] \notin good
  <2>1. e \in Seq(Message)
    BY <1>1
  <2> QED BY <2>1, PrefixIs
<1>3. k = 0
  BY <1>1, <1>2
<1>4. [i \in 1..k |-> e[i]] = <<>>
  BY <1>3
<1> QED BY <1>0, <1>2, <1>4

\* The messages that Read does not refuse.
Good == {m \in AllMessages : HasValidOrigin(m)}

\* The receiver gets what the datagram carries, unless it has the wrong key.
LEMMA ReceiveDelivers ==
  ASSUME PacketInv, Receive
  PROVE  /\ PacketInv'
         /\ \E got : /\ got = IF encrypted /\ ~rkey THEN <<>> ELSE Prefix(net[1].msgs, Good)
                     /\ got \in Seq(Good)
                     /\ sunk' = sunk \o got
                     /\ logFile' = logFile \o FlattenSeq([i \in DOMAIN got |-> Write(got[i])])
<1> DEFINE good == Good
<1>1. PICK d, plain, n, ms : /\ net = <<[data |-> d, msgs |-> ms]>>
                             /\ Carries(d, plain, n, encrypted, ms)
  BY DEF PacketInv, Receive, IsDatagram
<1>2. net[1].data = d /\ net[1].msgs = ms
  BY <1>1
<1>3. /\ n \in 0..Room /\ n \in Nat /\ Room \in Nat /\ ms \in Seq(AllMessages)
      /\ ms \in Seq(Message)
      /\ Packed(plain, n, ms) /\ Encoded(d, plain, n, encrypted)
  BY <1>1, AllAreMessages, PipelineAssumption DEF Carries
<1>4. /\ d = [i \in 1..n |-> d[i]] /\ Len(d) = n
      /\ \A i \in 1..n : d[i] = IF encrypted THEN <<"cipher", plain[i]>> ELSE plain[i]
  BY <1>3 DEF Encoded
<1> DEFINE raw == Put(rbuf, 0, d)
           deciphered == [i \in 1..n |-> IF rkey THEN raw[i][2] ELSE Junk]
           b == IF encrypted /\ n > 0 THEN Put(raw, 0, deciphered) ELSE raw
           payload == IF n > 0 /\ (encrypted => rkey) THEN SubSeq(b, 1, n) ELSE <<>>
           got == ReadAll(payload)
<1>5. /\ rbuf' = b /\ sunk' = sunk \o got /\ net' = None /\ UNCHANGED <<pkt, held>>
      /\ logFile' = logFile \o FlattenSeq([i \in DOMAIN got |-> Write(got[i])])
  BY <1>2, <1>4, Zenon DEF Receive, Received, Decrypt, Payload
<1>6. IsBuffer(raw) /\ \A i \in 1..n : raw[i] = d[i]
  <2>1. IsPut(raw, rbuf, 0, d)
    BY <1>3, <1>4, PutIs DEF PacketInv
  <2> HIDE DEF raw
  <2>2. IsBuffer(raw) /\ \A i \in 1..n : raw[0 + i] = d[i] /\ 0 + i = i
    BY <1>3, <1>4, <2>1 DEF IsPut
  <2> QED BY <2>2
<1> HIDE DEF raw
<1>7. IsBuffer(b) /\ ((encrypted => rkey) => \A i \in 1..n : b[i] = plain[i])
  <2>1. CASE encrypted /\ n > 0
    <3> DEFINE c == Put(raw, 0, deciphered)
    <3>1. Len(deciphered) = n
      BY <1>3
    <3>a. rkey => \A i \in 1..n : deciphered[i] = raw[i][2]
      OBVIOUS
    <3> HIDE DEF deciphered
    <3>2. IsPut(c, raw, 0, deciphered)
      BY <1>3, <1>6, <3>1, PutIs
    <3> HIDE DEF c
    <3>3. IsBuffer(c) /\ \A i \in 1..n : c[0 + i] = deciphered[i] /\ 0 + i = i
      BY <1>3, <3>1, <3>2 DEF IsPut
    <3>4. rkey => \A i \in 1..n : c[i] = plain[i]
      BY <1>4, <1>6, <2>1, <3>3, <3>a
    <3>5. b = c
      BY <2>1 DEF c
    <3> HIDE DEF b
    <3> QED BY <2>1, <3>3, <3>4, <3>5
  <2>2. CASE ~ encrypted
    BY <1>4, <1>6, <2>2
  <2>3. CASE n = 0
    BY <1>6, <2>3
  <2>4. n > 0 \/ n = 0
    BY <1>3
  <2> QED BY <2>1, <2>2, <2>3, <2>4, Zenon
<1> HIDE DEF b
<1>8. ReadAll(payload) = IF encrypted /\ ~rkey THEN <<>> ELSE Prefix(ms, good)
  <2>1. \A m \in Message : (\E i \in 1..Len(ms) : ms[i] = m) => (m \in good <=> HasValidOrigin(m))
    BY <1>3 DEF Good
  <2> HIDE DEF good
  <2>2. CASE encrypted /\ ~rkey
    <3>1. payload = <<>> /\ Len(<<>>) = 0 /\ <<>> \in Seq(Message)
      BY <2>2
    <3>2. Packed(<<>>, Len(<<>>), <<>>)
      BY <3>1, PackedNone
    <3>3. \A m \in Message : (\E i \in 1..Len(<<>>) : <<>>[i] = m) => (m \in good <=> HasValidOrigin(m))
      BY <3>1
    <3>4. ReadAll(<<>>) = Prefix(<<>>, good)
      BY <3>1, <3>2, <3>3, MessagesRead
    <3> QED BY <2>2, <3>1, <3>4, ReadNone
  <2>3. CASE encrypted => rkey
    <3>1. Len(payload) = n /\ \A i \in 1..n : payload[i] = plain[i]
      <4>1. CASE n = 0
        BY <4>1
      <4>2. CASE n > 0
        <5>1. payload = [i \in 1..n |-> b[i]] /\ Len(payload) = n
          BY <1>3, <1>7, <2>3, <4>2, BeginIs
        <5> HIDE DEF payload
        <5> QED BY <1>7, <2>3, <5>1
      <4> QED BY <1>3, <4>1, <4>2
    <3> HIDE DEF payload
    <3>2. Packed(payload, Len(payload), ms)
      BY <1>3, <3>1, PackedSame
    <3>3. ReadAll(payload) = Prefix(ms, good)
      BY <1>3, <2>1, <3>1, <3>2, MessagesRead
    <3> QED BY <2>3, <3>3
  <2> QED BY <2>2, <2>3
<1>10. got \in Seq(Good)
  <2>1. CASE encrypted /\ ~rkey
    <3>1. got = <<>>
      BY <1>8, <2>1
    <3> HIDE DEF got
    <3> QED BY <3>1
  <2>2. CASE encrypted => rkey
    <3>1. PICK k \in 0..Len(ms) : /\ Prefix(ms, Good) = [i \in 1..k |-> ms[i]]
                                  /\ \A i \in 1..k : ms[i] \in Good
      BY <1>3, PrefixIs
    <3>2. got = [i \in 1..k |-> ms[i]]
      BY <1>8, <2>2, <3>1
    <3> HIDE DEF got
    <3> QED BY <3>1, <3>2
  <2> QED BY <2>1, <2>2
<1> HIDE DEF payload
<1>9. PacketInv'
  <2>1. Holds(pkt', held') /\ IsBuffer(rbuf')
    BY <1>5, <1>7 DEF PacketInv
  <2> QED BY <1>5, <2>1 DEF PacketInv
<1>11. got = IF encrypted /\ ~rkey THEN <<>> ELSE Prefix(net[1].msgs, Good)
  BY <1>2, <1>8
<1> HIDE DEF got
<1> QED BY <1>5, <1>9, <1>10, <1>11, Zenon

\* Every step keeps the invariant.
LEMMA StepPacketInv == PacketInv /\ [PipelineNext]_pipelineVars => PacketInv'
<1> SUFFICES ASSUME PacketInv, [PipelineNext]_pipelineVars PROVE PacketInv'
  OBVIOUS
<1>1. CASE \E m \in Logged : RunAdd(m)
  BY <1>1, RunAddKeeps
<1>2. CASE RunSend
  BY <1>2, RunSendKeeps
<1>3. CASE \E c \in Commands : Mclogger(c)
  BY <1>3, McloggerKeeps
<1>4. CASE Lose
  BY <1>4 DEF Lose, PacketInv
<1>5. CASE Receive
  BY <1>5, ReceiveDelivers
<1>6. CASE UNCHANGED pipelineVars
  BY <1>6 DEF pipelineVars, PacketInv
<1> QED BY <1>1, <1>2, <1>3, <1>4, <1>5, <1>6 DEF PipelineNext

\* For every size of buffer and all messages and calls of mclogger: what a receiver
\* reads from a datagram and passes to the sinks is what the sender added to its
\* packet, up to the first message with an invalid origin, and nothing under a wrong
\* key; MessagePacket::Add, which sets the put position back, MessagePacket::Encrypt
\* and Decrypt, which work in place, and buffers that are used again without being
\* cleared make no difference.
THEOREM MessagesDelivered == PipelineSpec => DeliveredAsAdded
<1>1. PacketInv /\ [PipelineNext]_pipelineVars
      => [Receive => sunk' = sunk \o
            (IF encrypted /\ ~rkey THEN <<>>
             ELSE Prefix(net[1].msgs, {m \in AllMessages : HasValidOrigin(m)}))]_pipelineVars
  BY ReceiveDelivers DEF Good
<1> QED BY <1>1, InitPacketInv, StepPacketInv, PTL DEF PipelineSpec, DeliveredAsAdded

-----------------------------------------------------------------------------
(* Sequences one after the other                                           *)

\* A sequence, whatever its members are.
IsSeq(s) == Len(s) \in Nat /\ s = [i \in 1..Len(s) |-> s[i]]

\* Functions from an interval that begins at 1 are sequences.
LEMMA SeqIs ==
  ASSUME NEW n \in Nat, NEW s, s = [i \in 1..n |-> s[i]]
  PROVE  IsSeq(s) /\ Len(s) = n
BY DEF IsSeq

\* So are those of the library's kind.
LEMMA FromSeq ==
  ASSUME NEW E, NEW s, s \in Seq(E)
  PROVE  IsSeq(s) /\ \A i \in 1..Len(s) : s[i] \in E
<1>1. Len(s) \in Nat /\ \A i \in 1..Len(s) : s[i] \in E
  OBVIOUS
<1>2. s = [i \in 1..Len(s) |-> s[i]]
  OBVIOUS
<1> QED BY <1>1, <1>2 DEF IsSeq

\* And all are of that kind.
LEMMA InSeq ==
  ASSUME NEW s, IsSeq(s), NEW E, \A i \in 1..Len(s) : s[i] \in E
  PROVE  s \in Seq(E)
BY DEF IsSeq

\* Sequences with the same members are the same.
LEMMA SameSeq ==
  ASSUME NEW s, NEW t, IsSeq(s), IsSeq(t), Len(s) = Len(t), \A i \in 1..Len(s) : s[i] = t[i]
  PROVE  s = t
BY DEF IsSeq

\* The empty sequence.
LEMMA EmptyIsSeq == IsSeq(<<>>) /\ Len(<<>>) = 0
<1> DEFINE e == <<>>
<1>1. e \in Seq({}) /\ Len(e) = 0
  OBVIOUS
<1> HIDE DEF e
<1>2. IsSeq(e)
  <2>1. e \in Seq({})
    BY <1>1
  <2> QED BY <2>1, FromSeq
<1> QED BY <1>1, <1>2 DEF e

\* A sequence of one member.
LEMMA OneIsSeq == ASSUME NEW x PROVE IsSeq(<<x>>) /\ Len(<<x>>) = 1 /\ <<x>>[1] = x
<1> DEFINE s == <<x>>
<1>1. s \in Seq({x}) /\ Len(s) = 1 /\ s[1] = x
  OBVIOUS
<1> HIDE DEF s
<1>2. IsSeq(s)
  <2>1. s \in Seq({x})
    BY <1>1
  <2> QED BY <2>1, FromSeq
<1> QED BY <1>1, <1>2 DEF s

\* \o makes a sequence of two.
LEMMA JoinSeq ==
  ASSUME NEW s, NEW t, IsSeq(s), IsSeq(t)
  PROVE  IsSeq(s \o t) /\ IsJoin(s \o t, s, t)
<1> DEFINE A == {s[i] : i \in 1..Len(s)}
           C == {t[i] : i \in 1..Len(t)}
           E == A \cup C
           w == s \o t
<1>1. (\A i \in 1..Len(s) : s[i] \in E) /\ \A i \in 1..Len(t) : t[i] \in E
  OBVIOUS
<1>w. w = s \o t
  OBVIOUS
<1> HIDE DEF E, w
<1>2. s \in Seq(E)
  BY <1>1, InSeq
<1>3. t \in Seq(E)
  BY <1>1, InSeq
<1>4. w \in Seq(E) /\ IsJoin(w, s, t)
  BY <1>2, <1>3, <1>w, Joined
<1>5. IsSeq(w)
  <2>1. w \in Seq(E)
    BY <1>4
  <2> QED BY <2>1, FromSeq
<1> QED BY <1>4, <1>5, <1>w

\* Where a member of the whole comes from.
LEMMA JoinAt ==
  ASSUME NEW w, NEW s, NEW t, IsSeq(s), IsSeq(t), IsJoin(w, s, t), NEW i \in 1..Len(w)
  PROVE  \/ i \in 1..Len(s) /\ w[i] = s[i]
         \/ i - Len(s) \in 1..Len(t) /\ w[i] = t[i - Len(s)]
<1>1. Len(s) \in Nat /\ Len(t) \in Nat /\ Len(w) = Len(s) + Len(t)
  BY DEF IsSeq, IsJoin
<1>2. CASE i <= Len(s)
  BY <1>1, <1>2 DEF IsJoin
<1>3. CASE i > Len(s)
  <2>1. i - Len(s) \in 1..Len(t) /\ Len(s) + (i - Len(s)) = i
    BY <1>1, <1>3
  <2> QED BY <2>1 DEF IsJoin
<1> QED BY <1>1, <1>2, <1>3

\* What holds of the members of both holds of all.
LEMMA JoinAll ==
  ASSUME NEW s, NEW t, IsSeq(s), IsSeq(t), NEW E,
         \A i \in 1..Len(s) : s[i] \in E, \A i \in 1..Len(t) : t[i] \in E
  PROVE  \A i \in 1..Len(s \o t) : (s \o t)[i] \in E
<1> DEFINE w == s \o t
<1>1. IsJoin(w, s, t)
  BY JoinSeq
<1> HIDE DEF w
<1>2. ASSUME NEW i \in 1..Len(w) PROVE w[i] \in E
  <2>1. CASE i \in 1..Len(s) /\ w[i] = s[i]
    BY <2>1
  <2>2. CASE i - Len(s) \in 1..Len(t) /\ w[i] = t[i - Len(s)]
    BY <2>2
  <2>3. \/ i \in 1..Len(s) /\ w[i] = s[i]
        \/ i - Len(s) \in 1..Len(t) /\ w[i] = t[i - Len(s)]
    BY <1>1, JoinAt
  <2> QED BY <2>1, <2>2, <2>3
<1> QED BY <1>2 DEF w

\* Nothing before or after a sequence does not change it.
LEMMA JoinEmpty ==
  ASSUME NEW s, IsSeq(s)
  PROVE  <<>> \o s = s /\ s \o <<>> = s
<1> DEFINE e == <<>>
           u == e \o s
           v == s \o e
<1>1. IsSeq(e) /\ Len(e) = 0 /\ Len(s) \in Nat
  BY EmptyIsSeq DEF IsSeq
<1> HIDE DEF e
<1>2. IsSeq(u) /\ IsJoin(u, e, s) /\ IsSeq(v) /\ IsJoin(v, s, e)
  BY <1>1, JoinSeq
<1> HIDE DEF u, v
<1>3. /\ Len(u) = Len(s) /\ \A i \in 1..Len(s) : u[0 + i] = s[i] /\ 0 + i = i
      /\ Len(v) = Len(s) /\ \A i \in 1..Len(s) : v[i] = s[i]
  BY <1>1, <1>2 DEF IsJoin
<1>4. u = s
  BY <1>2, <1>3, SameSeq
<1>5. v = s
  BY <1>2, <1>3, SameSeq
<1> QED BY <1>4, <1>5 DEF u, v, e

\* FlattenSeq appends one sequence after the other.
Flattens(F, seqs) ==
  /\ F[0] = <<>>
  /\ \A k \in 1..Len(seqs) : F[k] = F[k - 1] \o seqs[k]

\* FlattenSeq joins the sequences from the first to the last.
LEMMA FlattenIs ==
  ASSUME NEW seqs, IsSeq(seqs), \A k \in 1..Len(seqs) : IsSeq(seqs[k])
  PROVE  \E F : Flattens(F, seqs) /\ FlattenSeq(seqs) = F[Len(seqs)]
<1> DEFINE l == Len(seqs)
           Is(f, n) == f = [i \in 1..n |-> IF i = 1 THEN seqs[i] ELSE f[i - 1] \o seqs[i]]
           T == {n \in 0..l : \E f : Is(f, n)}
<1>0. l \in Nat
  BY DEF IsSeq
<1>1. 0 \in T
  <2> DEFINE f == [i \in 1..0 |-> <<>>]
  <2>1. Is(f, 0)
    OBVIOUS
  <2> HIDE DEF f, Is
  <2> QED BY <1>0, <2>1
<1>2. ASSUME NEW n \in 0..(l - 1), n \in T PROVE n + 1 \in T
  <2>1. PICK f : Is(f, n)
    BY <1>2
  <2> DEFINE N == n + 1
             x == IF N = 1 THEN seqs[N] ELSE f[N - 1] \o seqs[N]
             g == [i \in 1..N |-> IF i = N THEN x ELSE f[i]]
  <2>2. N \in 0..l /\ N \in Nat /\ N >= 1 /\ n \in Nat
    BY <1>0
  <2>3. \A i \in 1..n : f[i] = IF i = 1 THEN seqs[i] ELSE f[i - 1] \o seqs[i]
    BY <2>1
  <2>4. \A i \in 1..N : g[i] = IF i = N THEN x ELSE f[i]
    OBVIOUS
  <2>5. g = [i \in 1..N |-> g[i]]
    OBVIOUS
  <2>x. x = IF N = 1 THEN seqs[N] ELSE f[N - 1] \o seqs[N]
    OBVIOUS
  <2>n. N - 1 = n /\ \A i \in 1..N : i # N => i \in 1..n
    BY <2>2
  <2> HIDE DEF g, x, N
  <2>6. ASSUME NEW i \in 1..N
        PROVE g[i] = IF i = 1 THEN seqs[i] ELSE g[i - 1] \o seqs[i]
    <3>1. i # 1 => g[i - 1] = f[i - 1]
      <4>1. i # 1 => i - 1 \in 1..N /\ i - 1 # N
        BY <2>2
      <4> QED BY <2>4, <4>1
    <3>2. CASE i = N
      BY <2>4, <2>x, <3>1, <3>2
    <3>3. CASE i # N
      BY <2>3, <2>4, <2>n, <3>1, <3>3
    <3> QED BY <3>2, <3>3
  <2>7. Is(g, N)
    BY <2>5, <2>6
  <2> HIDE DEF Is
  <2>8. N \in T
    BY <2>2, <2>7
  <2> QED BY <2>8 DEF N
<1>3. \A n \in 0..l : n \in T
  <2> HIDE DEF T
  <2> QED BY <1>0, <1>1, <1>2, UpTo
<1> DEFINE f == CHOOSE h : Is(h, l)
<1>4. Is(f, l)
  <2> HIDE DEF Is
  <2>1. l \in T
    BY <1>0, <1>3
  <2>2. \E h : Is(h, l)
    BY <2>1
  <2> QED BY <2>2, Zenon
<1>5. l # 0 => FlattenSeq(seqs) = f[l]
  BY Zenon DEF FlattenSeq
<1>6. l = 0 => FlattenSeq(seqs) = <<>>
  <2>1. l = 0 => FlattenSeq(seqs) = seqs
    BY Zenon DEF FlattenSeq
  <2>2. l = 0 => seqs = <<>>
    BY EmptyIsSeq, SameSeq
  <2> QED BY <2>1, <2>2
<1> HIDE DEF f
<1>7. \A i \in 1..l : f[i] = IF i = 1 THEN seqs[i] ELSE f[i - 1] \o seqs[i]
  BY <1>4
<1> DEFINE F == [k \in 0..l |-> IF k = 0 THEN <<>> ELSE f[k]]
<1>8. F[0] = <<>> /\ \A k \in 1..l : F[k] = f[k]
  BY <1>0
<1>9. l # 0 => F[l] = f[l]
  BY <1>0
<1> HIDE DEF F
<1>10. ASSUME NEW k \in 1..l PROVE F[k] = F[k - 1] \o seqs[k]
  <2>1. CASE k = 1
    <3>1. <<>> \o seqs[1] = seqs[1]
      BY <2>1, JoinEmpty
    <3>2. k - 1 = 0 /\ F[1] = seqs[1]
      BY <1>7, <1>8, <2>1
    <3> QED BY <1>8, <2>1, <3>1, <3>2
  <2>2. CASE k # 1
    <3>1. k - 1 \in 1..l
      BY <1>0, <2>2
    <3> QED BY <1>7, <1>8, <2>2, <3>1
  <2> QED BY <2>1, <2>2
<1>11. Flattens(F, seqs)
  BY <1>8, <1>10 DEF Flattens
<1>12. FlattenSeq(seqs) = F[l]
  BY <1>5, <1>6, <1>8, <1>9
<1> QED BY <1>11, <1>12

-----------------------------------------------------------------------------
(* The forms of messages one after the other                               *)

\* The elements after a position are those of a sequence.
At(s, p, t) == \A i \in 1..Len(t) : s[p + i] = t[i]

\* A stream consists of what a function gives for messages, at these offsets.
Strung(s, ms, w, off) ==
  /\ off[0] = 0 /\ off[Len(ms)] = Len(s)
  /\ \A k \in 0..Len(ms) : off[k] \in 0..Len(s)
  /\ \A k \in 1..Len(ms) : /\ Len(w[ms[k]]) \in Nat
                           /\ off[k] = off[k - 1] + Len(w[ms[k]])
                           /\ At(s, off[k - 1], w[ms[k]])

Chained(s, ms, w) == IsSeq(s) /\ IsSeq(ms) /\ \E off : Strung(s, ms, w, off)

\* Nothing is the form of no messages.
LEMMA ChainedNone == ASSUME NEW w PROVE Chained(<<>>, <<>>, w)
<1> DEFINE off == [k \in 0..0 |-> 0]
           e == <<>>
<1>1. IsSeq(e) /\ Len(e) = 0
  BY EmptyIsSeq
<1>2. off[0] = 0
  OBVIOUS
<1> HIDE DEF off, e
<1>3. Strung(e, e, w, off)
  BY <1>1, <1>2 DEF Strung
<1> QED BY <1>1, <1>3 DEF Chained, e

\* The form of one message.
LEMMA ChainedOne ==
  ASSUME NEW w, NEW m, IsSeq(w[m])
  PROVE  Chained(w[m], <<m>>, w)
<1> DEFINE n == Len(w[m])
           off == [k \in 0..1 |-> IF k = 0 THEN 0 ELSE n]
           e == <<m>>
<1>1. IsSeq(e) /\ Len(e) = 1 /\ e[1] = m
  BY OneIsSeq
<1>2. off[0] = 0 /\ off[1] = n /\ n \in Nat
  BY DEF IsSeq
<1> HIDE DEF off, e
<1>3. At(w[m], 0, w[m])
  BY DEF At
<1>4. \A k \in 0..1 : off[k] \in 0..n
  BY <1>2
<1>5. \A k \in 1..1 : /\ Len(w[e[k]]) \in Nat /\ off[k] = off[k - 1] + Len(w[e[k]])
                      /\ At(w[m], off[k - 1], w[e[k]])
  <2> SUFFICES ASSUME NEW k \in 1..1
               PROVE  /\ Len(w[e[k]]) \in Nat /\ off[k] = off[k - 1] + Len(w[e[k]])
                      /\ At(w[m], off[k - 1], w[e[k]])
    OBVIOUS
  <2>1. k = 1 /\ k - 1 = 0 /\ e[k] = m
    BY <1>1
  <2>2. Len(w[e[k]]) = n /\ off[k] = 0 + n /\ off[k - 1] = 0 /\ At(w[m], off[k - 1], w[e[k]])
    BY <1>2, <1>3, <2>1
  <2> QED BY <1>2, <2>2
<1>6. Strung(w[m], e, w, off)
  BY <1>1, <1>2, <1>4, <1>5 DEF Strung
<1> QED BY <1>1, <1>6 DEF Chained, e

\* The forms of messages and those of others are the forms of all.
LEMMA ChainedJoin ==
  ASSUME NEW w, NEW s, NEW t, NEW ms, NEW ns, Chained(s, ms, w), Chained(t, ns, w)
  PROVE  Chained(s \o t, ms \o ns, w)
<1>1. PICK o1 : Strung(s, ms, w, o1)
  BY DEF Chained
<1>2. PICK o2 : Strung(t, ns, w, o2)
  BY DEF Chained
<1>3. IsSeq(s) /\ IsSeq(t) /\ IsSeq(ms) /\ IsSeq(ns)
  BY DEF Chained
<1> DEFINE a == Len(s)
           b == Len(t)
           c == Len(ms)
           d == Len(ns)
           u == s \o t
           us == ms \o ns
           off == [k \in 0..(c + d) |-> IF k <= c THEN o1[k] ELSE a + o2[k - c]]
<1>4. IsSeq(u) /\ IsJoin(u, s, t) /\ IsSeq(us) /\ IsJoin(us, ms, ns)
  BY <1>3, JoinSeq
<1>5. a \in Nat /\ b \in Nat /\ c \in Nat /\ d \in Nat
  BY <1>3 DEF IsSeq
<1> HIDE DEF u, us
<1>6. /\ Len(u) = a + b /\ (\A i \in 1..a : u[i] = s[i]) /\ \A i \in 1..b : u[a + i] = t[i]
      /\ Len(us) = c + d /\ (\A i \in 1..c : us[i] = ms[i]) /\ \A i \in 1..d : us[c + i] = ns[i]
  BY <1>4 DEF IsJoin
<1>7. /\ o1[0] = 0 /\ o1[c] = a /\ \A k \in 0..c : o1[k] \in 0..a
      /\ \A k \in 1..c : /\ Len(w[ms[k]]) \in Nat
                         /\ o1[k] = o1[k - 1] + Len(w[ms[k]]) /\ At(s, o1[k - 1], w[ms[k]])
  BY <1>1 DEF Strung
<1>8. /\ o2[0] = 0 /\ o2[d] = b /\ \A k \in 0..d : o2[k] \in 0..b
      /\ \A k \in 1..d : /\ Len(w[ns[k]]) \in Nat
                         /\ o2[k] = o2[k - 1] + Len(w[ns[k]]) /\ At(t, o2[k - 1], w[ns[k]])
  BY <1>2 DEF Strung
<1>9. \A k \in 0..(c + d) : off[k] = IF k <= c THEN o1[k] ELSE a + o2[k - c]
  OBVIOUS
<1> HIDE DEF off, a, b, c, d
<1>10. \A k \in 0..d : off[c + k] = a + o2[k]
  <2> SUFFICES ASSUME NEW k \in 0..d PROVE off[c + k] = a + o2[k]
    OBVIOUS
  <2>1. c + k \in 0..(c + d) /\ (c + k) - c = k
    BY <1>5
  <2>2. CASE k = 0
    <3>1. off[c] = o1[c]
      BY <1>5, <1>9
    <3>2. c + k = c /\ a + o2[k] = a
      BY <1>5, <1>8, <2>2
    <3> QED BY <1>7, <3>1, <3>2
  <2>3. CASE k # 0
    <3>1. ~ (c + k <= c)
      BY <1>5, <2>3
    <3> QED BY <1>9, <2>1, <3>1
  <2> QED BY <2>2, <2>3
<1>11. \A k \in 0..c : off[k] = o1[k]
  BY <1>5, <1>9
<1>12. \A k \in 0..(c + d) : off[k] \in 0..(a + b)
  <2> SUFFICES ASSUME NEW k \in 0..(c + d) PROVE off[k] \in 0..(a + b)
    OBVIOUS
  <2>1. CASE k <= c
    <3>1. k \in 0..c
      BY <1>5, <2>1
    <3>2. off[k] \in 0..a
      BY <1>7, <1>11, <3>1
    <3> QED BY <1>5, <3>2
  <2>2. CASE ~ (k <= c)
    <3>1. k - c \in 0..d /\ c + (k - c) = k
      BY <1>5, <2>2
    <3>2. off[k] = a + o2[k - c] /\ o2[k - c] \in 0..b
      BY <1>8, <1>10, <3>1
    <3> QED BY <1>5, <3>2
  <2> QED BY <2>1, <2>2
<1>13. ASSUME NEW k \in 1..(c + d)
       PROVE  /\ Len(w[us[k]]) \in Nat /\ off[k] = off[k - 1] + Len(w[us[k]])
              /\ At(u, off[k - 1], w[us[k]])
  <2>1. CASE k <= c
    <3> DEFINE m == ms[k]
               n == Len(w[m])
               p == o1[k - 1]
    <3>1. k \in 1..c /\ k \in 0..c /\ k - 1 \in 0..c
      BY <1>5, <2>1
    <3>2. us[k] = m /\ off[k] = o1[k] /\ off[k - 1] = p
      BY <1>6, <1>11, <3>1
    <3>3. /\ n \in Nat /\ o1[k] = p + n /\ At(s, p, w[m])
          /\ o1[k] \in 0..a /\ p \in 0..a
      BY <1>7, <3>1
    <3> HIDE DEF m, n, p
    <3>4. \A i \in 1..n : p + i \in 1..a
      BY <1>5, <3>3
    <3>5. At(u, p, w[m])
      BY <1>6, <3>3, <3>4 DEF At, n
    <3> QED BY <3>2, <3>3, <3>5 DEF n
  <2>2. CASE ~ (k <= c)
    <3> DEFINE j == k - c
               m == ns[j]
               n == Len(w[m])
               p == o2[j - 1]
    <3>1. j \in 1..d /\ j \in 0..d /\ j - 1 \in 0..d /\ c + j = k /\ c + (j - 1) = k - 1
      BY <1>5, <2>2
    <3> HIDE DEF j
    <3>2. us[k] = m /\ off[k] = a + o2[j] /\ off[k - 1] = a + p
      BY <1>6, <1>10, <3>1
    <3>3. /\ n \in Nat /\ o2[j] = p + n /\ At(t, p, w[m])
          /\ o2[j] \in 0..b /\ p \in 0..b
      BY <1>8, <3>1
    <3> HIDE DEF m, n, p
    <3>4. \A i \in 1..n : p + i \in 1..b /\ a + (p + i) = (a + p) + i
      BY <1>5, <3>3
    <3>5. At(u, a + p, w[m])
      BY <1>6, <3>3, <3>4 DEF At, n
    <3>6. off[k] = off[k - 1] + n
      BY <1>5, <3>2, <3>3
    <3> QED BY <3>2, <3>3, <3>5, <3>6 DEF n
  <2> QED BY <2>1, <2>2
<1>14. off[0] = 0 /\ off[c + d] = a + b
  BY <1>5, <1>7, <1>8, <1>10, <1>11
<1>15. Strung(u, us, w, off)
  BY <1>6, <1>12, <1>13, <1>14 DEF Strung
<1> QED BY <1>4, <1>15 DEF Chained, u, us

\* Forms of messages that are joined.
LEMMA FlattenChained ==
  ASSUME NEW w, NEW ss, NEW ts, IsSeq(ss), IsSeq(ts), Len(ss) = Len(ts),
         \A k \in 1..Len(ss) : Chained(ss[k], ts[k], w)
  PROVE  Chained(FlattenSeq(ss), FlattenSeq(ts), w)
<1> DEFINE l == Len(ss)
<1>0. l \in Nat
  BY DEF IsSeq
<1>1. \A k \in 1..l : IsSeq(ss[k]) /\ IsSeq(ts[k])
  BY DEF Chained
<1>2. PICK F : Flattens(F, ss) /\ FlattenSeq(ss) = F[l]
  BY <1>1, FlattenIs
<1>3. PICK G : Flattens(G, ts) /\ FlattenSeq(ts) = G[Len(ts)]
  BY <1>1, FlattenIs
<1> DEFINE T == {k \in 0..l : Chained(F[k], G[k], w)}
<1>4. 0 \in T
  BY <1>0, <1>2, <1>3, ChainedNone DEF Flattens
<1>5. ASSUME NEW k \in 0..(l - 1), k \in T PROVE k + 1 \in T
  <2>1. k + 1 \in 1..l /\ k + 1 \in 0..l /\ (k + 1) - 1 = k
    BY <1>0
  <2>2. F[k + 1] = F[k] \o ss[k + 1] /\ G[k + 1] = G[k] \o ts[k + 1]
    BY <1>2, <1>3, <2>1 DEF Flattens
  <2>3. Chained(F[k], G[k], w) /\ Chained(ss[k + 1], ts[k + 1], w)
    BY <1>5, <2>1
  <2>4. Chained(F[k + 1], G[k + 1], w)
    BY <2>2, <2>3, ChainedJoin
  <2> QED BY <2>1, <2>4
<1> HIDE DEF T, l
<1>6. \A k \in 0..l : k \in T
  BY <1>0, <1>4, <1>5, UpTo
<1>7. l \in T
  BY <1>0, <1>6
<1> QED BY <1>2, <1>3, <1>7 DEF T, l

\* What holds of the members of all the sequences holds of those of the joined one.
LEMMA FlattenAll ==
  ASSUME NEW ss, IsSeq(ss), NEW E,
         \A k \in 1..Len(ss) : IsSeq(ss[k]) /\ \A i \in 1..Len(ss[k]) : ss[k][i] \in E
  PROVE  IsSeq(FlattenSeq(ss)) /\ \A i \in 1..Len(FlattenSeq(ss)) : FlattenSeq(ss)[i] \in E
<1> DEFINE l == Len(ss)
           All(s) == IsSeq(s) /\ \A i \in 1..Len(s) : s[i] \in E
<1>0. l \in Nat
  BY DEF IsSeq
<1>2. PICK F : Flattens(F, ss) /\ FlattenSeq(ss) = F[l]
  BY FlattenIs
<1> DEFINE T == {k \in 0..l : All(F[k])}
<1>4. 0 \in T
  <2>1. F[0] = <<>>
    BY <1>2 DEF Flattens
  <2>2. All(F[0])
    BY <2>1, EmptyIsSeq
  <2> HIDE DEF All
  <2> QED BY <1>0, <2>2
<1>5. ASSUME NEW k \in 0..(l - 1), k \in T PROVE k + 1 \in T
  <2>1. k + 1 \in 1..l /\ k + 1 \in 0..l /\ (k + 1) - 1 = k
    BY <1>0
  <2>2. F[k + 1] = F[k] \o ss[k + 1]
    BY <1>2, <2>1 DEF Flattens
  <2>3. All(F[k]) /\ All(ss[k + 1])
    BY <1>5, <2>1
  <2>4. IsSeq(F[k] \o ss[k + 1])
    BY <2>3, JoinSeq
  <2>5. \A i \in 1..Len(F[k] \o ss[k + 1]) : (F[k] \o ss[k + 1])[i] \in E
    BY <2>3, JoinAll
  <2>6. All(F[k + 1])
    BY <2>2, <2>4, <2>5
  <2> HIDE DEF All
  <2> QED BY <2>1, <2>6
<1> HIDE DEF T, l
<1>6. \A k \in 0..l : k \in T
  BY <1>0, <1>4, <1>5, UpTo
<1>7. l \in T
  BY <1>0, <1>6
<1> QED BY <1>2, <1>7 DEF T, l

\* The members of a sequence, each a sequence of its own.
LEMMA FlattenOnes ==
  ASSUME NEW ms, IsSeq(ms)
  PROVE  FlattenSeq([i \in 1..Len(ms) |-> <<ms[i]>>]) = ms
<1> DEFINE l == Len(ms)
           ss == [i \in 1..l |-> <<ms[i]>>]
           First(k) == [i \in 1..k |-> ms[i]]
<1>0. l \in Nat
  BY DEF IsSeq
<1>1. IsSeq(ss) /\ Len(ss) = l /\ \A k \in 1..l : ss[k] = <<ms[k]>> /\ IsSeq(ss[k])
  <2>1. \A k \in 1..l : ss[k] = <<ms[k]>>
    OBVIOUS
  <2>2. ss = [i \in 1..l |-> ss[i]]
    OBVIOUS
  <2> HIDE DEF ss, l
  <2> QED BY <1>0, <2>1, <2>2, SeqIs, OneIsSeq
<1> HIDE DEF ss
<1>2. PICK F : Flattens(F, ss) /\ FlattenSeq(ss) = F[l]
  BY <1>1, FlattenIs
<1> DEFINE T == {k \in 0..l : F[k] = First(k)}
<1>3. 0 \in T
  <2>1. F[0] = <<>> /\ First(0) = <<>>
    BY <1>2 DEF Flattens
  <2> QED BY <1>0, <2>1
<1>4. ASSUME NEW k \in 0..(l - 1), k \in T PROVE k + 1 \in T
  <2> DEFINE f == First(k)
             x == <<ms[k + 1]>>
             g == f \o x
             h == First(k + 1)
  <2>1. k + 1 \in 1..l /\ k + 1 \in 0..l /\ (k + 1) - 1 = k /\ k \in Nat /\ k + 1 \in Nat
    BY <1>0
  <2>2. F[k + 1] = g
    <3>1. \A j \in 1..Len(ss) : F[j] = F[j - 1] \o ss[j]
      BY <1>2 DEF Flattens
    <3>2. F[k + 1] = F[k] \o ss[k + 1]
      BY <1>1, <2>1, <3>1
    <3>3. F[k] = f
      BY <1>4
    <3>4. ss[k + 1] = x
      BY <1>1, <2>1
    <3> QED BY <3>2, <3>3, <3>4
  <2>3. (\A i \in 1..k : f[i] = ms[i]) /\ f = [i \in 1..k |-> f[i]]
    OBVIOUS
  <2>4. (\A i \in 1..(k + 1) : h[i] = ms[i]) /\ h = [i \in 1..(k + 1) |-> h[i]]
    OBVIOUS
  <2>5. IsSeq(x) /\ Len(x) = 1 /\ x[1] = ms[k + 1]
    BY OneIsSeq
  <2> HIDE DEF f, x, h
  <2>6. IsSeq(f) /\ Len(f) = k /\ IsSeq(h) /\ Len(h) = k + 1
    BY <2>1, <2>3, <2>4, SeqIs
  <2>7. IsSeq(g) /\ IsJoin(g, f, x)
    BY <2>5, <2>6, JoinSeq
  <2> HIDE DEF g
  <2>8. Len(g) = k + 1 /\ (\A i \in 1..k : g[i] = f[i]) /\ g[k + 1] = ms[k + 1]
    BY <2>1, <2>5, <2>6, <2>7 DEF IsJoin
  <2>9. \A i \in 1..(k + 1) : g[i] = h[i]
    <3>1. \A i \in 1..(k + 1) : i \in 1..k \/ i = k + 1
      BY <2>1
    <3> QED BY <2>3, <2>4, <2>8, <3>1
  <2>10. g = h
    BY <2>6, <2>7, <2>8, <2>9, SameSeq
  <2> QED BY <2>1, <2>2, <2>10 DEF h
<1> HIDE DEF T
<1>5. \A k \in 0..l : k \in T
  <2> HIDE DEF l
  <2> QED BY <1>0, <1>3, <1>4, UpTo
<1>6. l \in T
  BY <1>0, <1>5
<1>7. F[l] = ms
  BY <1>6 DEF T, IsSeq
<1> QED BY <1>2, <1>7 DEF ss

-----------------------------------------------------------------------------
(* The binary log file                                                     *)

Writes == [m \in Message |-> Write(m)]

\* A stream of the binary forms of messages is a stream of these messages.
LEMMA ChainedPacked ==
  ASSUME NEW s, NEW ms, ms \in Seq(Message), Chained(s, ms, Writes)
  PROVE  Packed(s, Len(s), ms)
<1>1. PICK off : Strung(s, ms, Writes, off)
  BY DEF Chained
<1>2. Len(s) \in Nat /\ Len(ms) \in Nat /\ \A k \in 1..Len(ms) : ms[k] \in Message
  BY DEF Chained, IsSeq
<1>3. ASSUME NEW k \in 1..Len(ms)
      PROVE  off[k] = off[k - 1] + Size(ms[k]) /\ Fields(s, off[k - 1], ms[k])
  <2> DEFINE m == ms[k]
             t == Writes[m]
             p == off[k - 1]
  <2>1. m \in Message /\ t = Write(m)
    BY <1>2 DEF Writes
  <2>2. /\ off[k] = p + Len(t) /\ At(s, p, t) /\ p \in Nat
    <3>1. k - 1 \in 0..Len(ms)
      BY <1>2
    <3>2. p \in 0..Len(s)
      BY <1>1, <3>1 DEF Strung
    <3> QED BY <1>1, <1>2, <3>2 DEF Strung
  <2> HIDE DEF t, p, m
  <2>3. Len(t) = Size(m) /\ Fields(t, 0, m)
    BY <2>1, WriteIs
  <2>4. Agree(s, p, t, 0, Size(m))
    <3>1. Size(m) \in Nat
      BY <2>1, WriteIs
    <3>2. \A i \in 1..Size(m) : 0 + i = i
      BY <3>1
    <3> QED BY <2>2, <2>3, <3>2 DEF Agree, At
  <2>5. Fields(s, p, m)
    BY <2>1, <2>2, <2>3, <2>4, SameFields
  <2> QED BY <2>2, <2>3, <2>5 DEF p, m
<1>4. Offsets(s, Len(s), ms, off)
  <2>1. off[0] = 0 /\ off[Len(ms)] = Len(s) /\ \A k \in 0..Len(ms) : off[k] \in 0..Len(s)
    BY <1>1 DEF Strung
  <2> QED BY <1>3, <2>1 DEF Offsets
<1> QED BY <1>2, <1>4 DEF Packed

\* The binary forms of messages, joined.
LEMMA WritesJoined ==
  ASSUME NEW ms, ms \in Seq(Message)
  PROVE  Chained(FlattenSeq([i \in DOMAIN ms |-> Write(ms[i])]), ms, Writes)
<1> DEFINE l == Len(ms)
           ss == [i \in 1..l |-> Write(ms[i])]
           ts == [i \in 1..l |-> <<ms[i]>>]
<1>1. IsSeq(ms) /\ \A i \in 1..Len(ms) : ms[i] \in Message
  BY FromSeq
<1>2. l \in Nat /\ DOMAIN ms = 1..l
  BY <1>1 DEF IsSeq
<1>3. \A k \in 1..l : ss[k] = Write(ms[k]) /\ ts[k] = <<ms[k]>>
  OBVIOUS
<1>4. ss = [i \in 1..l |-> ss[i]] /\ ts = [i \in 1..l |-> ts[i]]
  OBVIOUS
<1>s. ss = [i \in DOMAIN ms |-> Write(ms[i])]
  BY <1>2
<1>t. FlattenSeq(ts) = ms
  BY <1>1, FlattenOnes
<1> HIDE DEF ss, ts, l
<1>5. IsSeq(ss) /\ IsSeq(ts) /\ Len(ss) = l /\ Len(ts) = l
  BY <1>2, <1>4, SeqIs
<1>6. ASSUME NEW k \in 1..l PROVE Chained(ss[k], ts[k], Writes)
  <2> DEFINE m == ms[k]
  <2>1. m \in Message
    BY <1>1 DEF l
  <2>2. Writes[m] = Write(m)
    BY <2>1 DEF Writes
  <2> HIDE DEF m
  <2>3. IsSeq(Write(m))
    <3>1. Size(m) \in Nat /\ Write(m) = [i \in 1..Size(m) |-> Write(m)[i]]
      BY <2>1, WriteIs
    <3> QED BY <3>1, SeqIs
  <2>4. Chained(Writes[m], <<m>>, Writes)
    BY <2>2, <2>3, ChainedOne
  <2> QED BY <1>3, <2>2, <2>4 DEF m
<1>7. Chained(FlattenSeq(ss), FlattenSeq(ts), Writes)
  BY <1>5, <1>6, FlattenChained
<1> QED BY <1>s, <1>t, <1>7

\* The binary log file has what the sinks got, in this order and nothing else.
FileInv == sunk \in Seq(Good) /\ Chained(logFile, sunk, Writes)

\* Messages with a valid origin are messages.
LEMMA GoodMessages == Seq(Good) \subseteq Seq(Message)
<1>1. Good \subseteq Message
  BY AllAreMessages DEF Good
<1> QED BY <1>1

\* The file is empty at first, and nothing has gone to the sinks.
LEMMA InitFileInv == PipelineInit => FileInv
BY ChainedNone DEF PipelineInit, FileInv

\* LogFile::Process appends to the file what goes to the sinks; no other step changes
\* it.
LEMMA StepFileInv == PacketInv /\ FileInv /\ [PipelineNext]_pipelineVars => FileInv'
<1> SUFFICES ASSUME PacketInv, FileInv, [PipelineNext]_pipelineVars PROVE FileInv'
  OBVIOUS
<1>1. CASE UNCHANGED <<sunk, logFile>>
  BY <1>1 DEF FileInv
<1>2. CASE Receive
  <2>1. PICK got : /\ got \in Seq(Good) /\ sunk' = sunk \o got
                   /\ logFile' = logFile \o FlattenSeq([i \in DOMAIN got |-> Write(got[i])])
    BY <1>2, ReceiveDelivers
  <2> DEFINE t == FlattenSeq([i \in DOMAIN got |-> Write(got[i])])
  <2>2. Chained(t, got, Writes)
    BY <2>1, GoodMessages, WritesJoined
  <2> HIDE DEF t
  <2>3. Chained(logFile \o t, sunk \o got, Writes)
    BY <2>2, ChainedJoin DEF FileInv
  <2>4. logFile' = logFile \o t
    BY <2>1 DEF t
  <2>5. Chained(logFile', sunk', Writes)
    BY <2>1, <2>3, <2>4
  <2>6. sunk' \in Seq(Good)
    BY <2>1 DEF FileInv
  <2> QED BY <2>5, <2>6 DEF FileInv
<1>3. CASE \E m \in Logged : RunAdd(m)
  BY <1>1, <1>3 DEF RunAdd
<1>4. CASE RunSend
  BY <1>1, <1>4 DEF RunSend
<1>5. CASE \E c \in Commands : Mclogger(c)
  BY <1>1, <1>5 DEF Mclogger
<1>6. CASE Lose
  BY <1>1, <1>6 DEF Lose
<1>7. CASE UNCHANGED pipelineVars
  BY <1>1, <1>7 DEF pipelineVars
<1> QED BY <1>2, <1>3, <1>4, <1>5, <1>6, <1>7 DEF PipelineNext

\* So that is what mclog reads from it.
LEMMA FileHasSunk == FileInv => ReadAll(logFile) = sunk
<1> SUFFICES ASSUME FileInv PROVE ReadAll(logFile) = sunk
  OBVIOUS
<1>1. sunk \in Seq(Good) /\ sunk \in Seq(Message) /\ Chained(logFile, sunk, Writes)
  BY GoodMessages DEF FileInv
<1>2. Len(logFile) \in Nat /\ Packed(logFile, Len(logFile), sunk)
  BY <1>1, ChainedPacked DEF Chained, IsSeq
<1>3. \A i \in 1..Len(sunk) : sunk[i] \in Good
  BY <1>1
<1>4. \A m \in Message : (\E i \in 1..Len(sunk) : sunk[i] = m) => (m \in Good <=> HasValidOrigin(m))
  BY <1>3 DEF Good
<1>5. ReadAll(logFile) = Prefix(sunk, Good)
  BY <1>1, <1>2, <1>4, MessagesRead
<1>6. PICK k \in 0..Len(sunk) : /\ Prefix(sunk, Good) = [i \in 1..k |-> sunk[i]]
                                /\ k < Len(sunk) => sunk[k + 1] \notin Good
  BY <1>1, PrefixIs
<1>7. k = Len(sunk)
  BY <1>1, <1>3, <1>6
<1> QED BY <1>1, <1>5, <1>6, <1>7

-----------------------------------------------------------------------------
(* A line of text                                                          *)

\* Sequences of three and of four members.
LEMMA ThreeIsSeq ==
  ASSUME NEW x, NEW y, NEW z
  PROVE  IsSeq(<<x, y, z>>) /\ Len(<<x, y, z>>) = 3
<1> DEFINE s == <<x, y, z>>
<1>1. s \in Seq({x, y, z}) /\ Len(s) = 3
  OBVIOUS
<1> HIDE DEF s
<1>2. s \in Seq({x, y, z})
  BY <1>1
<1>3. IsSeq(s)
  BY <1>2, FromSeq
<1> QED BY <1>1, <1>3 DEF s

\* The same of four.
LEMMA FourIsSeq ==
  ASSUME NEW x, NEW y, NEW z, NEW u
  PROVE  IsSeq(<<x, y, z, u>>) /\ Len(<<x, y, z, u>>) = 4
<1> DEFINE s == <<x, y, z, u>>
<1>1. s \in Seq({x, y, z, u}) /\ Len(s) = 4
  OBVIOUS
<1> HIDE DEF s
<1>2. s \in Seq({x, y, z, u})
  BY <1>1
<1>3. IsSeq(s)
  BY <1>2, FromSeq
<1> QED BY <1>1, <1>3 DEF s

\* The characters of a name or text.
LEMMA CharsIs ==
  ASSUME NEW x, IsSeq(x)
  PROVE  /\ IsSeq(Chars(x)) /\ Len(Chars(x)) = Len(x)
         /\ \A i \in 1..Len(x) : Chars(x)[i] = <<"char", x[i]>>
<1> DEFINE c == Chars(x)
<1>0. Len(x) \in Nat /\ DOMAIN x = 1..Len(x)
  BY DEF IsSeq
<1>1. c = [i \in 1..Len(x) |-> <<"char", x[i]>>]
  BY <1>0 DEF Chars
<1> HIDE DEF c
<1>2. c = [i \in 1..Len(x) |-> c[i]] /\ \A i \in 1..Len(x) : c[i] = <<"char", x[i]>>
  BY <1>1
<1>3. IsSeq(c) /\ Len(c) = Len(x)
  BY <1>0, <1>2, SeqIs
<1> QED BY <1>2, <1>3 DEF c

\* Where there is a sequence of two, there are both.
LEMMA AtSplit ==
  ASSUME NEW s, NEW p, NEW x, NEW y, NEW n, IsSeq(x), IsSeq(y), p \in Nat, n = Len(x),
         At(s, p, x \o y)
  PROVE  At(s, p, x) /\ At(s, p + n, y)
<1> DEFINE w == x \o y
<1>1. IsSeq(w) /\ IsJoin(w, x, y)
  BY JoinSeq
<1>2. At(s, p, w)
  OBVIOUS
<1> HIDE DEF w
<1>3. /\ Len(x) \in Nat /\ Len(y) \in Nat /\ Len(w) = Len(x) + Len(y)
      /\ \A i \in 1..Len(x) : w[i] = x[i]
      /\ \A i \in 1..Len(y) : w[Len(x) + i] = y[i]
  BY <1>1 DEF IsJoin, IsSeq
<1>4. \A i \in 1..Len(x) : i \in 1..Len(w)
  BY <1>3
<1>5. \A i \in 1..Len(y) : Len(x) + i \in 1..Len(w) /\ p + (Len(x) + i) = p + Len(x) + i
  BY <1>3
<1>6. At(s, p, x)
  BY <1>2, <1>3, <1>4 DEF At
<1>7. At(s, p + Len(x), y)
  BY <1>2, <1>3, <1>5 DEF At
<1> QED BY <1>6, <1>7

\* Where a stream has a sequence of one member, it has that member.
LEMMA AtOne ==
  ASSUME NEW s, NEW p, p \in Nat, NEW x, NEW t, t = <<x>>, At(s, p, t)
  PROVE  s[p + 1] = x
<1>1. Len(<<x>>) = 1 /\ <<x>>[1] = x
  BY OneIsSeq
<1> QED BY <1>1 DEF At

\* The same of three.
LEMMA AtThree ==
  ASSUME NEW s, NEW p, p \in Nat, NEW x, NEW y, NEW z, NEW t, t = <<x, y, z>>, At(s, p, t)
  PROVE  s[p + 1] = x /\ s[p + 2] = y /\ s[p + 3] = z
<1>1. Len(t) = 3 /\ t[1] = x /\ t[2] = y /\ t[3] = z
  OBVIOUS
<1> QED BY <1>1 DEF At

\* The same of four.
LEMMA AtFour ==
  ASSUME NEW s, NEW p, p \in Nat, NEW x, NEW y, NEW z, NEW u, NEW t,
         t = <<x, y, z, u>>, At(s, p, t)
  PROVE  s[p + 1] = x /\ s[p + 2] = y /\ s[p + 3] = z /\ s[p + 4] = u
<1>1. Len(t) = 4 /\ t[1] = x /\ t[2] = y /\ t[3] = z /\ t[4] = u
  OBVIOUS
<1> QED BY <1>1 DEF At

\* A sequence of this length.
Sized(w, k) == IsSeq(w) /\ Len(w) = k

\* The length of two sequences is the sum of theirs.
LEMMA JoinSized ==
  ASSUME NEW s, NEW t, NEW k, NEW l, Sized(s, k), Sized(t, l), NEW w, w = s \o t
  PROVE  Sized(w, k + l)
<1>1. IsSeq(s) /\ IsSeq(t) /\ Len(s) = k /\ Len(t) = l
  BY DEF Sized
<1>2. IsSeq(w) /\ IsJoin(w, s, t)
  BY <1>1, JoinSeq
<1> QED BY <1>1, <1>2 DEF Sized, IsJoin

\* Eight sequences one after the other, three of them of any length.
Laid(s, p, F, H, B, A, P, S, C, N, a, c, n) ==
  /\ At(s, p, F) /\ At(s, p + 4, H) /\ At(s, p + 4 + a, B) /\ At(s, p + 5 + a, A)
  /\ At(s, p + 5 + a + c, P) /\ At(s, p + 8 + a + c, S) /\ At(s, p + 11 + a + c, B)
  /\ At(s, p + 12 + a + c, C) /\ At(s, p + 12 + a + c + n, N)

\* The sequences that operator << of Message joins lie one behind the other.
LEMMA Layout ==
  ASSUME NEW a \in Nat, NEW c \in Nat, NEW n \in Nat,
         NEW F, IsSeq(F), Len(F) = 4, NEW H, IsSeq(H), Len(H) = a,
         NEW B, IsSeq(B), Len(B) = 1, NEW A, IsSeq(A), Len(A) = c,
         NEW P, IsSeq(P), Len(P) = 3, NEW S, IsSeq(S), Len(S) = 3,
         NEW C, IsSeq(C), Len(C) = n, NEW N, IsSeq(N), Len(N) = 1,
         NEW t, t = (((F \o (((H \o B) \o A) \o P)) \o S) \o B) \o C \o N
  PROVE  /\ IsSeq(t) /\ Len(t) = 13 + a + c + n
         /\ \A s : \A p \in Nat : At(s, p, t) => Laid(s, p, F, H, B, A, P, S, C, N, a, c, n)
<1> DEFINE o1 == H \o B
           o2 == o1 \o A
           o3 == o2 \o P
           h1 == F \o o3
           h2 == h1 \o S
           t1 == h2 \o B
           t2 == t1 \o C
           t3 == t2 \o N
<1>7. t = t3
  OBVIOUS
<1>8. /\ o1 = H \o B /\ o2 = o1 \o A /\ o3 = o2 \o P /\ h1 = F \o o3 /\ h2 = h1 \o S
      /\ t1 = h2 \o B /\ t2 = t1 \o C /\ t3 = t2 \o N
  OBVIOUS
<1> HIDE DEF o1, o2, o3, h1, h2, t1, t2, t3
<1>9. /\ Sized(F, 4) /\ Sized(H, a) /\ Sized(B, 1) /\ Sized(A, c) /\ Sized(P, 3)
      /\ Sized(S, 3) /\ Sized(C, n) /\ Sized(N, 1)
  BY DEF Sized
<1>10. Sized(o1, a + 1)
  BY <1>8, <1>9, JoinSized
<1>11. Sized(o2, (a + 1) + c)
  BY <1>8, <1>9, <1>10, JoinSized
<1>12. Sized(o3, ((a + 1) + c) + 3)
  BY <1>8, <1>9, <1>11, JoinSized
<1>13. Sized(o3, a + c + 4)
  <2>1. ((a + 1) + c) + 3 = a + c + 4
    OBVIOUS
  <2> QED BY <1>12, <2>1
<1>14. Sized(h1, a + c + 8)
  <2>1. Sized(h1, 4 + (a + c + 4))
    BY <1>8, <1>9, <1>13, JoinSized
  <2>2. 4 + (a + c + 4) = a + c + 8
    OBVIOUS
  <2> QED BY <2>1, <2>2
<1>15. Sized(h2, a + c + 11)
  <2>1. Sized(h2, (a + c + 8) + 3)
    BY <1>8, <1>9, <1>14, JoinSized
  <2>2. (a + c + 8) + 3 = a + c + 11
    OBVIOUS
  <2> QED BY <2>1, <2>2
<1>16. Sized(t1, a + c + 12)
  <2>1. Sized(t1, (a + c + 11) + 1)
    BY <1>8, <1>9, <1>15, JoinSized
  <2>2. (a + c + 11) + 1 = a + c + 12
    OBVIOUS
  <2> QED BY <2>1, <2>2
<1>17. Sized(t2, (a + c + 12) + n)
  BY <1>8, <1>9, <1>16, JoinSized
<1>18. Sized(t3, 13 + a + c + n)
  <2>1. Sized(t3, ((a + c + 12) + n) + 1)
    BY <1>8, <1>9, <1>17, JoinSized
  <2>2. ((a + c + 12) + n) + 1 = 13 + a + c + n
    OBVIOUS
  <2> QED BY <2>1, <2>2
<1>20. /\ IsSeq(o1) /\ Len(o1) = a + 1 /\ IsSeq(o2) /\ Len(o2) = (a + 1) + c
       /\ IsSeq(o3) /\ IsSeq(h1) /\ Len(h1) = a + c + 8 /\ IsSeq(h2) /\ Len(h2) = a + c + 11
       /\ IsSeq(t1) /\ Len(t1) = a + c + 12 /\ IsSeq(t2) /\ Len(t2) = (a + c + 12) + n
       /\ IsSeq(t3) /\ Len(t3) = 13 + a + c + n
  BY <1>10, <1>11, <1>13, <1>14, <1>15, <1>16, <1>17, <1>18 DEF Sized
<1>21. ASSUME NEW s, NEW p, p \in Nat, At(s, p, t3)
       PROVE  Laid(s, p, F, H, B, A, P, S, C, N, a, c, n)
  <2> DEFINE q0 == p + ((a + c + 12) + n)
             q1 == p + (a + c + 12)
             q2 == p + (a + c + 11)
             q3 == p + (a + c + 8)
             q4 == p + 4
             q5 == q4 + ((a + 1) + c)
             q6 == q4 + (a + 1)
             q7 == q4 + a
  <2>1. At(s, p, t2) /\ At(s, q0, N)
    BY <1>8, <1>20, <1>21, AtSplit
  <2>2. At(s, p, t1) /\ At(s, q1, C)
    BY <1>20, <1>21, <2>1, <1>8, AtSplit
  <2>3. At(s, p, h2) /\ At(s, q2, B)
    BY <1>20, <1>21, <2>2, <1>8, AtSplit
  <2>4. At(s, p, h1) /\ At(s, q3, S)
    BY <1>20, <1>21, <2>3, <1>8, AtSplit
  <2>5. At(s, p, F) /\ At(s, q4, o3)
    BY <1>20, <1>21, <2>4, <1>8, AtSplit
  <2>c. q4 \in Nat
    BY <1>21
  <2> HIDE DEF q4
  <2>6. At(s, q4, o2) /\ At(s, q5, P)
    BY <1>20, <2>5, <2>c, <1>8, AtSplit
  <2>7. At(s, q4, o1) /\ At(s, q6, A)
    BY <1>20, <2>6, <2>c, <1>8, AtSplit
  <2>8. At(s, q4, H) /\ At(s, q7, B)
    BY <2>7, <2>c, <1>8, AtSplit
  <2>a. /\ q0 \in Nat /\ q1 \in Nat /\ q2 \in Nat /\ q3 \in Nat
    BY <1>21
  <2>aa. q5 \in Nat /\ q6 \in Nat /\ q7 \in Nat
    BY <2>c
  <2>b. /\ q1 = p + 12 + a + c /\ q2 = p + 11 + a + c /\ q3 = p + 8 + a + c
        /\ q4 = p + 4 /\ q0 = p + 12 + a + c + n
    BY <1>21 DEF q4
  <2>bb. q5 = p + 5 + a + c /\ q6 = p + 5 + a /\ q7 = p + 4 + a
    BY <1>21 DEF q4
  <2> HIDE DEF q0, q1, q2, q3, q5, q6, q7
  <2> QED BY <2>1, <2>2, <2>3, <2>4, <2>5, <2>6, <2>7, <2>8, <2>b, <2>bb DEF Laid
<1> QED BY <1>7, <1>20, <1>21

OpenBracket == <<"char", "[">>
CloseBracket == <<"char", "]">>
Colon == <<"char", ":">>

\* What a line consists of, element by element: the time, the facility, the host
\* name, the name and the number of the process, the severity and the text.
Line(s, p, T, W, H, A, D, V, C, a, c, n) ==
  /\ s[p + 1] = T /\ s[p + 2] = Blank /\ s[p + 3] = W /\ s[p + 4] = Blank
  /\ \A i \in 1..a : s[p + 4 + i] = H[i]
  /\ s[p + 4 + a + 1] = Blank
  /\ \A i \in 1..c : s[p + 5 + a + i] = A[i]
  /\ s[p + 5 + a + c + 1] = OpenBracket
  /\ s[p + 5 + a + c + 2] = D
  /\ s[p + 5 + a + c + 3] = CloseBracket
  /\ s[p + 8 + a + c + 1] = Colon
  /\ s[p + 8 + a + c + 2] = Blank
  /\ s[p + 8 + a + c + 3] = V
  /\ s[p + 11 + a + c + 1] = Blank
  /\ \A i \in 1..n : s[p + 12 + a + c + i] = C[i]
  /\ s[p + 12 + a + c + n + 1] = Newline

\* Then the elements of a line are where they belong.
LEMMA LaidIsLine ==
  ASSUME NEW a \in Nat, NEW c \in Nat, NEW n \in Nat,
         NEW T, NEW W, NEW D, NEW V,
         NEW H, Len(H) = a, NEW A, Len(A) = c, NEW C, Len(C) = n,
         NEW s, NEW p, p \in Nat,
         NEW F, F = <<T, Blank, W, Blank>>, NEW B, B = <<Blank>>,
         NEW P, P = <<OpenBracket, D, CloseBracket>>, NEW S, S = <<Colon, Blank, V>>,
         NEW N, N = <<Newline>>,
         Laid(s, p, F, H, B, A, P, S, C, N, a, c, n)
  PROVE  Line(s, p, T, W, H, A, D, V, C, a, c, n)
<1>1. /\ At(s, p, F) /\ At(s, p + 4, H) /\ At(s, p + 4 + a, B) /\ At(s, p + 5 + a, A)
      /\ At(s, p + 5 + a + c, P) /\ At(s, p + 8 + a + c, S) /\ At(s, p + 11 + a + c, B)
      /\ At(s, p + 12 + a + c, C) /\ At(s, p + 12 + a + c + n, N)
  BY DEF Laid
<1>2. s[p + 1] = T /\ s[p + 2] = Blank /\ s[p + 3] = W /\ s[p + 4] = Blank
  BY <1>1, AtFour
<1>3. ASSUME NEW q \in Nat, At(s, q, B) PROVE s[q + 1] = Blank
  BY <1>3, AtOne
<1>4. ASSUME NEW q \in Nat, At(s, q, P)
      PROVE s[q + 1] = OpenBracket /\ s[q + 2] = D /\ s[q + 3] = CloseBracket
  BY <1>4, AtThree
<1>5. ASSUME NEW q \in Nat, At(s, q, S)
      PROVE s[q + 1] = Colon /\ s[q + 2] = Blank /\ s[q + 3] = V
  BY <1>5, AtThree
<1>a. ASSUME NEW q \in Nat, At(s, q, N) PROVE s[q + 1] = Newline
  BY <1>a, AtOne
<1>b. /\ p + 4 + a \in Nat /\ p + 5 + a + c \in Nat /\ p + 8 + a + c \in Nat
      /\ p + 11 + a + c \in Nat /\ p + 12 + a + c + n \in Nat
  OBVIOUS
<1>c. s[p + 4 + a + 1] = Blank /\ s[p + 11 + a + c + 1] = Blank
  BY <1>1, <1>3, <1>b, Zenon
<1>d. /\ s[p + 5 + a + c + 1] = OpenBracket /\ s[p + 5 + a + c + 2] = D
      /\ s[p + 5 + a + c + 3] = CloseBracket
  BY <1>1, <1>4, <1>b, Zenon
<1>e. /\ s[p + 8 + a + c + 1] = Colon /\ s[p + 8 + a + c + 2] = Blank
      /\ s[p + 8 + a + c + 3] = V
  BY <1>1, <1>5, <1>b, Zenon
<1>f. s[p + 12 + a + c + n + 1] = Newline
  BY <1>1, <1>a, <1>b, Zenon
<1>6. /\ \A i \in 1..a : s[p + 4 + i] = H[i]
      /\ \A i \in 1..c : s[p + 5 + a + i] = A[i]
      /\ \A i \in 1..n : s[p + 12 + a + c + i] = C[i]
  BY <1>1 DEF At
<1> QED BY <1>2, <1>6, <1>c, <1>d, <1>e, <1>f, Zenon DEF Line

\* The line of a message.
LineOf(s, p, m, a, c, n) ==
  Line(s, p, TimestampText(m.timestamp), <<"word", FacilityName(m.facility)>>,
       Chars(m.hostname), Chars(m.appname), <<"number", m.procid>>,
       <<"word", SeverityTag(m.severity)>>, Chars(m.message), a, c, n)

HasLine(m, a, c, n) ==
  /\ a \in Nat /\ c \in Nat /\ n \in Nat
  /\ IsSeq(Text(m)) /\ Len(Text(m)) = 13 + a + c + n
  /\ \A s : \A p \in Nat : At(s, p, Text(m)) => LineOf(s, p, m, a, c, n)

\* What operator << of Message prints is the line of the message.
LEMMA TextIs ==
  ASSUME NEW m, m \in Message, NEW a, a = Len(m.hostname), NEW c, c = Len(m.appname),
         NEW n, n = Len(m.message)
  PROVE  HasLine(m, a, c, n)
<1> DEFINE T == TimestampText(m.timestamp)
           W == <<"word", FacilityName(m.facility)>>
           D == <<"number", m.procid>>
           V == <<"word", SeverityTag(m.severity)>>
           H == Chars(m.hostname)
           A == Chars(m.appname)
           C == Chars(m.message)
           B == <<Blank>>
           N == <<Newline>>
           P == <<OpenBracket, D, CloseBracket>>
           F == <<T, Blank, W, Blank>>
           S == <<Colon, Blank, V>>
<1>1. IsSeq(m.hostname) /\ IsSeq(m.appname) /\ IsSeq(m.message)
  <2>1. m.hostname \in Seq(STRING) /\ m.appname \in Seq(STRING) /\ m.message \in Seq(STRING)
    BY MessageHas
  <2> QED BY <2>1, FromSeq
<1>2. a \in Nat /\ c \in Nat /\ n \in Nat
  BY <1>1 DEF IsSeq
<1>3. IsSeq(H) /\ Len(H) = a /\ IsSeq(A) /\ Len(A) = c /\ IsSeq(C) /\ Len(C) = n
  BY <1>1, CharsIs
<1>7. Text(m) = (((F \o (((H \o B) \o A) \o P)) \o S) \o B) \o C \o N
  BY Zenon DEF Text, HeaderText, OriginText, OpenBracket, CloseBracket, Colon
<1>s. ASSUME NEW s, NEW p, Line(s, p, T, W, H, A, D, V, C, a, c, n)
      PROVE  LineOf(s, p, m, a, c, n)
  BY <1>s, Zenon DEF LineOf
<1> HIDE DEF T, W, D, V, H, A, C
<1>4. IsSeq(B) /\ Len(B) = 1 /\ IsSeq(N) /\ Len(N) = 1
  BY OneIsSeq
<1>5. IsSeq(P) /\ Len(P) = 3 /\ IsSeq(S) /\ Len(S) = 3
  BY ThreeIsSeq
<1>6. IsSeq(F) /\ Len(F) = 4
  BY FourIsSeq
<1>f. /\ F = <<T, Blank, W, Blank>> /\ B = <<Blank>> /\ P = <<OpenBracket, D, CloseBracket>>
      /\ S = <<Colon, Blank, V>> /\ N = <<Newline>>
  OBVIOUS
<1> DEFINE t == Text(m)
<1> HIDE DEF B, N, P, F, S
<1>20. /\ IsSeq(t) /\ Len(t) = 13 + a + c + n
       /\ \A s : \A p \in Nat : At(s, p, t) => Laid(s, p, F, H, B, A, P, S, C, N, a, c, n)
  BY <1>2, <1>3, <1>4, <1>5, <1>6, <1>7, Layout
<1> HIDE DEF t
<1>21. ASSUME NEW s, NEW p, p \in Nat, At(s, p, t) PROVE LineOf(s, p, m, a, c, n)
  <2>1. Laid(s, p, F, H, B, A, P, S, C, N, a, c, n)
    BY <1>20, <1>21
  <2>2. Line(s, p, T, W, H, A, D, V, C, a, c, n)
    BY <1>2, <1>3, <1>f, <1>21, <2>1, LaidIsLine
  <2> QED BY <1>s, <2>2
<1> QED BY <1>2, <1>20, <1>21 DEF t, HasLine

-----------------------------------------------------------------------------
(* Words of a line                                                         *)

\* The minimum of a set is the member that exceeds no other.
LEMMA MinIs ==
  ASSUME NEW S, NEW x \in S, S \subseteq Nat, \A y \in S : x <= y
  PROVE  Min(S) = x
<1>1. x \in Nat /\ \A y \in S : y \in Nat
  OBVIOUS
<1>2. \E z \in S : \A y \in S : z <= y
  BY <1>1
<1>3. Min(S) \in S /\ \A y \in S : Min(S) <= y
  BY <1>2, Zenon DEF Min
<1>4. Min(S) \in Nat /\ Min(S) <= x /\ Min(S) >= x
  BY <1>1, <1>3
<1> QED BY <1>1, <1>4

\* Nothing stops before it, and it stops there.
Stops(stop, l, p, k) ==
  /\ l \in Nat /\ p \in Nat /\ k \in Nat /\ p + k < l
  /\ p + k \in stop
  /\ \A i \in 0..(k - 1) : p + i \notin stop

\* The least place at which to stop is the one Stops names.
LEMMA SkipIs ==
  ASSUME NEW stop, NEW l, NEW p, NEW k, Stops(stop, l, p, k)
  PROVE  Min({i \in p..l : i = l \/ i \in stop}) = p + k
<1> DEFINE S == {i \in p..l : i = l \/ i \in stop}
<1>1. /\ l \in Nat /\ p \in Nat /\ k \in Nat /\ p + k < l /\ p + k \in stop
      /\ \A i \in 0..(k - 1) : p + i \notin stop
  BY DEF Stops
<1>2. p + k \in S /\ S \subseteq Nat
  BY <1>1
<1>3. ASSUME NEW y \in S PROVE p + k <= y
  <2> SUFFICES ASSUME ~ (p + k <= y) PROVE FALSE
    OBVIOUS
  <2>1. y - p \in 0..(k - 1) /\ p + (y - p) = y /\ y # l /\ y \in stop
    BY <1>1
  <2> QED BY <1>1, <2>1
<1> HIDE DEF S
<1>4. Min(S) = p + k
  BY <1>2, <1>3, MinIs
<1> QED BY <1>4 DEF S

\* The words of a stream.
LEMMA SkipSpaceIs ==
  ASSUME NEW s, IsSeq(s), NEW p, p \in Nat, p + 1 < Len(s), IsSpace(s[p + 1]), ~ IsSpace(s[p + 2])
  PROVE  SkipSpace(s, p) = p + 1
<1> DEFINE l == Len(s)
           stop == {i \in 0..l : ~ IsSpace(s[i + 1])}
<1>1. l \in Nat
  BY DEF IsSeq
<1>2. Stops(stop, l, p, 1)
  <2>1. (p + 1) + 1 = p + 2 /\ \A i \in 0..(1 - 1) : p + i = p
    OBVIOUS
  <2> QED BY <1>1, <2>1 DEF Stops
<1>3. {i \in p..l : i = l \/ ~ IsSpace(s[i + 1])} = {i \in p..l : i = l \/ i \in stop}
  <2>1. p..l \subseteq 0..l
    BY <1>1
  <2> QED BY <2>1
<1> HIDE DEF stop
<1> QED BY <1>2, <1>3, SkipIs DEF SkipSpace

\* A word ends before the space behind it.
LEMMA SkipWordIs ==
  ASSUME NEW s, IsSeq(s), NEW p, p \in Nat, NEW k, k \in Nat, p + k < Len(s),
         \A i \in 1..k : ~ IsSpace(s[p + i]), IsSpace(s[p + k + 1])
  PROVE  SkipWord(s, p) = p + k
<1> DEFINE l == Len(s)
           stop == {i \in 0..l : IsSpace(s[i + 1])}
<1>1. l \in Nat
  BY DEF IsSeq
<1>2. Stops(stop, l, p, k)
  <2>1. \A i \in 0..(k - 1) : i + 1 \in 1..k /\ p + (i + 1) = (p + i) + 1
    OBVIOUS
  <2>2. \A i \in 0..(k - 1) : p + i \notin stop
    BY <2>1
  <2>3. p + k \in stop
    BY <1>1
  <2> HIDE DEF stop
  <2> QED BY <1>1, <2>2, <2>3 DEF Stops
<1>3. {i \in p..l : i = l \/ IsSpace(s[i + 1])} = {i \in p..l : i = l \/ i \in stop}
  <2>1. p..l \subseteq 0..l
    BY <1>1
  <2> QED BY <2>1
<1> HIDE DEF stop
<1> QED BY <1>2, <1>3, SkipIs DEF SkipWord

\* A line ends before its newline.
LEMMA SkipLineIs ==
  ASSUME NEW s, IsSeq(s), NEW p, p \in Nat, NEW k, k \in Nat, p + k < Len(s),
         \A i \in 1..k : s[p + i] # Newline, s[p + k + 1] = Newline
  PROVE  SkipLine(s, p) = p + k
<1> DEFINE l == Len(s)
           stop == {i \in 0..l : s[i + 1] = Newline}
<1>1. l \in Nat
  BY DEF IsSeq
<1>2. Stops(stop, l, p, k)
  <2>1. \A i \in 0..(k - 1) : i + 1 \in 1..k /\ p + (i + 1) = (p + i) + 1
    OBVIOUS
  <2>2. \A i \in 0..(k - 1) : p + i \notin stop
    BY <2>1
  <2>3. p + k \in stop
    BY <1>1
  <2> HIDE DEF stop
  <2> QED BY <1>1, <2>2, <2>3 DEF Stops
<1>3. {i \in p..l : i = l \/ s[i + 1] = Newline} = {i \in p..l : i = l \/ i \in stop}
  <2>1. p..l \subseteq 0..l
    BY <1>1
  <2> QED BY <2>1
<1> HIDE DEF stop
<1> QED BY <1>2, <1>3, SkipIs DEF SkipLine

\* After a blank: k elements that are no space, and then one that is.
HasWord(s, q, k) ==
  /\ q \in Nat /\ k \in Nat /\ k >= 1 /\ q + 1 + k < Len(s)
  /\ IsSpace(s[q + 1]) /\ IsSpace(s[q + 1 + k + 1])
  /\ \A i \in 1..k : ~ IsSpace(s[q + 1 + i])

\* operator >> of string finds these elements.
LEMMA WordIs ==
  ASSUME NEW s, IsSeq(s), NEW q, NEW k, HasWord(s, q, k)
  PROVE  WordEnd(s, q) = q + 1 + k /\ Word(s, q) = [i \in 1..k |-> s[q + 1 + i]]
<1> DEFINE E == {s[i] : i \in 1..Len(s)}
<1>1. /\ q \in Nat /\ k \in Nat /\ k >= 1 /\ q + 1 + k < Len(s) /\ Len(s) \in Nat
      /\ IsSpace(s[q + 1]) /\ IsSpace(s[q + 1 + k + 1])
      /\ \A i \in 1..k : ~ IsSpace(s[q + 1 + i])
  BY DEF HasWord, IsSeq
<1>2. SkipSpace(s, q) = q + 1
  <2>1. q + 1 < Len(s) /\ 1 \in 1..k /\ q + 1 + 1 = q + 2
    BY <1>1
  <2>2. ~ IsSpace(s[q + 2])
    BY <1>1, <2>1
  <2> QED BY <1>1, <2>1, <2>2, SkipSpaceIs
<1>3. SkipWord(s, q + 1) = q + 1 + k
  <2> DEFINE r == q + 1
  <2>1. r \in Nat
    BY <1>1
  <2>2. r + k < Len(s) /\ IsSpace(s[r + k + 1]) /\ \A i \in 1..k : ~ IsSpace(s[r + i])
    BY <1>1
  <2> HIDE DEF r
  <2>3. SkipWord(s, r) = r + k
    BY <1>1, <2>1, <2>2, SkipWordIs
  <2> QED BY <2>3 DEF r
<1>4. WordEnd(s, q) = q + 1 + k
  BY <1>2, <1>3 DEF WordEnd
<1>5. Word(s, q) = SubSeq(s, q + 1 + 1, q + 1 + k)
  BY <1>2, <1>4 DEF Word
<1>6. s \in Seq(E)
  <2>1. \A i \in 1..Len(s) : s[i] \in E
    OBVIOUS
  <2> HIDE DEF E
  <2> QED BY <2>1, InSeq
<1> HIDE DEF E
<1>7. SubSeq(s, q + 1 + 1, q + 1 + k) = [i \in 1..k |-> s[q + 1 + i]]
  <2> DEFINE t == SubSeq(s, q + 1 + 1, q + 1 + k)
  <2>1. t \in Seq(E) /\ Len(t) = k /\ \A i \in 1..k : t[i] = s[q + 1 + i]
    BY <1>1, <1>6
  <2> HIDE DEF t
  <2>2. t = [i \in 1..k |-> s[q + 1 + i]]
    BY <2>1
  <2> QED BY <2>2 DEF t
<1> QED BY <1>4, <1>5, <1>7

\* What is a space and what is not.
LEMMA SpaceIs ==
  ASSUME NEW x
  PROVE  /\ IsSpace(<<"char", x>>) <=> x \in SpaceChars
         /\ ~ IsSpace(<<"word", x>>) /\ ~ IsSpace(<<"number", x>>)
         /\ <<"char", x>> = Newline <=> x = "\n"
         /\ <<"char", x>> = OpenBracket <=> x = "["
         /\ <<"char", x>> = CloseBracket <=> x = "]"
BY DEF IsSpace, SpaceChars, Blank, Newline, OpenBracket, CloseBracket

\* The signs of a line that are spaces and those that are not.
LEMMA SignsAre ==
  /\ IsSpace(Blank) /\ IsSpace(Newline)
  /\ ~ IsSpace(OpenBracket) /\ ~ IsSpace(CloseBracket) /\ ~ IsSpace(Colon)
  /\ OpenBracket # CloseBracket /\ Colon # OpenBracket /\ Colon # CloseBracket
BY DEF IsSpace, SpaceChars, Blank, Newline, OpenBracket, CloseBracket, Colon

\* The characters of a name, and those of a text that is a line.
Lettered(x, k) ==
  k >= 1 /\ \A i \in 1..k : ~ IsSpace(x[i]) /\ x[i] # OpenBracket /\ x[i] # CloseBracket

OneLine(x, k) == k >= 1 /\ ~ IsSpace(x[1]) /\ \A i \in 1..k : x[i] # Newline

\* Where in a line there is a space and where none.
Spaced(s, p, a, c, n) ==
  /\ IsSpace(s[p + 2]) /\ ~ IsSpace(s[p + 3]) /\ IsSpace(s[p + 4])
  /\ \A i \in 1..a : ~ IsSpace(s[p + 4 + i])
  /\ IsSpace(s[p + 4 + a + 1])
  /\ \A i \in 1..(c + 4) : ~ IsSpace(s[p + 5 + a + i])
  /\ IsSpace(s[p + 8 + a + c + 2]) /\ ~ IsSpace(s[p + 8 + a + c + 3])
  /\ IsSpace(s[p + 11 + a + c + 1]) /\ ~ IsSpace(s[p + 12 + a + c + 1])
  /\ \A i \in 1..n : s[p + 12 + a + c + i] # Newline
  /\ s[p + 12 + a + c + n + 1] = Newline

\* In the line of a message, the spaces are only between the fields and in the text.
LEMMA LineSpaced ==
  ASSUME NEW a, a \in Nat, NEW c, c \in Nat, NEW n, n \in Nat, NEW T, NEW W, NEW D, NEW V,
         ~ IsSpace(W), ~ IsSpace(D), ~ IsSpace(V),
         NEW H, Lettered(H, a), NEW A, Lettered(A, c), NEW C, OneLine(C, n),
         NEW s, NEW p, p \in Nat, Line(s, p, T, W, H, A, D, V, C, a, c, n)
  PROVE  Spaced(s, p, a, c, n)
<1>1. /\ IsSpace(s[p + 2]) /\ ~ IsSpace(s[p + 3]) /\ IsSpace(s[p + 4])
      /\ IsSpace(s[p + 4 + a + 1])
      /\ IsSpace(s[p + 8 + a + c + 2]) /\ ~ IsSpace(s[p + 8 + a + c + 3])
      /\ IsSpace(s[p + 11 + a + c + 1])
      /\ s[p + 12 + a + c + n + 1] = Newline
  BY SignsAre, Zenon DEF Line
<1>2. \A i \in 1..a : ~ IsSpace(s[p + 4 + i])
  BY DEF Line, Lettered
<1>3. \A i \in 1..n : s[p + 12 + a + c + i] # Newline
  BY DEF Line, OneLine
<1>4. ~ IsSpace(s[p + 12 + a + c + 1])
  <2>1. 1 \in 1..n
    BY DEF OneLine
  <2> QED BY <2>1 DEF Line, OneLine
<1>5. \A i \in 1..(c + 4) : ~ IsSpace(s[p + 5 + a + i])
  <2> DEFINE q == p + 5 + a
  <2>1. \A i \in 1..c : ~ IsSpace(s[q + i])
    BY DEF Line, Lettered
  <2>2. /\ ~ IsSpace(s[q + c + 1]) /\ ~ IsSpace(s[q + c + 2])
        /\ ~ IsSpace(s[q + c + 3]) /\ ~ IsSpace(s[p + 8 + a + c + 1])
    BY SignsAre, Zenon DEF Line
  <2>3. p + 8 + a + c + 1 = q + c + 4 /\ q \in Nat
    OBVIOUS
  <2>4. ~ IsSpace(s[q + c + 4])
    BY <2>2, <2>3
  <2> HIDE DEF q
  <2>5. ASSUME NEW i \in 1..(c + 4) PROVE ~ IsSpace(s[q + i])
    <3>1. \/ i \in 1..c \/ q + i = q + c + 1 \/ q + i = q + c + 2
          \/ q + i = q + c + 3 \/ q + i = q + c + 4
      BY <2>3
    <3> QED BY <2>1, <2>2, <2>4, <3>1
  <2> QED BY <2>5 DEF q
<1> QED BY <1>1, <1>2, <1>3, <1>4, <1>5, Zenon DEF Spaced

\* The word after a position begins and ends here.
WordAt(s, q, r, k) == WordEnd(s, q) = r + k /\ Word(s, q) = [i \in 1..k |-> s[r + i]]

\* The same, the place behind the blank being named.
LEMMA WordFound ==
  ASSUME NEW s, IsSeq(s), NEW q, NEW k, HasWord(s, q, k), NEW r, r = q + 1
  PROVE  WordAt(s, q, r, k)
<1>1. WordEnd(s, q) = q + 1 + k /\ Word(s, q) = [i \in 1..k |-> s[q + 1 + i]]
  BY WordIs
<1> QED BY <1>1, Zenon DEF WordAt

\* What is found of the header of such a line.
HeaderIs(s, p, a, c) ==
  HeaderFields(s, p) =
    [facility |-> [i \in 1..1 |-> s[p + 2 + i]], host |-> [i \in 1..a |-> s[p + 4 + i]],
     process |-> [i \in 1..(c + 4) |-> s[p + 5 + a + i]],
     severity |-> [i \in 1..1 |-> s[p + 10 + a + c + i]], end |-> p + 11 + a + c]

\* operator >> of MessageHeader finds the fields.
LEMMA HeaderRead ==
  ASSUME NEW a, a \in Nat, a >= 1, NEW c, c \in Nat, NEW n, n \in Nat,
         NEW s, IsSeq(s), NEW p, p \in Nat, p + 13 + a + c + n <= Len(s), Spaced(s, p, a, c, n)
  PROVE  HeaderIs(s, p, a, c)
<1> DEFINE l == Len(s)
<1>0. l \in Nat
  BY DEF IsSeq
<1>1. WordEnd(s, p + 1) = p + 3 /\ Word(s, p + 1) = [i \in 1..1 |-> s[p + 2 + i]]
  <2>1. HasWord(s, p + 1, 1)
    BY <1>0 DEF HasWord, Spaced
  <2>2. p + 2 = (p + 1) + 1 /\ (p + 2) + 1 = p + 3 /\ p + 1 \in Nat
    OBVIOUS
  <2>3. WordAt(s, p + 1, p + 2, 1)
    BY <2>1, <2>2, WordFound
  <2> QED BY <2>2, <2>3 DEF WordAt
<1>2. WordEnd(s, p + 3) = p + 4 + a /\ Word(s, p + 3) = [i \in 1..a |-> s[p + 4 + i]]
  <2>1. HasWord(s, p + 3, a)
    BY <1>0 DEF HasWord, Spaced
  <2>2. p + 4 = (p + 3) + 1 /\ p + 3 \in Nat
    OBVIOUS
  <2>3. WordAt(s, p + 3, p + 4, a)
    BY <2>1, <2>2, WordFound
  <2> QED BY <2>2, <2>3 DEF WordAt
<1>3. /\ WordEnd(s, p + 4 + a) = p + 9 + a + c
      /\ Word(s, p + 4 + a) = [i \in 1..(c + 4) |-> s[p + 5 + a + i]]
  <2>1. HasWord(s, p + 4 + a, c + 4)
    BY <1>0 DEF HasWord, Spaced
  <2>2. /\ p + 5 + a = (p + 4 + a) + 1 /\ p + 4 + a \in Nat
        /\ p + 5 + a + (c + 4) = p + 9 + a + c /\ c + 4 \in Nat
    OBVIOUS
  <2>3. WordAt(s, p + 4 + a, p + 5 + a, c + 4)
    BY <2>1, <2>2, WordFound
  <2> QED BY <2>2, <2>3 DEF WordAt
<1>4. /\ WordEnd(s, p + 9 + a + c) = p + 11 + a + c
      /\ Word(s, p + 9 + a + c) = [i \in 1..1 |-> s[p + 10 + a + c + i]]
  <2>1. HasWord(s, p + 9 + a + c, 1)
    BY <1>0 DEF HasWord, Spaced
  <2>2. /\ p + 10 + a + c = (p + 9 + a + c) + 1 /\ p + 9 + a + c \in Nat
        /\ p + 10 + a + c + 1 = p + 11 + a + c
    OBVIOUS
  <2>3. WordAt(s, p + 9 + a + c, p + 10 + a + c, 1)
    BY <2>1, <2>2, WordFound
  <2> QED BY <2>2, <2>3 DEF WordAt
<1> QED BY <1>1, <1>2, <1>3, <1>4, Zenon DEF HeaderFields, HeaderIs

\* Where the text of the message is.
MessageIs(s, p, a, c, n) ==
  MessageAt(s, p) = p + 12 + a + c /\ MessageEnd(s, p) = p + 12 + a + c + n

\* operator >> of Message finds the text up to the newline.
LEMMA MessageFound ==
  ASSUME NEW a, a \in Nat, a >= 1, NEW c, c \in Nat, NEW n, n \in Nat, n >= 1,
         NEW s, IsSeq(s), NEW p, p \in Nat, p + 13 + a + c + n <= Len(s), Spaced(s, p, a, c, n),
         HeaderIs(s, p, a, c)
  PROVE  MessageIs(s, p, a, c, n)
<1> DEFINE l == Len(s)
<1>0. l \in Nat
  BY DEF IsSeq
<1>1. SkipSpace(s, p + 11 + a + c) = p + 12 + a + c
  <2> DEFINE q == p + 11 + a + c
  <2>1. q \in Nat /\ q + 1 < l /\ q + 1 = p + 12 + a + c /\ q + 2 = p + 12 + a + c + 1
    BY <1>0
  <2>2. IsSpace(s[q + 1]) /\ ~ IsSpace(s[q + 2])
    BY <2>1 DEF Spaced
  <2> HIDE DEF q
  <2>3. SkipSpace(s, q) = q + 1
    BY <2>1, <2>2, SkipSpaceIs
  <2> QED BY <2>1, <2>3 DEF q
<1>2. MessageAt(s, p) = p + 12 + a + c
  <2>1. HeaderFields(s, p).end = p + 11 + a + c
    BY DEF HeaderIs
  <2> QED BY <1>1, <2>1, Zenon DEF MessageAt
<1>3. SkipLine(s, p + 12 + a + c) = p + 12 + a + c + n
  <2> DEFINE q == p + 12 + a + c
  <2>1. q \in Nat /\ q + n < l
    BY <1>0
  <2>2. s[q + n + 1] = Newline /\ \A i \in 1..n : s[q + i] # Newline
    BY DEF Spaced
  <2> HIDE DEF q
  <2>3. SkipLine(s, q) = q + n
    BY <2>1, <2>2, SkipLineIs
  <2> QED BY <2>3 DEF q
<1> QED BY <1>2, <1>3 DEF MessageEnd, MessageIs

-----------------------------------------------------------------------------
(* What a field is read as                                                 *)

\* Two facilities have two names.
LEMMA FacilityRead ==
  ASSUME NEW f, f \in DOMAIN FacilityNames
  PROVE  FacilityValue(FacilityName(f)) = f
<1> DEFINE N == FacilityNames
           Dom == (0..11) \cup (16..23)
<1>1. DOMAIN N = Dom
  BY DEF FacilityNames
<1>2. /\ N[0] = "kernel" /\ N[1] = "user" /\ N[2] = "mail" /\ N[3] = "daemon"
      /\ N[4] = "auth" /\ N[5] = "syslog" /\ N[6] = "lpr" /\ N[7] = "news"
      /\ N[8] = "uucp" /\ N[9] = "cron" /\ N[10] = "authpriv" /\ N[11] = "ftp"
  BY DEF FacilityNames
<1>3. /\ N[16] = "local0" /\ N[17] = "local1" /\ N[18] = "local2" /\ N[19] = "local3"
      /\ N[20] = "local4" /\ N[21] = "local5" /\ N[22] = "local6" /\ N[23] = "local7"
  BY DEF FacilityNames
<1> HIDE DEF N
<1>4. ASSUME NEW g, g \in Dom, NEW h, h \in Dom, N[g] = N[h] PROVE g = h
  <2>1. /\ g \in {0, 1, 2, 3, 4, 5, 6, 7, 8, 9, 10, 11, 16, 17, 18, 19, 20, 21, 22, 23}
        /\ h \in {0, 1, 2, 3, 4, 5, 6, 7, 8, 9, 10, 11, 16, 17, 18, 19, 20, 21, 22, 23}
    BY <1>4
  <2> QED BY <1>2, <1>3, <1>4, <2>1
<1> DEFINE name == N[f]
           Is(g) == g \in DOMAIN N /\ N[g] = name
<1>5. FacilityName(f) = name
  BY DEF FacilityName, N
<1> DEFINE v == CHOOSE g \in DOMAIN N : N[g] = name
<1>6. v \in DOMAIN N /\ N[v] = name
  <2>1. \E g \in DOMAIN N : N[g] = name
    BY DEF N
  <2> HIDE DEF name
  <2> QED BY <2>1, Zenon
<1>7. FacilityValue(name) = v
  <2>1. \E g \in DOMAIN N : N[g] = name
    BY <1>6
  <2> HIDE DEF name
  <2> QED BY <2>1, Zenon DEF FacilityValue, N
<1> HIDE DEF v
<1>8. v = f
  <2>1. f \in DOMAIN N
    BY DEF N
  <2> QED BY <1>1, <1>4, <1>6, <2>1
<1> QED BY <1>5, <1>7, <1>8

\* Two severities have two abbreviations.
LEMMA SeverityRead ==
  ASSUME NEW v, v \in 0..7
  PROVE  /\ v + 1 \in DOMAIN SeverityTags /\ SeverityTag(v) = SeverityTags[v + 1]
         /\ (CHOOSE w \in DOMAIN SeverityTags : SeverityTags[w] = SeverityTag(v)) = v + 1
<1> DEFINE N == SeverityTags
<1>1. DOMAIN N = 1..8 /\ v + 1 \in 1..8
  BY DEF SeverityTags
<1>2. /\ N[1] = "[M]" /\ N[2] = "[A]" /\ N[3] = "[C]" /\ N[4] = "[E]"
      /\ N[5] = "[W]" /\ N[6] = "[N]" /\ N[7] = "[I]" /\ N[8] = "[D]"
  BY DEF SeverityTags
<1>3. SeverityTag(v) = N[v + 1]
  BY DEF SeverityTag, emerg, debug
<1> HIDE DEF N
<1>4. ASSUME NEW g, g \in 1..8, NEW h, h \in 1..8, N[g] = N[h] PROVE g = h
  <2>1. g \in {1, 2, 3, 4, 5, 6, 7, 8} /\ h \in {1, 2, 3, 4, 5, 6, 7, 8}
    BY <1>4
  <2> QED BY <1>2, <1>4, <2>1
<1> DEFINE tag == SeverityTag(v)
           u == CHOOSE w \in DOMAIN N : N[w] = tag
<1>5. u \in DOMAIN N /\ N[u] = tag
  <2>1. \E w \in DOMAIN N : N[w] = tag
    BY <1>1, <1>3
  <2> HIDE DEF tag
  <2> QED BY <2>1, Zenon
<1>6. u = CHOOSE w \in DOMAIN SeverityTags : SeverityTags[w] = SeverityTag(v)
  BY DEF N
<1> HIDE DEF u
<1>7. u = v + 1
  BY <1>1, <1>3, <1>4, <1>5
<1>8. v + 1 \in DOMAIN SeverityTags /\ SeverityTag(v) = SeverityTags[v + 1]
  BY <1>1, <1>3 DEF N
<1> QED BY <1>6, <1>7, <1>8

\* Local time and what it is ahead by give the time again.
LEMMA TimeRead ==
  ASSUME NEW t, t \in DOMAIN Zone
  PROVE  TimestampText(t)[1] = "time" /\ ToMicroseconds(TimestampText(t)[2]) = t /\ t \in Nat
<1>1. t \in Nat /\ Zone[t] \in Int
  BY MessageCodecAssumption
<1> DEFINE z == Zone[t]
           k == t + Zone[t]
<1>2. TimestampText(t) = <<"time", [clock |-> k, zone |-> z]>>
  BY DEF TimestampText
<1>3. k - z = t
  BY <1>1
<1> HIDE DEF k, z
<1>4. ToMicroseconds([clock |-> k, zone |-> z]) = t
  BY <1>3 DEF ToMicroseconds
<1>5. TimestampText(t)[1] = "time" /\ TimestampText(t)[2] = [clock |-> k, zone |-> z]
  BY <1>2
<1> QED BY <1>1, <1>4, <1>5

\* A sequence that has members is not empty.
LEMMA NotEmpty ==
  ASSUME NEW x, IsSeq(x), x # <<>>
  PROVE  Len(x) \in Nat /\ Len(x) >= 1 /\ 1 \in 1..Len(x) /\ DOMAIN x = 1..Len(x)
<1>1. Len(x) \in Nat /\ DOMAIN x = 1..Len(x)
  BY DEF IsSeq
<1>2. Len(x) # 0
  <2> SUFFICES ASSUME Len(x) = 0 PROVE FALSE
    OBVIOUS
  <2> DEFINE e == <<>>
  <2>1. IsSeq(e) /\ Len(e) = 0 /\ x # e
    BY EmptyIsSeq
  <2> HIDE DEF e
  <2>2. \A i \in 1..Len(x) : x[i] = e[i]
    OBVIOUS
  <2> QED BY <2>1, <2>2, SameSeq
<1> QED BY <1>1, <1>2

\* A name with only valid characters has neither spaces nor brackets.
LEMMA NameLettered ==
  ASSUME NEW x, IsSeq(x), x # <<>>, NEW R, ToSet(x) \subseteq R,
         R \subseteq {"a", "b", "-", ".", "_"}
  PROVE  Lettered(Chars(x), Len(x))
<1> DEFINE C == Chars(x)
           l == Len(x)
<1>1. l \in Nat /\ l >= 1 /\ DOMAIN x = 1..l
  BY NotEmpty
<1>2. \A i \in 1..l : C[i] = <<"char", x[i]>>
  BY CharsIs
<1> HIDE DEF C
<1>3. ASSUME NEW i \in 1..l
      PROVE  ~ IsSpace(C[i]) /\ C[i] # OpenBracket /\ C[i] # CloseBracket
  <2> DEFINE e == x[i]
  <2>1. e \in {"a", "b", "-", ".", "_"}
    BY <1>1 DEF ToSet
  <2>2. C[i] = <<"char", e>>
    BY <1>2
  <2> HIDE DEF e
  <2>3. e \notin SpaceChars /\ e # "[" /\ e # "]"
    BY <2>1 DEF SpaceChars
  <2> QED BY <2>2, <2>3, SpaceIs
<1> HIDE DEF l
<1>4. Lettered(C, l)
  BY <1>1, <1>3 DEF Lettered
<1> QED BY <1>4 DEF C, l

\* A text that does not begin with a space and has no newline is one line.
LEMMA TextOneLine ==
  ASSUME NEW x, IsSeq(x), x # <<>>, x[1] \notin SpaceChars, ~ Contains(x, "\n")
  PROVE  OneLine(Chars(x), Len(x))
<1> DEFINE C == Chars(x)
           l == Len(x)
<1>1. l \in Nat /\ l >= 1 /\ 1 \in 1..l /\ DOMAIN x = 1..l
  BY NotEmpty
<1>2. \A i \in 1..l : C[i] = <<"char", x[i]>>
  BY CharsIs
<1> HIDE DEF C
<1>3. \A i \in 1..l : x[i] # "\n"
  BY <1>1 DEF Contains
<1>4. \A i \in 1..l : C[i] # Newline
  <2> SUFFICES ASSUME NEW i \in 1..l PROVE C[i] # Newline
    OBVIOUS
  <2> DEFINE e == x[i]
  <2>1. C[i] = <<"char", e>> /\ e # "\n"
    BY <1>2, <1>3
  <2> HIDE DEF e
  <2>2. <<"char", e>> # Newline
    BY <2>1, SpaceIs
  <2> QED BY <2>1, <2>2
<1>5. ~ IsSpace(C[1])
  <2>1. C[1] = <<"char", x[1]>>
    BY <1>1, <1>2
  <2> QED BY <2>1, SpaceIs
<1> HIDE DEF l
<1>6. OneLine(C, l)
  BY <1>1, <1>4, <1>5 DEF OneLine
<1> QED BY <1>6 DEF C, l

\* The first place of a sign in a word.
FirstAt(P, k, e) == k \in 1..Len(P) /\ P[k] = e /\ \A i \in 1..(k - 1) : P[i] # e

\* Find gives the place of the first such character.
LEMMA FindIs ==
  ASSUME NEW P, IsSeq(P), NEW ch, NEW e, e = <<"char", ch>>, NEW k, FirstAt(P, k, e)
  PROVE  Find(P, ch) = k
<1> DEFINE l == Len(P)
           S == {i \in DOMAIN P : P[i] = e} \cup {l + 1}
<1>0. k \in 1..Len(P) /\ P[k] = e /\ \A i \in 1..(k - 1) : P[i] # e
  BY DEF FirstAt
<1>1. l \in Nat /\ DOMAIN P = 1..l
  BY DEF IsSeq
<1>2. k \in S /\ S \subseteq Nat
  BY <1>0, <1>1
<1>3. \A y \in S : k <= y
  <2> SUFFICES ASSUME NEW y \in S, ~ (k <= y) PROVE FALSE
    OBVIOUS
  <2>1. y \in 1..(k - 1) /\ P[y] = e
    BY <1>0, <1>1
  <2> QED BY <1>0, <2>1
<1>4. Find(P, ch) = Min(S)
  BY Zenon DEF Find
<1> HIDE DEF S
<1> QED BY <1>2, <1>3, <1>4, MinIs

\* Find for the two brackets that operator >> of MessageOrigin looks for.
LEMMA FindSigns ==
  ASSUME NEW P, IsSeq(P), NEW k
  PROVE  /\ FirstAt(P, k, OpenBracket) => Find(P, "[") = k
         /\ FirstAt(P, k, CloseBracket) => Find(P, "]") = k
<1>1. OpenBracket = <<"char", "[">> /\ CloseBracket = <<"char", "]">>
  BY DEF OpenBracket, CloseBracket
<1> QED BY <1>1, FindIs

\* What the process is found to be: a name, and a number in brackets.
ProcessIs(P, A, c, D) ==
  Find(P, "[") = c + 1 /\ Find(P, "]") = c + 3 /\ Len(P) = c + 4 /\ P[c + 2] = D /\ \A i \in 1..c : P[i] = A[i]

\* operator >> of MessageOrigin finds the name before the first bracket and the number
\* in the brackets.
LEMMA ProcessRead ==
  ASSUME NEW a, a \in Nat, NEW c, c \in Nat, NEW n, n \in Nat, NEW T, NEW W, NEW D, NEW V,
         D # OpenBracket, D # CloseBracket,
         NEW H, NEW A, Lettered(A, c), NEW C,
         NEW s, NEW p, p \in Nat, Line(s, p, T, W, H, A, D, V, C, a, c, n),
         NEW P, P = [i \in 1..(c + 4) |-> s[p + 5 + a + i]]
  PROVE  ProcessIs(P, A, c, D)
<1> DEFINE q == p + 5 + a
           l == c + 4
<1>1. /\ (\A i \in 1..c : s[q + i] = A[i])
      /\ s[q + c + 1] = OpenBracket /\ s[q + c + 2] = D /\ s[q + c + 3] = CloseBracket
  BY DEF Line
<1>2. l \in Nat /\ q \in Nat /\ P = [i \in 1..l |-> P[i]] /\ \A i \in 1..l : P[i] = s[q + i]
  OBVIOUS
<1>3. IsSeq(P) /\ Len(P) = l
  BY <1>2, SeqIs
<1> HIDE DEF q
<1>4. /\ \A i \in 1..c : P[i] = A[i]
      /\ P[c + 1] = OpenBracket /\ P[c + 2] = D /\ P[c + 3] = CloseBracket
  <2>1. /\ \A i \in 1..c : i \in 1..l
        /\ c + 1 \in 1..l /\ c + 2 \in 1..l /\ c + 3 \in 1..l
        /\ q + (c + 1) = q + c + 1 /\ q + (c + 2) = q + c + 2 /\ q + (c + 3) = q + c + 3
    BY <1>2
  <2> QED BY <1>1, <1>2, <2>1
<1>8. \A i \in 1..c : P[i] # OpenBracket /\ P[i] # CloseBracket
  <2> SUFFICES ASSUME NEW i \in 1..c PROVE P[i] # OpenBracket /\ P[i] # CloseBracket
    OBVIOUS
  <2>1. P[i] = A[i]
    BY <1>4
  <2>2. A[i] # OpenBracket /\ A[i] # CloseBracket
    BY DEF Lettered
  <2> QED BY <2>1, <2>2
<1>5. Find(P, "[") = c + 1
  <2>1. c + 1 \in 1..Len(P) /\ \A i \in 1..((c + 1) - 1) : i \in 1..c
    BY <1>3
  <2>2. \A i \in 1..((c + 1) - 1) : P[i] # OpenBracket
    BY <1>4, <1>8, <2>1, Zenon
  <2> DEFINE k == c + 1
  <2>3. k \in 1..Len(P) /\ P[k] = OpenBracket /\ \A i \in 1..(k - 1) : P[i] # OpenBracket
    BY <1>4, <2>1, <2>2
  <2> HIDE DEF k
  <2>4. FirstAt(P, k, OpenBracket)
    BY <2>3 DEF FirstAt
  <2>5. Find(P, "[") = k
    BY <1>3, <2>4, FindSigns
  <2> QED BY <2>5 DEF k
<1>6. Find(P, "]") = c + 3
  <2>1. c + 3 \in 1..Len(P) /\ \A i \in 1..((c + 3) - 1) : i \in 1..c \/ i = c + 1 \/ i = c + 2
    BY <1>3
  <2>2. ASSUME NEW i \in 1..((c + 3) - 1) PROVE P[i] # CloseBracket
    <3>1. CASE i \in 1..c
      BY <1>8, <3>1, Zenon
    <3>2. CASE i = c + 1
      BY <1>4, <3>2, SignsAre, Zenon
    <3>3. CASE i = c + 2
      BY <1>4, <3>3, Zenon
    <3> QED BY <2>1, <3>1, <3>2, <3>3, Zenon
  <2> DEFINE k == c + 3
  <2>3. k \in 1..Len(P) /\ P[k] = CloseBracket /\ \A i \in 1..(k - 1) : P[i] # CloseBracket
    BY <1>4, <2>1, <2>2
  <2> HIDE DEF k
  <2>4. FirstAt(P, k, CloseBracket)
    BY <2>3 DEF FirstAt
  <2>5. Find(P, "]") = k
    BY <1>3, <2>4, FindSigns
  <2> QED BY <2>5 DEF k
<1> QED BY <1>3, <1>4, <1>5, <1>6 DEF ProcessIs

\* The line of a message that is one line and has a valid origin is read as it.
IsReadAs(s, p, m, k) ==
  ParsesLine(s, p) /\ ParseLine(s, p) = m /\ Min({MessageEnd(s, p) + 1, Len(s)}) = p + k

\* So operator >> of Message gives back what operator << was given.
LEMMA LineRead ==
  ASSUME NEW m, m \in Message, HasValidOrigin(m), HasOneLine(m),
         NEW s, IsSeq(s), NEW p, p \in Nat, p + Len(Text(m)) <= Len(s), At(s, p, Text(m))
  PROVE  IsReadAs(s, p, m, Len(Text(m)))
<1> DEFINE a == Len(m.hostname)
           c == Len(m.appname)
           n == Len(m.message)
           k == Len(Text(m))
           T == TimestampText(m.timestamp)
           W == <<"word", FacilityName(m.facility)>>
           D == <<"number", m.procid>>
           V == <<"word", SeverityTag(m.severity)>>
           H == Chars(m.hostname)
           A == Chars(m.appname)
           C == Chars(m.message)
<1>1. /\ a \in Nat /\ c \in Nat /\ n \in Nat /\ k = 13 + a + c + n
      /\ LineOf(s, p, m, a, c, n)
  <2>1. HasLine(m, a, c, n)
    BY TextIs
  <2> HIDE DEF a, c, n
  <2> QED BY <2>1 DEF HasLine
<1>2. IsSeq(m.hostname) /\ IsSeq(m.appname) /\ IsSeq(m.message)
  <2>1. m.hostname \in Seq(STRING) /\ m.appname \in Seq(STRING) /\ m.message \in Seq(STRING)
    BY MessageHas
  <2> QED BY <2>1, FromSeq
<1>3. Line(s, p, T, W, H, A, D, V, C, a, c, n)
  BY <1>1, Zenon DEF LineOf
<1>4. Lettered(H, a) /\ Lettered(A, c)
  <2>1. Alnum \cup {"-", "."} \subseteq {"a", "b", "-", ".", "_"}
        /\ Alnum \cup {"_", ".", "-"} \subseteq {"a", "b", "-", ".", "_"}
    BY DEF Alnum
  <2>2. /\ m.hostname # <<>> /\ ToSet(m.hostname) \subseteq Alnum \cup {"-", "."}
        /\ m.appname # <<>> /\ ToSet(m.appname) \subseteq Alnum \cup {"_", ".", "-"}
    BY Zenon DEF HasValidOrigin, IsValidHostname, IsValidAppName
  <2>3. Lettered(H, a)
    BY <1>2, <2>1, <2>2, NameLettered, Zenon
  <2>4. Lettered(A, c)
    BY <1>2, <2>1, <2>2, NameLettered, Zenon
  <2> QED BY <2>3, <2>4
<1>5. OneLine(C, n)
  BY <1>2, TextOneLine, Zenon DEF HasOneLine
<1>6. ~ IsSpace(W) /\ ~ IsSpace(D) /\ ~ IsSpace(V) /\ D # OpenBracket /\ D # CloseBracket
  BY SpaceIs DEF OpenBracket, CloseBracket
<1>7. W[2] = FacilityName(m.facility) /\ D[2] = m.procid /\ V[2] = SeverityTag(m.severity)
  OBVIOUS
<1>8. /\ \A i \in 1..a : H[i][2] = m.hostname[i]
      /\ \A i \in 1..c : A[i][2] = m.appname[i]
      /\ \A i \in 1..n : C[i][2] = m.message[i]
  <2> DEFINE U(x) == \A i \in 1..Len(x) : Chars(x)[i][2] = x[i]
  <2>1. ASSUME NEW x, IsSeq(x) PROVE U(x)
    <3>1. \A i \in 1..Len(x) : Chars(x)[i] = <<"char", x[i]>>
      BY <2>1, CharsIs
    <3> QED BY <3>1
  <2> HIDE DEF U
  <2>2. U(m.hostname) /\ U(m.appname) /\ U(m.message)
    BY <1>2, <2>1
  <2> QED BY <2>2 DEF U
<1>9. /\ T[1] = "time" /\ ToMicroseconds(T[2]) = m.timestamp /\ m.timestamp \in Nat
      /\ m.timestamp # 0
  <2>1. m.timestamp \in DOMAIN Zone
    BY MessageHas
  <2> QED BY <2>1, TimeRead DEF HasOneLine
<1>10. FacilityValue(FacilityName(m.facility)) = m.facility
  <2>1. m.facility \in DOMAIN FacilityNames
    BY MessageHas
  <2> QED BY <2>1, FacilityRead
<1>11. /\ m.severity \in 0..7 /\ m.severity + 1 \in DOMAIN SeverityTags
       /\ SeverityTag(m.severity) = SeverityTags[m.severity + 1]
       /\ (CHOOSE w \in DOMAIN SeverityTags : SeverityTags[w] = SeverityTag(m.severity)) = m.severity + 1
  <2>1. m.severity \in 0..7
    BY MessageHas
  <2> QED BY <2>1, SeverityRead
<1>12. n <= MaxText /\ a <= MaxName /\ c < MaxName
  BY MessageHas DEF HasOneLine
<1>13. /\ m.hostname = [i \in 1..a |-> m.hostname[i]]
       /\ m.appname = [i \in 1..c |-> m.appname[i]]
       /\ m.message = [i \in 1..n |-> m.message[i]]
  BY <1>2 DEF IsSeq
<1>k. k = Len(Text(m))
  OBVIOUS
<1> HIDE DEF T, W, D, V, H, A, C, a, c, n, k
<1>14. Spaced(s, p, a, c, n)
  BY <1>1, <1>3, <1>4, <1>5, <1>6, LineSpaced
<1>15. a >= 1 /\ n >= 1 /\ p + 13 + a + c + n <= Len(s)
  <2>1. p + (13 + a + c + n) <= Len(s)
    BY <1>1, <1>k
  <2>2. Len(s) \in Nat
    BY DEF IsSeq
  <2> QED BY <1>1, <1>4, <1>5, <2>1, <2>2 DEF Lettered, OneLine
<1> DEFINE f == HeaderFields(s, p)
           F == [i \in 1..1 |-> s[p + 2 + i]]
           O == [i \in 1..a |-> s[p + 4 + i]]
           P == [i \in 1..(c + 4) |-> s[p + 5 + a + i]]
           S == [i \in 1..1 |-> s[p + 10 + a + c + i]]
<1>16. f = [facility |-> F, host |-> O, process |-> P, severity |-> S, end |-> p + 11 + a + c]
  <2>1. HeaderIs(s, p, a, c)
    BY <1>1, <1>14, <1>15, HeaderRead
  <2> QED BY <2>1, Zenon DEF HeaderIs
<1> HIDE DEF f
<1>17. f.facility = F /\ f.host = O /\ f.process = P /\ f.severity = S /\ f.end = p + 11 + a + c
  <2> HIDE DEF F, O, P, S
  <2> QED BY <1>16
<1>18. F[1] = W /\ S = <<V>> /\ S[1] = V
  <2>1. F[1] = s[p + 3] /\ S = <<s[p + 10 + a + c + 1]>>
    OBVIOUS
  <2>2. p + 10 + a + c + 1 = p + 8 + a + c + 3
    BY <1>1
  <2>3. s[p + 3] = W /\ s[p + 8 + a + c + 3] = V
    BY <1>3 DEF Line
  <2> HIDE DEF F, S
  <2> QED BY <2>1, <2>2, <2>3
<1>19. O = [i \in 1..a |-> H[i]]
  BY <1>3 DEF Line
<1>20. /\ Find(P, "[") = c + 1 /\ Find(P, "]") = c + 3 /\ Len(P) = c + 4
       /\ P[c + 2] = D /\ \A i \in 1..c : P[i] = A[i]
  <2>1. P = [i \in 1..(c + 4) |-> s[p + 5 + a + i]]
    OBVIOUS
  <2> HIDE DEF P
  <2>2. ProcessIs(P, A, c, D)
    BY <1>1, <1>3, <1>4, <1>6, <2>1, ProcessRead
  <2> QED BY <2>2 DEF ProcessIs
<1> HIDE DEF F, O, P, S
<1>21. MessageAt(s, p) = p + 12 + a + c /\ MessageEnd(s, p) = p + 12 + a + c + n
  <2>1. HeaderIs(s, p, a, c)
    BY <1>1, <1>14, <1>15, HeaderRead
  <2>2. MessageIs(s, p, a, c, n)
    BY <1>1, <1>14, <1>15, <2>1, MessageFound
  <2> QED BY <2>2 DEF MessageIs
<1>22. s[p + 1] = T
  BY <1>3 DEF Line
<1>23. \A i \in 1..n : s[p + 12 + a + c + i] = C[i]
  BY <1>3 DEF Line
<1>24. ParsesLine(s, p)
  <2>1. ParsesTimestamp(s, p)
    <3>1. p < Len(s)
      BY <1>1, <1>15
    <3> QED BY <1>9, <1>22, <3>1, Zenon DEF ParsesTimestamp
  <2>2. ParsesSeverity(S)
    <3>1. S = <<<<"word", SeverityTags[m.severity + 1]>>>>
      BY <1>11, <1>18, Zenon DEF V
    <3> QED BY <1>11, <3>1, Zenon DEF ParsesSeverity
  <2>3. MessageAt(s, p) < Len(s) /\ MessageEnd(s, p) - MessageAt(s, p) <= MaxText
    <3>1. Len(s) \in Nat /\ MaxText \in Nat
      BY MessageCodecAssumption DEF IsSeq
    <3>2. p + 12 + a + c < Len(s) /\ (p + 12 + a + c + n) - (p + 12 + a + c) <= MaxText
      BY <1>1, <1>12, <1>15, <3>1
    <3> QED BY <1>21, <3>2
  <2>4. ParsesOrigin(O, P)
    <3>1. Len(O) <= MaxName
      BY <1>1, <1>12, <1>19
    <3>2. /\ c + 1 <= c + 4 /\ (c + 1) - 1 < MaxName
          /\ c + 3 <= c + 4 /\ c + 3 > (c + 1) + 1
      BY <1>1, <1>12
    <3> QED BY <1>20, <3>1, <3>2, Zenon DEF ParsesOrigin
  <2> QED BY <1>17, <2>1, <2>2, <2>3, <2>4, Zenon DEF ParsesLine, f
<1>25. ParseLine(s, p) = m
  <2> DEFINE b == p + 12 + a + c
             r == ParseLine(s, p)
  <2>1. r = [timestamp |-> ToMicroseconds(s[p + 1][2]),
             facility |-> FacilityValue(F[1][2]),
             severity |-> (CHOOSE v \in DOMAIN SeverityTags : SeverityTags[v] = S[1][2]) - 1,
             hostname |-> [i \in DOMAIN O |-> O[i][2]],
             appname |-> [i \in 1..((c + 1) - 1) |-> P[i][2]],
             procid |-> P[(c + 1) + 1][2],
             message |-> [i \in 1..((b + n) - b) |-> s[b + i][2]]]
    BY <1>17, <1>20, <1>21, Zenon DEF ParseLine, f
  <2> HIDE DEF r
  <2>2. /\ ToMicroseconds(s[p + 1][2]) = m.timestamp
        /\ FacilityValue(F[1][2]) = m.facility
        /\ (CHOOSE v \in DOMAIN SeverityTags : SeverityTags[v] = S[1][2]) = m.severity + 1
    BY <1>7, <1>9, <1>10, <1>11, <1>18, <1>22, Zenon
  <2>3. (m.severity + 1) - 1 = m.severity
    BY <1>11
  <2>4. [i \in DOMAIN O |-> O[i][2]] = m.hostname
    BY <1>8, <1>13, <1>19
  <2>5. [i \in 1..((c + 1) - 1) |-> P[i][2]] = m.appname
    <3>1. (c + 1) - 1 = c
      BY <1>1
    <3> QED BY <1>8, <1>13, <1>20, <3>1
  <2>6. P[(c + 1) + 1][2] = m.procid
    <3>1. (c + 1) + 1 = c + 2
      BY <1>1
    <3> QED BY <1>7, <1>20, <3>1
  <2>7. [i \in 1..((b + n) - b) |-> s[b + i][2]] = m.message
    <3>1. (b + n) - b = n
      BY <1>1
    <3> QED BY <1>8, <1>13, <1>23, <3>1
  <2>8. m = [timestamp |-> m.timestamp, facility |-> m.facility, severity |-> m.severity,
             hostname |-> m.hostname, appname |-> m.appname, procid |-> m.procid,
             message |-> m.message]
    BY MessageHas
  <2> HIDE DEF b
  <2> QED BY <2>1, <2>2, <2>3, <2>4, <2>5, <2>6, <2>7, <2>8, Zenon DEF r
<1>26. Min({MessageEnd(s, p) + 1, Len(s)}) = p + k
  <2> DEFINE e == MessageEnd(s, p) + 1
             U == {e, Len(s)}
  <2>1. e = p + k /\ e \in Nat /\ Len(s) \in Nat /\ e <= Len(s)
    <3>1. Len(s) \in Nat
      BY DEF IsSeq
    <3> QED BY <1>1, <1>15, <1>21, <3>1
  <2> HIDE DEF e
  <2>2. e \in U /\ U \subseteq Nat /\ \A y \in U : e <= y
    BY <2>1
  <2>3. Min(U) = e
    <3> HIDE DEF U
    <3> QED BY <2>2, MinIs
  <2> QED BY <2>1, <2>3 DEF e
<1> QED BY <1>24, <1>25, <1>26, <1>k DEF IsReadAs

-----------------------------------------------------------------------------
(* Lines that are read one after the other                                 *)

\* What is read from any position is a sequence.
LEMMA ScanSeqs ==
  ASSUME NEW f, NEW n, NEW more, NEW first, NEW nx, IsScan(f, n, more, first, nx),
         Onward(n, more, nx)
  PROVE  \A p \in 0..n : IsSeq(f[p])
<1>0. n \in Nat /\ \A p \in 0..n : p \in more => nx[p] \in (p + 1)..n
  BY DEF Onward
<1>1. \A p \in 0..n : f[p] = IF p \in more THEN <<first[p]>> \o f[nx[p]] ELSE <<>>
  BY DEF IsScan
<1> DEFINE T == {k \in 0..n : \A p \in (n - k)..n : IsSeq(f[p])}
<1>2. ASSUME NEW p \in 0..n, \A q \in (p + 1)..n : IsSeq(f[q]) PROVE IsSeq(f[p])
  <2>1. CASE p \in more
    <3>1. IsSeq(f[nx[p]]) /\ IsSeq(<<first[p]>>)
      BY <1>0, <1>2, <2>1, OneIsSeq
    <3>2. IsSeq(<<first[p]>> \o f[nx[p]])
      BY <3>1, JoinSeq
    <3> QED BY <1>1, <2>1, <3>2
  <2>2. CASE p \notin more
    BY <1>1, <2>2, EmptyIsSeq
  <2> QED BY <2>1, <2>2
<1>3. 0 \in T
  <2>1. \A p \in (n - 0)..n : p \in 0..n /\ \A q \in (p + 1)..n : FALSE
    BY <1>0
  <2>2. \A p \in (n - 0)..n : IsSeq(f[p])
    BY <1>2, <2>1
  <2> QED BY <1>0, <2>2
<1>4. ASSUME NEW k \in 0..(n - 1), k \in T PROVE k + 1 \in T
  <2>1. \A p \in (n - (k + 1))..n : p \in 0..n /\ \A q \in (p + 1)..n : q \in (n - k)..n
    BY <1>0
  <2>2. \A p \in (n - (k + 1))..n : IsSeq(f[p])
    BY <1>2, <1>4, <2>1
  <2> QED BY <1>0, <2>2
<1> HIDE DEF T
<1>5. \A k \in 0..n : k \in T
  BY <1>0, <1>3, <1>4, UpTo
<1>6. n \in T
  BY <1>0, <1>5
<1>7. \A p \in 0..n : p \in (n - n)..n
  BY <1>0
<1> QED BY <1>6, <1>7 DEF T

\* Items follow each other, at these positions, as far as this.
FollowTo(n, more, first, nx, k, off, items) ==
  /\ \A j \in 0..k : off[j] \in 0..n
  /\ \A j \in 1..k : /\ off[j - 1] \in more /\ nx[off[j - 1]] = off[j]
                     /\ first[off[j - 1]] = items[j]

\* A sequence begins with these items.
BeginsWith(w, k, items) == IsSeq(w) /\ k <= Len(w) /\ \A i \in 1..k : w[i] = items[i]

\* Items that follow each other are read, in this order, and then there may be more.
LEMMA ScanGoesOn ==
  ASSUME NEW f, NEW n, NEW more, NEW first, NEW nx, IsScan(f, n, more, first, nx),
         Onward(n, more, nx),
         NEW k \in Nat, NEW off, NEW items, FollowTo(n, more, first, nx, k, off, items)
  PROVE  BeginsWith(f[off[0]], k, items)
<1> DEFINE T == {j \in 0..k : /\ j <= Len(f[off[k - j]])
                              /\ \A i \in 1..j : f[off[k - j]][i] = items[(k - j) + i]}
<1>0. \A p \in 0..n : f[p] = IF p \in more THEN <<first[p]>> \o f[nx[p]] ELSE <<>>
  BY DEF IsScan
<1>a. /\ \A j \in 0..k : off[j] \in 0..n
      /\ \A j \in 1..k : /\ off[j - 1] \in more /\ nx[off[j - 1]] = off[j]
                         /\ first[off[j - 1]] = items[j]
  BY Zenon DEF FollowTo
<1>b. \A p \in 0..n : IsSeq(f[p])
  BY ScanSeqs
<1>1. 0 \in T
  <2>1. off[k] \in 0..n /\ k - 0 = k
    BY <1>a
  <2>2. Len(f[off[k]]) \in Nat
    BY <1>b, <2>1 DEF IsSeq
  <2> QED BY <2>1, <2>2
<1>2. ASSUME NEW j \in 0..(k - 1), j \in T PROVE j + 1 \in T
  <2> DEFINE i == k - j
             r == f[off[i]]
             w == f[off[i - 1]]
             x == <<items[i]>>
  <2>1. i \in 1..k /\ i - 1 = k - (j + 1) /\ i - 1 \in 0..k /\ i \in 0..k
    OBVIOUS
  <2>2. /\ off[i - 1] \in 0..n /\ off[i - 1] \in more /\ nx[off[i - 1]] = off[i]
        /\ first[off[i - 1]] = items[i] /\ off[i] \in 0..n
    BY <1>a, <2>1
  <2>5. j <= Len(r) /\ \A h \in 1..j : r[h] = items[i + h]
    BY <1>2
  <2> HIDE DEF i
  <2>3. w = x \o r
    <3>1. f[off[i - 1]] = <<first[off[i - 1]]>> \o f[nx[off[i - 1]]]
      BY <1>0, <2>2
    <3> QED BY <2>2, <3>1
  <2>4. IsSeq(r) /\ IsSeq(x) /\ Len(x) = 1 /\ x[1] = items[i]
    BY <1>b, <2>2, OneIsSeq
  <2> HIDE DEF r, w, x
  <2>6. IsJoin(w, x, r)
    BY <2>3, <2>4, JoinSeq
  <2>7. Len(w) = 1 + Len(r) /\ w[1] = items[i] /\ \A h \in 1..Len(r) : w[1 + h] = r[h]
    BY <2>4, <2>6 DEF IsJoin
  <2>8. Len(r) \in Nat
    BY <2>4 DEF IsSeq
  <2>9. \A h \in 1..(j + 1) : w[h] = items[(i - 1) + h]
    <3> SUFFICES ASSUME NEW h \in 1..(j + 1) PROVE w[h] = items[(i - 1) + h]
      OBVIOUS
    <3>1. CASE h = 1
      <4>1. (i - 1) + h = i
        BY <2>1, <3>1
      <4> QED BY <2>7, <3>1, <4>1
    <3>2. CASE h # 1
      <4>1. h - 1 \in 1..j /\ h - 1 \in 1..Len(r) /\ 1 + (h - 1) = h /\ i + (h - 1) = (i - 1) + h
        BY <2>1, <2>5, <2>8, <3>2
      <4> QED BY <2>5, <2>7, <4>1
    <3> QED BY <3>1, <3>2
  <2>10. j + 1 <= Len(w)
    BY <2>5, <2>7, <2>8
  <2>11. w = f[off[k - (j + 1)]] /\ \A h \in 1..(j + 1) : w[h] = items[(k - (j + 1)) + h]
    BY <2>1, <2>9 DEF w
  <2> QED BY <2>10, <2>11
<1> HIDE DEF T
<1>3. \A j \in 0..k : j \in T
  BY <1>1, <1>2, UpTo
<1>4. k \in T /\ k - k = 0 /\ \A h \in 1..k : (k - k) + h = h
  BY <1>3
<1>5. k <= Len(f[off[0]]) /\ \A h \in 1..k : f[off[0]][h] = items[h]
  BY <1>4 DEF T
<1>6. IsSeq(f[off[0]])
  <2>1. off[0] \in 0..n
    BY <1>a
  <2> QED BY <1>b, <2>1
<1> QED BY <1>5, <1>6 DEF BeginsWith

\* Skipping goes on, and not beyond the end.
LEMMA MinWithin ==
  ASSUME NEW p, NEW l, l \in Nat, p \in 0..l, NEW S, l \in S, S \subseteq p..l
  PROVE  Min(S) \in p..l
<1>1. S \subseteq Nat /\ S # {}
  OBVIOUS
<1>2. PICK x \in S : \A y \in S : x <= y
  BY <1>1, Least
<1>3. Min(S) = x
  BY <1>1, <1>2, MinIs
<1> QED BY <1>3

\* What is skipped ends in the string: white space, a word and a line.
LEMMA SkipsWithin ==
  ASSUME NEW s, IsSeq(s), NEW p, p \in 0..Len(s)
  PROVE  /\ SkipSpace(s, p) \in p..Len(s)
         /\ SkipWord(s, p) \in p..Len(s)
         /\ SkipLine(s, p) \in p..Len(s)
<1> DEFINE l == Len(s)
           A == {i \in p..l : i = l \/ ~ IsSpace(s[i + 1])}
           B == {i \in p..l : i = l \/ IsSpace(s[i + 1])}
           C == {i \in p..l : i = l \/ s[i + 1] = Newline}
<1>0. l \in Nat
  BY DEF IsSeq
<1>1. /\ SkipSpace(s, p) = Min(A) /\ SkipWord(s, p) = Min(B) /\ SkipLine(s, p) = Min(C)
  BY Zenon DEF SkipSpace, SkipWord, SkipLine
<1>2. /\ l \in A /\ A \subseteq p..l /\ l \in B /\ B \subseteq p..l /\ l \in C /\ C \subseteq p..l
  BY <1>0
<1>3. p \in 0..l
  OBVIOUS
<1> HIDE DEF A, B, C, l
<1>4. Min(A) \in p..l /\ Min(B) \in p..l /\ Min(C) \in p..l
  BY <1>0, <1>2, <1>3, MinWithin
<1> QED BY <1>1, <1>4 DEF l

\* So does reading a line.
LEMMA LineEnds ==
  ASSUME NEW s, IsSeq(s), NEW p, p \in 0..Len(s), ParsesLine(s, p)
  PROVE  Min({MessageEnd(s, p) + 1, Len(s)}) \in (p + 1)..Len(s)
<1> DEFINE l == Len(s)
<1>0. l \in Nat
  BY DEF IsSeq
<1>1. p < l
  BY Zenon DEF ParsesLine, ParsesTimestamp
<1>2. ASSUME NEW q \in 0..l PROVE WordEnd(s, q) \in q..l
  <2> DEFINE r == SkipSpace(s, q)
  <2>1. r \in q..l
    BY SkipsWithin
  <2>2. r \in 0..l
    BY <1>0, <2>1
  <2> HIDE DEF r
  <2>3. SkipWord(s, r) \in r..l
    BY <2>2, SkipsWithin
  <2>4. SkipWord(s, r) \in q..l
    BY <1>0, <2>1, <2>3
  <2> QED BY <2>4 DEF WordEnd, r
<1> DEFINE f == p + 1
           h == WordEnd(s, f)
           o == WordEnd(s, h)
           v == WordEnd(s, o)
           e == WordEnd(s, v)
           b == SkipSpace(s, e)
           m == SkipLine(s, b)
<1>3. f \in (p + 1)..l /\ f \in 0..l
  BY <1>0, <1>1
<1> HIDE DEF f
<1>4. ASSUME NEW q \in (p + 1)..l, NEW t \in q..l PROVE t \in (p + 1)..l /\ t \in 0..l
  BY <1>0
<1>5. h \in (p + 1)..l /\ h \in 0..l
  BY <1>2, <1>3, <1>4
<1> HIDE DEF h
<1>6. o \in (p + 1)..l /\ o \in 0..l
  BY <1>2, <1>4, <1>5
<1> HIDE DEF o
<1>7. v \in (p + 1)..l /\ v \in 0..l
  BY <1>2, <1>4, <1>6
<1> HIDE DEF v
<1>8. e \in (p + 1)..l /\ e \in 0..l
  BY <1>2, <1>4, <1>7
<1>9. HeaderFields(s, p).end = e
  BY Zenon DEF HeaderFields, f, h, o, v
<1> HIDE DEF e
<1>10. b \in (p + 1)..l /\ b \in 0..l
  BY <1>4, <1>8, SkipsWithin
<1> HIDE DEF b
<1>11. m \in (p + 1)..l /\ m \in 0..l
  BY <1>4, <1>10, SkipsWithin
<1>12. MessageEnd(s, p) = m
  BY <1>9, Zenon DEF MessageEnd, MessageAt, m, b
<1> HIDE DEF m
<1> DEFINE U == {m + 1, l}
<1>13. Min(U) \in (p + 1)..l
  <2>1. CASE m = l
    <3>1. l \in U /\ U \subseteq Nat /\ \A y \in U : l <= y
      BY <1>0, <2>1
    <3> HIDE DEF U
    <3>2. Min(U) = l
      BY <3>1, MinIs
    <3> QED BY <1>0, <1>11, <2>1, <3>2
  <2>2. CASE m # l
    <3>1. m + 1 \in (p + 1)..l
      BY <1>0, <1>11, <2>2
    <3>2. l \in U /\ U \subseteq (p + 1)..l /\ p + 1 \in 0..l
      BY <1>0, <1>1, <3>1
    <3> HIDE DEF U
    <3> QED BY <1>0, <3>2, MinWithin
  <2> QED BY <2>1, <2>2
<1> QED BY <1>12, <1>13

\* ParseText reads line by line.
LEMMA ParseTextIs ==
  ASSUME NEW s, IsSeq(s), NEW n, n = Len(s),
         NEW more, more = {p \in 0..n : ParsesLine(s, p)},
         NEW first, first = [p \in 0..n |-> ParseLine(s, p)],
         NEW nx, nx = [p \in 0..n |-> Min({MessageEnd(s, p) + 1, n})]
  PROVE  /\ Onward(n, more, nx)
         /\ \E f : IsScan(f, n, more, first, nx) /\ ParseText(s) = f[0]
<1> DEFINE Is(f) == f = [p \in 0..Len(s) |->
                           IF ParsesLine(s, p)
                           THEN <<ParseLine(s, p)>> \o f[Min({MessageEnd(s, p) + 1, Len(s)})]
                           ELSE <<>>]
<1>0. n \in Nat
  BY DEF IsSeq
<1>1. Onward(n, more, nx)
  <2> SUFFICES ASSUME NEW p \in 0..n, p \in more PROVE nx[p] \in (p + 1)..n
    BY <1>0 DEF Onward
  <2>1. ParsesLine(s, p) /\ nx[p] = Min({MessageEnd(s, p) + 1, n})
    OBVIOUS
  <2> QED BY <2>1, LineEnds
<1>2. ASSUME NEW f PROVE Is(f) <=> IsScan(f, n, more, first, nx)
  <2> DEFINE A == [p \in 0..n |->
                     IF ParsesLine(s, p)
                     THEN <<ParseLine(s, p)>> \o f[Min({MessageEnd(s, p) + 1, n})] ELSE <<>>]
             C == [p \in 0..n |-> IF p \in more THEN <<first[p]>> \o f[nx[p]] ELSE <<>>]
  <2>1. \A p \in 0..n : (p \in more <=> ParsesLine(s, p)) /\ first[p] = ParseLine(s, p)
                        /\ nx[p] = Min({MessageEnd(s, p) + 1, n})
    OBVIOUS
  <2>2. A = C
    BY <2>1
  <2>3. Is(f) <=> f = A
    OBVIOUS
  <2>4. IsScan(f, n, more, first, nx) <=> f = C
    BY DEF IsScan
  <2> HIDE DEF A, C, Is
  <2> QED BY <2>2, <2>3, <2>4
<1>3. ParseText(s) = (CHOOSE f : Is(f))[0]
  BY Zenon DEF ParseText
<1> HIDE DEF Is
<1>4. \E f : Is(f)
  <2>1. PICK f : IsScan(f, n, more, first, nx)
    BY <1>1, ScanExists
  <2> QED BY <1>2, <2>1
<1>5. Is(CHOOSE f : Is(f))
  BY <1>4, Zenon
<1>6. PICK f : Is(f) /\ ParseText(s) = f[0]
  BY <1>3, <1>5, Zenon
<1>7. IsScan(f, n, more, first, nx) /\ ParseText(s) = f[0]
  BY <1>2, <1>6
<1> QED BY <1>1, <1>7

Texts == [m \in Message |-> Text(m)]

\* Messages whose line is read as them.
Legible(m) == m \in Message /\ HasValidOrigin(m) /\ HasOneLine(m)

\* What is read of the lines of messages begins with those before the first that is
\* not one line; if there is none, it is all there is.
LEMMA LinesRead ==
  ASSUME NEW s, NEW ms, Chained(s, ms, Texts), \A i \in 1..Len(ms) : ms[i] \in Message,
         NEW k, k \in 0..Len(ms), \A i \in 1..k : Legible(ms[i])
  PROVE  BeginsWith(ParseText(s), k, ms) /\ (k = Len(ms) => ParseText(s) = ms)
<1> DEFINE n == Len(s)
           l == Len(ms)
           more == {p \in 0..n : ParsesLine(s, p)}
           first == [p \in 0..n |-> ParseLine(s, p)]
           nx == [p \in 0..n |-> Min({MessageEnd(s, p) + 1, n})]
<1>0. IsSeq(s) /\ IsSeq(ms) /\ n \in Nat /\ l \in Nat /\ k \in Nat /\ k <= l
  BY DEF Chained, IsSeq
<1>1. PICK off : Strung(s, ms, Texts, off)
  BY DEF Chained
<1>2. PICK f : IsScan(f, n, more, first, nx) /\ ParseText(s) = f[0]
  BY <1>0, ParseTextIs
<1>3. Onward(n, more, nx)
  BY <1>0, ParseTextIs
<1>4. off[0] = 0 /\ off[l] = n /\ \A j \in 0..l : off[j] \in 0..n
  BY <1>1 DEF Strung
<1>5. ASSUME NEW j \in 1..k
      PROVE off[j - 1] \in more /\ nx[off[j - 1]] = off[j] /\ first[off[j - 1]] = ms[j]
  <2> DEFINE p == off[j - 1]
             m == ms[j]
             t == Text(m)
  <2>1. j \in 1..l /\ j - 1 \in 0..l /\ j \in 0..l
    BY <1>0
  <2>2. Legible(m)
    OBVIOUS
  <2>3. Texts[m] = t
    BY <2>2 DEF Legible, Texts
  <2>4. Len(t) \in Nat /\ off[j] = p + Len(t) /\ At(s, p, t)
    BY <1>1, <2>1, <2>3 DEF Strung
  <2>5. p \in 0..n /\ p \in Nat /\ off[j] \in 0..n
    BY <1>0, <1>4, <2>1
  <2> HIDE DEF p, m
  <2>6. IsReadAs(s, p, m, Len(t))
    <3>1. p + Len(Text(m)) <= Len(s)
      BY <1>0, <2>4, <2>5
    <3> QED BY <1>0, <2>2, <2>4, <2>5, <3>1, LineRead DEF Legible
  <2> HIDE DEF t
  <2>7. ParsesLine(s, p) /\ ParseLine(s, p) = m /\ Min({MessageEnd(s, p) + 1, n}) = p + Len(t)
    BY <2>6 DEF IsReadAs
  <2>8. p \in more /\ nx[p] = off[j] /\ first[p] = m
    BY <2>4, <2>5, <2>7
  <2> QED BY <2>8 DEF p, m
<1>6. \A j \in 0..k : off[j] \in 0..n
  BY <1>0, <1>4
<1>7. n \notin more
  <2>1. ~ (n < n)
    BY <1>0
  <2>2. ~ ParsesLine(s, n)
    BY <2>1, Zenon DEF ParsesLine, ParsesTimestamp
  <2> QED BY <2>2
<1> HIDE DEF more, first, nx
<1>8. BeginsWith(ParseText(s), k, ms)
  <2>1. FollowTo(n, more, first, nx, k, off, ms)
    BY <1>5, <1>6 DEF FollowTo
  <2> HIDE DEF n
  <2>2. BeginsWith(f[off[0]], k, ms)
    BY <1>0, <1>2, <1>3, <2>1, ScanGoesOn
  <2> QED BY <1>2, <1>4, <2>2
<1>9. CASE k = l
  <2>1. Follow(n, more, first, nx, k, off, ms)
    BY <1>4, <1>5, <1>6, <1>7, <1>9 DEF Follow
  <2> HIDE DEF n
  <2>2. f[off[0]] = [j \in 1..k |-> ms[j]]
    BY <1>0, <1>2, <2>1, ScanIs
  <2>3. ms = [j \in 1..l |-> ms[j]]
    BY <1>0 DEF IsSeq
  <2>4. ParseText(s) = ms
    BY <1>2, <1>4, <1>9, <2>2, <2>3
  <2> QED BY <1>8, <2>4
<1> QED BY <1>8, <1>9

-----------------------------------------------------------------------------
(* mclog                                                                   *)

\* What mclog prints are the lines of the messages that the filter passes.
LEMMA LinesJoined ==
  ASSUME NEW ms, ms \in Seq(Good), NEW passes
  PROVE  /\ Chained(FlattenSeq([i \in DOMAIN ms |-> Show(ms[i], passes)]),
                    Passed(ms, passes), Texts)
         /\ Passed(ms, passes) \in Seq(Good)
<1> DEFINE l == Len(ms)
           ss == [i \in 1..l |-> Show(ms[i], passes)]
           ts == [i \in 1..l |-> IF ms[i] \in passes THEN <<ms[i]>> ELSE <<>>]
<1>1. IsSeq(ms) /\ \A i \in 1..Len(ms) : ms[i] \in Good
  BY FromSeq
<1>2. l \in Nat /\ DOMAIN ms = 1..l
  BY <1>1 DEF IsSeq
<1>3. \A k \in 1..l : /\ ss[k] = Show(ms[k], passes)
                      /\ ts[k] = IF ms[k] \in passes THEN <<ms[k]>> ELSE <<>>
  OBVIOUS
<1>4. ss = [i \in 1..l |-> ss[i]] /\ ts = [i \in 1..l |-> ts[i]]
  OBVIOUS
<1>s. ss = [i \in DOMAIN ms |-> Show(ms[i], passes)]
  BY <1>2
<1>t. FlattenSeq(ts) = Passed(ms, passes)
  <2>1. ts = [i \in DOMAIN ms |-> IF ms[i] \in passes THEN <<ms[i]>> ELSE <<>>]
    BY <1>2
  <2> HIDE DEF ts
  <2> QED BY <2>1 DEF Passed
<1> HIDE DEF ss, ts, l
<1>5. IsSeq(ss) /\ IsSeq(ts) /\ Len(ss) = l /\ Len(ts) = l
  BY <1>2, <1>4, SeqIs
<1>6. ASSUME NEW k \in 1..l
      PROVE  /\ Chained(ss[k], ts[k], Texts)
             /\ IsSeq(ts[k]) /\ \A i \in 1..Len(ts[k]) : ts[k][i] \in Good
  <2> DEFINE m == ms[k]
  <2>1. m \in Good
    BY <1>1 DEF l
  <2>2. m \in Message
    BY <2>1, AllAreMessages DEF Good
  <2>3. ss[k] = Show(m, passes) /\ ts[k] = IF m \in passes THEN <<m>> ELSE <<>>
    BY <1>3
  <2> HIDE DEF m
  <2>4. Texts[m] = Text(m)
    BY <2>2 DEF Texts
  <2>5. CASE m \in passes
    <3>1. IsSeq(Text(m))
      <4>1. HasLine(m, Len(m.hostname), Len(m.appname), Len(m.message))
        BY <2>2, TextIs
      <4> QED BY <4>1 DEF HasLine
    <3>2. Chained(Texts[m], <<m>>, Texts)
      BY <2>4, <3>1, ChainedOne
    <3>3. ss[k] = Text(m) /\ ts[k] = <<m>>
      BY <2>3, <2>5 DEF Show
    <3>4. IsSeq(ts[k]) /\ Len(ts[k]) = 1 /\ ts[k][1] = m
      BY <3>3, OneIsSeq
    <3> QED BY <2>1, <2>4, <3>2, <3>3, <3>4
  <2>6. CASE m \notin passes
    <3>1. ss[k] = <<>> /\ ts[k] = <<>>
      BY <2>3, <2>6 DEF Show
    <3>2. IsSeq(ts[k]) /\ Len(ts[k]) = 0
      BY <3>1, EmptyIsSeq
    <3>3. Chained(ss[k], ts[k], Texts)
      BY <3>1, ChainedNone
    <3> QED BY <3>2, <3>3
  <2> QED BY <2>5, <2>6
<1>7. Chained(FlattenSeq(ss), FlattenSeq(ts), Texts)
  BY <1>5, <1>6, FlattenChained
<1>8. IsSeq(FlattenSeq(ts)) /\ \A i \in 1..Len(FlattenSeq(ts)) : FlattenSeq(ts)[i] \in Good
  BY <1>5, <1>6, FlattenAll
<1>9. FlattenSeq(ts) \in Seq(Good)
  BY <1>8, InSeq
<1> QED BY <1>s, <1>t, <1>7, <1>9

\* What begins with these items has them as a prefix (IsPrefix of the library).
LEMMA BeginsIsPrefix ==
  ASSUME NEW w, NEW k, NEW items, k \in Nat, BeginsWith(w, k, items)
  PROVE  IsPrefix([i \in 1..k |-> items[i]], w)
<1> DEFINE r == [i \in 1..k |-> items[i]]
           E == {w[i] : i \in 1..Len(w)} \cup {r[i] : i \in 1..k}
<1>1. IsSeq(w) /\ Len(w) \in Nat /\ k <= Len(w) /\ \A i \in 1..k : w[i] = items[i]
  BY DEF BeginsWith, IsSeq
<1>2. Len(r) = k /\ IsSeq(r) /\ \A i \in 1..k : r[i] = items[i]
  <2>1. r = [i \in 1..k |-> r[i]] /\ \A i \in 1..k : r[i] = items[i]
    OBVIOUS
  <2> HIDE DEF r
  <2> QED BY <2>1, SeqIs
<1>3. (\A i \in 1..Len(w) : w[i] \in E) /\ \A i \in 1..k : r[i] \in E
  OBVIOUS
<1> HIDE DEF E, r
<1>4. w \in Seq(E)
  BY <1>1, <1>3, InSeq
<1>5. r \in Seq(E)
  BY <1>2, <1>3, InSeq
<1>6. SubSeq(r, 1, k) = [i \in 1..k |-> r[i]]
  BY <1>2, <1>5
<1>7. SubSeq(w, 1, k) = [i \in 1..k |-> w[i]]
  BY <1>1, <1>4
<1>8. SubSeq(r, 1, k) = SubSeq(w, 1, k)
  BY <1>1, <1>2, <1>6, <1>7
<1>9. IsPrefix(r, w)
  BY <1>1, <1>2, <1>8 DEF IsPrefix
<1> QED BY <1>9 DEF r

\* ShownAsLogged follows from what the log file has.
LEMMA FileShown == FileInv => ShownAsLogged
<1> SUFFICES ASSUME FileInv, NEW F \in Filters
             PROVE  LET passed   == Passed(sunk, F)
                        readable == Prefix(passed, {m \in AllMessages : HasOneLine(m)})
                        again    == ParseText(Mclog(logFile, F))
                    IN  IsPrefix(readable, again) /\ (readable = passed => again = passed)
  BY DEF ShownAsLogged
<1> DEFINE passed == Passed(sunk, F)
           good == {m \in AllMessages : HasOneLine(m)}
           readable == Prefix(passed, good)
           text == Mclog(logFile, F)
           again == ParseText(text)
<1>1. sunk \in Seq(Good)
  BY DEF FileInv
<1>2. text = FlattenSeq([i \in DOMAIN sunk |-> Show(sunk[i], F)])
  BY FileHasSunk, Zenon DEF Mclog
<1> HIDE DEF text
<1>3. Chained(text, passed, Texts) /\ passed \in Seq(Good)
  BY <1>1, <1>2, LinesJoined
<1> HIDE DEF passed
<1>4. \A i \in 1..Len(passed) : passed[i] \in Good /\ passed[i] \in Message
  <2>1. passed \in Seq(Message)
    BY <1>3, GoodMessages
  <2> QED BY <1>3, <2>1
<1>5. PICK k \in 0..Len(passed) : /\ readable = [i \in 1..k |-> passed[i]]
                                  /\ \A i \in 1..k : passed[i] \in good
  BY <1>3, PrefixIs
<1>6. Len(passed) \in Nat /\ k \in Nat
  BY <1>3
<1>7. \A i \in 1..k : Legible(passed[i])
  <2> SUFFICES ASSUME NEW i \in 1..k PROVE Legible(passed[i])
    OBVIOUS
  <2>1. i \in 1..Len(passed)
    BY <1>6
  <2> QED BY <1>4, <1>5, <2>1 DEF Legible, Good
<1> HIDE DEF good, readable
<1>8. BeginsWith(again, k, passed) /\ (k = Len(passed) => again = passed)
  BY <1>3, <1>4, <1>7, LinesRead
<1> HIDE DEF again
<1>9. IsPrefix(readable, again)
  BY <1>5, <1>6, <1>8, BeginsIsPrefix
<1>10. readable = passed => k = Len(passed)
  <2>1. Len(readable) = k
    BY <1>5, <1>6
  <2> QED BY <2>1
<1> QED BY <1>8, <1>9, <1>10 DEF again, readable, good, text, passed

\* For all messages, names, filters and local times: what mclog prints of the binary
\* log file, read again with operator >>, is what the sinks got, in this order, as far
\* as the filter passes it; operator << and operator >> of Timestamp, Facility,
\* MessageOrigin and Severity lose nothing, and a line that is read ends where the
\* next one begins.
THEOREM ShownIsLogged == PipelineSpec => []ShownAsLogged
<1>1. PipelineInit => PacketInv /\ FileInv
  BY InitPacketInv, InitFileInv
<1>2. PacketInv /\ FileInv /\ [PipelineNext]_pipelineVars => PacketInv' /\ FileInv'
  BY StepPacketInv, StepFileInv
<1>3. FileInv => ShownAsLogged
  BY FileShown
<1> QED BY <1>1, <1>2, <1>3, PTL DEF PipelineSpec
=============================================================================
