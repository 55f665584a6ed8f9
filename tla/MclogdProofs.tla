---------------------------- MODULE MclogdProofs ----------------------------
(***************************************************************************)
(* mclogd's safety invariants, for every set of configurations.  Where the *)
(* main thread is follows from the task and from how many operations are   *)
(* left of it; what the components are like follows from which of them are *)
(* still to be stopped or started.                                         *)
(***************************************************************************)
EXTENDS Mclogd, Naturals, SequenceTheorems, TLAPS

Left == Len(todo)

\* The operations of a task.
Full(t) ==
  IF t = "start" THEN StartTask
  ELSE IF t = "reload" THEN ReloadTask
  ELSE IF t = "exit" THEN ExitTask
  ELSE <<>>

\* What is left is an end of the task.
TodoOK ==
  /\ Left <= Len(Full(task))
  /\ \A i \in 1..Left : todo[i] = Full(task)[Len(Full(task)) - Left + i]

\* How many operations are left when a component is about to be started, by the
\* start and by a reload, and when it is about to be stopped by the shutdown.
StartAt(c)  == IF c = "sender" THEN 4 ELSE IF c = "files" THEN 3
               ELSE IF c = "loopback" THEN 2 ELSE 1
ReloadAt(c) == IF c = "files" THEN 7 ELSE IF c = "sender" THEN 5
               ELSE IF c = "receiver" THEN 3 ELSE 1
ExitAt(c)   == IF c = "loopback" THEN 4 ELSE IF c = "sender" THEN 3
               ELSE IF c = "files" THEN 2 ELSE 1

\* The component is about to be started, or is not started yet.
Down(c) ==
  \/ task = "start" /\ Left >= StartAt(c)
  \/ task = "reload" /\ Left = ReloadAt(c)

\* The component was started by the last start or reload, if that got so far.
Up(c) ==
  \/ task = "start" /\ Left < StartAt(c)
  \/ task = "reload" /\ Left < ReloadAt(c)
  \/ task = "wait"

\* The signals are blocked before the main thread waits for the first time.
BlockedAfterStart == task # "start" => blocked

\* Components are started with a configuration.
ConfigRead ==
  status = "alive" /\ ~(task = "reload" /\ Left >= 9) /\ task # "exit" =>
    config # NoConfig \/ (task = "start" /\ Left = 5) \/ (failed /\ Left = 0)

\* A thread is told to end only by the stop that waits for it.
ToldByStop ==
  \A c \in Components : Live(c) => run[c] \/ (joining /\ Head(todo) = StopOp(c))

\* What is not started, or was stopped for good, has no thread and no socket.
DownIsNone ==
  /\ status = "alive" => \A c \in Components :
       /\ Down(c) => thread[c] = "none" /\ open[c] = {}
       /\ task = "exit" /\ Left < ExitAt(c) => thread[c] = "none"
  /\ status = "exit" => \A c \in Components : thread[c] = "none"

\* The threads that own sockets.  LoopbackReceiver's opens and closes its own;
\* FileLogger has none.
Owned ==
  /\ \A c \in Components : thread[c] = "begin" => c = "loopback"
  /\ thread["loopback"] \in {"begin", "running"} => conf["loopback"] # NoConfig
  /\ open["loopback"] # {} => thread["loopback"] = "running"
  /\ open["files"] = {}
  /\ open["receiver"] # {} => thread["receiver"] # "none"
  /\ open["sender"] # {} /\ thread["sender"] = "none" =>
       failed \/ (task = "reload" /\ Left >= 6) \/ task = "exit"

\* A component that was started without a failure is as the configuration asks.
AppliedTo(c) ==
  /\ Live(c) <=> c = "loopback" \/ Wanted(config, c)
  /\ Live(c) => conf[c] = config
  /\ ~Live(c) => thread[c] = "none" /\ open[c] = {}
  /\ thread[c] = "running" /\ c \in {"loopback", "sender"} => open[c] = config[c]
  /\ c = "receiver" => open[c] \subseteq config[c] /\ (Live(c) => open[c] # {})
Applied ==
  status = "alive" /\ ~failed => \A c \in Components : Up(c) => AppliedTo(c)

\* What a reload has started so far blocks the signals.
MaskedByReload ==
  /\ task = "reload" /\ ~failed =>
       \A c \in Components : Left < ReloadAt(c) /\ Live(c) => masked[c]
  /\ reloaded => blocked /\ \A c \in Components : Live(c) => masked[c]

IInv ==
  /\ TypeOK
  /\ TodoOK
  /\ BlockedAfterStart
  /\ ConfigRead
  /\ ToldByStop
  /\ DownIsNone
  /\ Owned
  /\ Applied
  /\ MaskedByReload

-----------------------------------------------------------------------------
(* Tasks                                                                   *)

\* A task that ends with the restart of a component.
LEMMA RestartAdded ==
  ASSUME NEW s \in Seq(Ops), NEW c \in Components
  PROVE  /\ s \o RestartOps(c) \in Seq(Ops)
         /\ Len(s \o RestartOps(c)) = Len(s) + 2
         /\ \A i \in 1..Len(s) : (s \o RestartOps(c))[i] = s[i]
         /\ (s \o RestartOps(c))[Len(s) + 1] = StopOp(c)
         /\ (s \o RestartOps(c))[Len(s) + 2] = StartOp(c)
<1>1. StopOp(c) \in Ops /\ StartOp(c) \in Ops
  BY DEF Ops
<1>2. RestartOps(c) \in Seq(Ops) /\ Len(RestartOps(c)) = 2
      /\ RestartOps(c)[1] = StopOp(c) /\ RestartOps(c)[2] = StartOp(c)
  BY <1>1 DEF RestartOps
<1>3. Len(s) \in Nat
  OBVIOUS
<1> DEFINE r == RestartOps(c)
           t == s \o r
<1>4. /\ t \in Seq(Ops) /\ Len(t) = Len(s) + Len(r)
      /\ \A i \in 1..(Len(s) + Len(r)) : t[i] = IF i <= Len(s) THEN s[i] ELSE r[i - Len(s)]
  BY <1>2, ConcatProperties, Zenon
<1> HIDE DEF r, t
<1>5. Len(r) = 2 /\ r[1] = StopOp(c) /\ r[2] = StartOp(c)
  BY <1>2 DEF r
<1>6. /\ t \in Seq(Ops) /\ Len(t) = Len(s) + 2
      /\ \A i \in 1..Len(s) : t[i] = s[i]
  BY <1>3, <1>4, <1>5
<1>7. t[Len(s) + 1] = StopOp(c)
  <2>1. /\ Len(s) + 1 \in 1..(Len(s) + Len(r)) /\ ~ (Len(s) + 1 <= Len(s))
        /\ Len(s) + 1 - Len(s) = 1
    BY <1>3, <1>5
  <2> QED BY <1>4, <1>5, <2>1
<1>8. t[Len(s) + 2] = StartOp(c)
  <2>1. /\ Len(s) + 2 \in 1..(Len(s) + Len(r)) /\ ~ (Len(s) + 2 <= Len(s))
        /\ Len(s) + 2 - Len(s) = 2
    BY <1>3, <1>5
  <2> QED BY <1>4, <1>5, <2>1
<1> QED BY <1>6, <1>7, <1>8 DEF r, t

\* The operations of a reload, one by one.
LEMMA ReloadOps ==
  /\ Len(ReloadTask) = 10
  /\ ReloadTask[1] = StopOp("loopback") /\ ReloadTask[2] = ParseOp
  /\ ReloadTask[3] = StopOp("files")    /\ ReloadTask[4] = StartOp("files")
  /\ ReloadTask[5] = StopOp("sender")   /\ ReloadTask[6] = StartOp("sender")
  /\ ReloadTask[7] = StopOp("receiver") /\ ReloadTask[8] = StartOp("receiver")
  /\ ReloadTask[9] = StopOp("loopback") /\ ReloadTask[10] = StartOp("loopback")
<1> DEFINE t2  == <<StopOp("loopback"), ParseOp>>
           t4  == t2 \o RestartOps("files")
           t6  == t4 \o RestartOps("sender")
           t8  == t6 \o RestartOps("receiver")
           t10 == t8 \o RestartOps("loopback")
<1>1. t2 \in Seq(Ops) /\ Len(t2) = 2 /\ t2[1] = StopOp("loopback") /\ t2[2] = ParseOp
  BY DEF Ops, Components
<1>2. ReloadTask = t10
  BY DEF ReloadTask
<1> HIDE DEF t2, t4, t6, t8, t10
<1>3. /\ t4 \in Seq(Ops) /\ Len(t4) = 4 /\ \A i \in 1..2 : t4[i] = t2[i]
      /\ t4[3] = StopOp("files") /\ t4[4] = StartOp("files")
  <2>1. /\ t4 \in Seq(Ops) /\ Len(t4) = Len(t2) + 2
        /\ \A i \in 1..Len(t2) : t4[i] = t2[i]
        /\ t4[Len(t2) + 1] = StopOp("files") /\ t4[Len(t2) + 2] = StartOp("files")
    BY <1>1, RestartAdded, Zenon DEF Components, t4
  <2> QED BY <1>1, <2>1
<1>4. /\ t6 \in Seq(Ops) /\ Len(t6) = 6 /\ \A i \in 1..4 : t6[i] = t4[i]
      /\ t6[5] = StopOp("sender") /\ t6[6] = StartOp("sender")
  <2>1. /\ t6 \in Seq(Ops) /\ Len(t6) = Len(t4) + 2
        /\ \A i \in 1..Len(t4) : t6[i] = t4[i]
        /\ t6[Len(t4) + 1] = StopOp("sender") /\ t6[Len(t4) + 2] = StartOp("sender")
    BY <1>3, RestartAdded, Zenon DEF Components, t6
  <2> QED BY <1>3, <2>1
<1>5. /\ t8 \in Seq(Ops) /\ Len(t8) = 8 /\ \A i \in 1..6 : t8[i] = t6[i]
      /\ t8[7] = StopOp("receiver") /\ t8[8] = StartOp("receiver")
  <2>1. /\ t8 \in Seq(Ops) /\ Len(t8) = Len(t6) + 2
        /\ \A i \in 1..Len(t6) : t8[i] = t6[i]
        /\ t8[Len(t6) + 1] = StopOp("receiver") /\ t8[Len(t6) + 2] = StartOp("receiver")
    BY <1>4, RestartAdded, Zenon DEF Components, t8
  <2> QED BY <1>4, <2>1
<1>6. /\ t10 \in Seq(Ops) /\ Len(t10) = 10 /\ \A i \in 1..8 : t10[i] = t8[i]
      /\ t10[9] = StopOp("loopback") /\ t10[10] = StartOp("loopback")
  <2>1. /\ t10 \in Seq(Ops) /\ Len(t10) = Len(t8) + 2
        /\ \A i \in 1..Len(t8) : t10[i] = t8[i]
        /\ t10[Len(t8) + 1] = StopOp("loopback") /\ t10[Len(t8) + 2] = StartOp("loopback")
    BY <1>5, RestartAdded, Zenon DEF Components, t10
  <2> QED BY <1>5, <2>1
<1> QED BY <1>1, <1>2, <1>3, <1>4, <1>5, <1>6

\* A start is among what is left only where a task has it.
LEMMA Positions ==
  ASSUME TypeOK, TodoOK, todo # <<>>
  PROVE  /\ \A c \in Components : Head(todo) = StartOp(c) =>
              \/ task = "start" /\ Left = StartAt(c)
              \/ task = "reload" /\ Left = ReloadAt(c)
         /\ \A c \in Components : Head(todo) = StopOp(c) =>
              \/ task = "reload" /\ Left = ReloadAt(c) + 1
              \/ task = "reload" /\ Left = 10 /\ c = "loopback"
              \/ task = "exit" /\ Left = ExitAt(c)
         /\ Head(todo) = ParseOp =>
              \/ task = "start" /\ Left = 5
              \/ task = "reload" /\ Left = 9
<1>1. Left \in Nat \ {0} /\ Head(todo) = todo[1]
  BY DEF TypeOK, Left
<1>2. CASE task = "start"
  <2>1. Head(todo) = StartTask[6 - Left] /\ Left \in 1..5
    BY <1>1, <1>2 DEF TodoOK, Full, StartTask
  <2> QED BY <1>2, <2>1 DEF StartTask, StartOp, StopOp, ParseOp, Components, StartAt
<1>3. CASE task = "reload"
  <2>1. Head(todo) = ReloadTask[11 - Left] /\ Left \in 1..10
    <3>1. Full(task) = ReloadTask /\ Len(ReloadTask) = 10
      BY <1>3, ReloadOps DEF Full
    <3>2. Left \in 1..10 /\ 1 \in 1..Left /\ 10 - Left + 1 = 11 - Left
      BY <1>1, <3>1 DEF TodoOK
    <3> QED BY <1>1, <3>1, <3>2 DEF TodoOK
  <2> QED BY <1>3, <2>1, ReloadOps DEF StartOp, StopOp, ParseOp, Components, ReloadAt
<1>4. CASE task = "exit"
  <2>1. Head(todo) = ExitTask[5 - Left] /\ Left \in 1..4
    BY <1>1, <1>4 DEF TodoOK, Full, ExitTask
  <2> QED BY <1>4, <2>1 DEF ExitTask, StartOp, StopOp, ParseOp, Components, ExitAt
<1>5. CASE task = "wait"
  BY <1>1, <1>5 DEF TodoOK, Full
<1> QED BY <1>2, <1>3, <1>4, <1>5 DEF TypeOK

\* An operation of a task is done, or the rest of them are given up.
LEMMA TodoSteps ==
  ASSUME TypeOK, TodoOK
  PROVE  /\ task' = task /\ todo' = todo => TodoOK' /\ Left' = Left /\ todo' \in Seq(Ops)
         /\ task' = task /\ todo' = <<>> => TodoOK' /\ Left' = 0 /\ todo' \in Seq(Ops)
         /\ task' = task /\ todo # <<>> /\ todo' = Tail(todo) =>
              TodoOK' /\ Left' = Left - 1 /\ Left \in Nat \ {0} /\ todo' \in Seq(Ops)
         /\ Left \in Nat
<1>0. Left \in Nat /\ todo \in Seq(Ops)
  BY DEF TypeOK, Left
<1>1. ASSUME task' = task, todo' = todo
      PROVE  TodoOK' /\ Left' = Left /\ todo' \in Seq(Ops)
  BY <1>0, <1>1 DEF TodoOK, Left
<1>2. ASSUME task' = task, todo' = <<>>
      PROVE  TodoOK' /\ Left' = 0 /\ todo' \in Seq(Ops)
  <2>1. Left' = 0
    BY <1>2 DEF Left
  <2>2. Len(Full(task)) \in Nat /\ Full(task)' = Full(task)
    BY <1>2, ReloadOps DEF Full, StartTask, ExitTask
  <2> QED BY <1>2, <2>1, <2>2 DEF TodoOK
<1>3. ASSUME task' = task, todo # <<>>, todo' = Tail(todo)
      PROVE  TodoOK' /\ Left' = Left - 1 /\ Left \in Nat \ {0} /\ todo' \in Seq(Ops)
  <2>1. Left' = Left - 1 /\ Left \in Nat \ {0} /\ todo' \in Seq(Ops)
    BY <1>0, <1>3 DEF Left
  <2>2. \A i \in 1..Left' : todo'[i] = todo[i + 1]
    BY <1>0, <1>3, <2>1 DEF Left
  <2>3. Len(Full(task)) \in Nat /\ Full(task)' = Full(task)
    BY <1>3, ReloadOps DEF Full, StartTask, ExitTask
  <2>4. Left' <= Len(Full(task))
    BY <2>1, <2>3 DEF TodoOK
  <2>5. ASSUME NEW i \in 1..Left'
        PROVE  todo'[i] = Full(task)[Len(Full(task)) - Left' + i]
    <3>1. i + 1 \in 1..Left /\ Len(Full(task)) - Left + (i + 1) = Len(Full(task)) - Left' + i
      BY <2>1, <2>3
    <3> QED BY <2>2, <3>1 DEF TodoOK
  <2> QED BY <2>1, <2>3, <2>4, <2>5 DEF TodoOK
<1> QED BY <1>0, <1>1, <1>2, <1>3

-----------------------------------------------------------------------------
(* The steps                                                               *)

LEMMA InitOK == Init => IInv
<1> SUFFICES ASSUME Init PROVE IInv
  OBVIOUS
<1>1. todo = StartTask /\ task = "start" /\ Left = 5 /\ StartTask \in Seq(Ops)
  BY DEF Init, Left, StartTask, Ops, Components
<1>2. TypeOK
  BY <1>1 DEF Init, TypeOK, Signals, Components, Families
<1>3. TodoOK
  <2>1. Full(task) = todo /\ Len(Full(task)) = Left
    BY <1>1 DEF Full, Left
  <2>2. \A i \in 1..Left : Left - Left + i = i
    BY <1>1
  <2>3. Left <= Left
    BY <1>1
  <2> QED BY <2>1, <2>2, <2>3, Zenon DEF TodoOK
<1>4. \A c \in Components : ~Up(c) /\ thread[c] = "none" /\ open[c] = {} /\ ~Live(c)
  BY <1>1 DEF Init, Up, Live, StartAt, Components
<1> QED BY <1>1, <1>2, <1>3, <1>4
     DEF Init, IInv, BlockedAfterStart, ConfigRead, ToldByStop, DownIsNone, Owned, Applied,
         MaskedByReload, Components

\* The environment and the query threads, or nobody, does a step.
LEMMA EnvironmentOK ==
  ASSUME IInv,
         \/ \E cfg \in Configs \cup {NoConfig} : EditFile(cfg)
         \/ \E s \in Signals : Kill(s)
         \/ QueryStart
         \/ QueryEnd
         \/ UNCHANGED vars
  PROVE  IInv'
<1>1. UNCHANGED <<status, task, todo, joining, blocked, config, failed, reloaded>>
      /\ UNCHANGED compVars
  BY DEF EditFile, Kill, QueryStart, QueryEnd, mainVars, vars
<1>2. UNCHANGED <<conf, run, thread, masked, open>>
  BY <1>1 DEF compVars
<1>3. pending' \in SUBSET Signals /\ file' \in Configs \cup {NoConfig} /\ query' \in BOOLEAN
  BY DEF EditFile, Kill, QueryStart, QueryEnd, mainVars, vars, IInv, TypeOK, Components
<1>4. TodoOK' /\ Left' = Left
  BY <1>1, TodoSteps DEF IInv
<1>5. TypeOK'
  BY <1>1, <1>2, <1>3 DEF IInv, TypeOK
<1>6. \A c \in Components : /\ Up(c)' = Up(c) /\ Down(c)' = Down(c) /\ Live(c)' = Live(c)
                            /\ AppliedTo(c)' = AppliedTo(c)
  BY <1>1, <1>2, <1>4 DEF Up, Down, Live, AppliedTo, Wanted
<1>7. BlockedAfterStart' /\ ConfigRead' /\ ToldByStop' /\ DownIsNone'
  BY <1>1, <1>2, <1>4, <1>6 DEF IInv, BlockedAfterStart, ConfigRead, ToldByStop, DownIsNone
<1>8. Owned' /\ Applied' /\ MaskedByReload'
  BY <1>1, <1>2, <1>4, <1>6 DEF IInv, Owned, Applied, MaskedByReload
<1> QED BY <1>4, <1>5, <1>7, <1>8 DEF IInv

\* The process ends.
LEMMA EndsOK ==
  ASSUME IInv, Exit \/ ParseThrows \/ OpenSenderThrows \/ \E s \in Signals : Deliver(s)
  PROVE  IInv'
<1>1. UNCHANGED <<task, todo, joining, blocked, pending, config, failed, reloaded, file, query>>
      /\ UNCHANGED compVars
  BY DEF Exit, ParseThrows, OpenSenderThrows, Deliver
<1>2. UNCHANGED <<conf, run, thread, masked, open>>
  BY <1>1 DEF compVars
<1>3. \/ status' = "exit" /\ status = "alive" /\ task = "exit" /\ todo = <<>>
      \/ status' \in Signals \cup {"abort"}
  BY DEF Exit, ParseThrows, OpenSenderThrows, Deliver
<1>4. TodoOK' /\ Left' = Left
  BY <1>1, TodoSteps DEF IInv
<1>5. TypeOK'
  BY <1>1, <1>2, <1>3 DEF IInv, TypeOK
<1>6. \A c \in Components : Live(c)' = Live(c)
  BY <1>2 DEF Live
<1>7. DownIsNone'
  <2>1. ASSUME todo = <<>> PROVE Left = 0
    BY <2>1 DEF Left
  <2> QED BY <1>2, <1>3, <2>1 DEF IInv, DownIsNone, ExitAt, Signals
<1>8. BlockedAfterStart' /\ ConfigRead' /\ ToldByStop' /\ Applied'
  BY <1>1, <1>2, <1>3, <1>6 DEF IInv, BlockedAfterStart, ConfigRead, ToldByStop, Applied, Signals
<1>9. Owned' /\ MaskedByReload'
  BY <1>1, <1>2, <1>4, <1>6 DEF IInv, Owned, MaskedByReload
<1> QED BY <1>4, <1>5, <1>7, <1>8, <1>9 DEF IInv

\* The start or a reload is over.
LEMMA BlockSigHupAndTermOK ==
  ASSUME IInv, BlockSigHupAndTerm
  PROVE  IInv'
<1>1. /\ status = "alive" /\ task \in {"start", "reload"} /\ todo = <<>>
      /\ task' = "wait" /\ blocked' = TRUE
      /\ reloaded' = (reloaded \/ (task = "reload" /\ ~failed))
      /\ UNCHANGED <<status, file, todo, joining, pending, config, query, failed>>
      /\ UNCHANGED <<conf, run, thread, masked, open>>
  BY DEF BlockSigHupAndTerm, compVars
<1>2. Left = 0 /\ Left' = 0
  BY <1>1 DEF Left
<1>3. TypeOK'
  BY <1>1 DEF IInv, TypeOK
<1>4. TodoOK'
  BY <1>1, <1>2 DEF TodoOK, Full
<1>5. \A c \in Components : Up(c) /\ ~Down(c)' /\ Live(c)' = Live(c) /\ AppliedTo(c)' = AppliedTo(c)
  BY <1>1, <1>2 DEF Up, Down, Live, AppliedTo, Wanted, StartAt, ReloadAt
<1>6. BlockedAfterStart' /\ ConfigRead' /\ ToldByStop' /\ DownIsNone'
  BY <1>1, <1>2, <1>5 DEF IInv, BlockedAfterStart, ConfigRead, ToldByStop, DownIsNone
<1>7. Owned' /\ Applied'
  BY <1>1, <1>2, <1>5 DEF IInv, Owned, Applied
<1>8. MaskedByReload'
  <2>1. ASSUME task = "reload", ~failed
        PROVE  \A c \in Components : Live(c) => masked[c]
    BY <1>2, <2>1 DEF IInv, MaskedByReload, ReloadAt
  <2>2. ASSUME reloaded PROVE \A c \in Components : Live(c) => masked[c]
    BY <2>2 DEF IInv, MaskedByReload
  <2>3. reloaded' => reloaded \/ (task = "reload" /\ ~failed)
    BY <1>1, Zenon
  <2> QED BY <1>1, <1>5, <2>1, <2>2, <2>3, Zenon DEF MaskedByReload
<1> QED BY <1>3, <1>4, <1>6, <1>7, <1>8 DEF IInv

\* A signal is taken.
LEMMA WaitSigHupOrTermOK ==
  ASSUME IInv, NEW s \in Signals, WaitSigHupOrTerm(s)
  PROVE  IInv'
<1>1. /\ status = "alive" /\ task = "wait"
      /\ pending' = pending \ {s}
      /\ task' = IF s = "HUP" THEN "reload" ELSE "exit"
      /\ todo' = IF s = "HUP" THEN ReloadTask ELSE ExitTask
      /\ failed' = IF s = "HUP" THEN FALSE ELSE failed
      /\ UNCHANGED <<status, file, joining, blocked, config, query, reloaded>>
      /\ UNCHANGED <<conf, run, thread, masked, open>>
  BY DEF WaitSigHupOrTerm, compVars
<1>2. Left = 0 /\ todo = <<>> /\ ~joining
  BY <1>1 DEF IInv, TypeOK, TodoOK, Full, Left
<1>3. Left' = IF s = "HUP" THEN 10 ELSE 4
  BY <1>1, ReloadOps DEF Left, ExitTask
<1>4. TypeOK'
  <2>1. ReloadTask \in Seq(Ops) /\ ExitTask \in Seq(Ops)
    BY DEF ReloadTask, RestartOps, ExitTask, Ops, Components
  <2> QED BY <1>1, <1>2, <2>1 DEF IInv, TypeOK
<1>5. TodoOK'
  <2>1. Full(task)' = todo'
    BY <1>1 DEF Full
  <2>2. Len(Full(task)') = Left' /\ Left' \in Nat
    <3>1. Len(Full(task)') = Left'
      BY <2>1, Zenon DEF Left
    <3>2. Left' \in Nat
      BY <1>3
    <3> QED BY <3>1, <3>2
  <2>3. Left' <= Left' /\ \A i \in 1..Left' : Left' - Left' + i = i
    <3>1. \A n \in Nat : n <= n /\ \A i \in 1..n : n - n + i = i
      OBVIOUS
    <3> QED BY <2>2, <3>1, Zenon
  <2> QED BY <2>1, <2>2, <2>3, Zenon DEF TodoOK
<1>6. \A c \in Components : Live(c)' = Live(c) /\ ~Up(c)' /\ ~Down(c)'
  BY <1>1, <1>3 DEF Up, Down, Live, ReloadAt, StartAt
<1>7. BlockedAfterStart' /\ ConfigRead' /\ ToldByStop' /\ DownIsNone'
  BY <1>1, <1>2, <1>3, <1>6
     DEF IInv, BlockedAfterStart, ConfigRead, ToldByStop, DownIsNone, ExitAt
<1>8. Owned' /\ Applied'
  BY <1>1, <1>3, <1>6 DEF IInv, Owned, Applied
<1>9. MaskedByReload'
  BY <1>1, <1>3, <1>6 DEF IInv, MaskedByReload, ReloadAt
<1> QED BY <1>4, <1>5, <1>7, <1>8, <1>9 DEF IInv

\* An operation that leaves the task's place in the list to these two.
LEMMA Ended ==
  ASSUME IInv, todo # <<>>, ~joining, task' = task,
         todo' = Tail(todo) \/ todo' = <<>>
  PROVE  /\ TodoOK' /\ todo' \in Seq(Ops)
         /\ Left' = Left - 1 \/ Left' = 0
         /\ todo' = Tail(todo) => Left' = Left - 1
         /\ todo' = <<>> => Left' = 0
         /\ Left \in Nat \ {0}
<1>1. todo \in Seq(Ops)
  BY DEF IInv, TypeOK
<1>2. Left \in Nat \ {0}
  BY <1>1 DEF Left
<1> QED BY <1>2, TodoSteps DEF IInv

LEMMA ParseOK ==
  ASSUME IInv, NEW cfg \in Configs \cup {NoConfig}, Parse(cfg)
  PROVE  IInv'
<1>1. /\ status = "alive" /\ todo # <<>> /\ Head(todo) = ParseOp /\ ~joining
      /\ config' = cfg
      /\ status' = IF cfg = NoConfig /\ task = "start" THEN "exit" ELSE status
      /\ failed' = (failed \/ ~(cfg # NoConfig))
      /\ IF cfg # NoConfig \/ task = "start" THEN todo' = Tail(todo) ELSE todo' = <<>>
      /\ UNCHANGED <<file, task, joining, blocked, pending, query, reloaded>>
      /\ UNCHANGED <<conf, run, thread, masked, open>>
  BY DEF Parse, Doing, Finish, Proceed, compVars
<1>2. \/ task = "start" /\ Left = 5
      \/ task = "reload" /\ Left = 9
  BY <1>1, Positions DEF IInv
<1>3. /\ TodoOK' /\ todo' \in Seq(Ops)
      /\ cfg # NoConfig \/ task = "start" => Left' = Left - 1
      /\ ~(cfg # NoConfig \/ task = "start") => Left' = 0
  BY <1>1, Ended
<1>4. TypeOK'
  BY <1>1, <1>3 DEF IInv, TypeOK
<1>10. ~failed' => ~failed /\ cfg # NoConfig
  BY <1>1, Zenon
<1>5. ASSUME NEW c \in Components
      PROVE  /\ Live(c)' <=> Live(c)
             /\ task = "start" => Down(c)
             /\ status' = "alive" /\ ~failed' => ~Up(c)'
             /\ status' = "alive" /\ Down(c)' => Down(c)
  <2>1. Live(c)' <=> Live(c)
    BY <1>1 DEF Live
  <2>2. task = "start" => Down(c)
    BY <1>2 DEF Down, StartAt
  <2>3. status' = "alive" /\ ~failed' => Left' = Left - 1
    BY <1>1, <1>3, <1>10
  <2>4. status' = "alive" /\ ~failed' => ~Up(c)'
    BY <1>1, <1>2, <2>3 DEF Up, ReloadAt, StartAt
  <2>5. status' = "alive" /\ Down(c)' => Down(c)
    BY <1>1, <1>2, <1>3 DEF Down, ReloadAt, StartAt
  <2> QED BY <2>1, <2>2, <2>4, <2>5
<1>6. BlockedAfterStart' /\ ConfigRead' /\ ToldByStop'
  BY <1>1, <1>2, <1>3, <1>5 DEF IInv, BlockedAfterStart, ConfigRead, ToldByStop
<1>7. DownIsNone'
  BY <1>1, <1>2, <1>5 DEF IInv, DownIsNone
<1>8. Owned'
  BY <1>1, <1>2, <1>3, <1>10 DEF IInv, Owned
<1>11. Applied'
  BY <1>5 DEF Applied
<1>9. MaskedByReload'
  <2>1. task' = "reload" /\ ~failed' => Left' = 8
    BY <1>1, <1>2, <1>3, <1>10
  <2> QED BY <1>1, <1>5, <2>1 DEF IInv, MaskedByReload, ReloadAt
<1> QED BY <1>3, <1>4, <1>6, <1>7, <1>8, <1>11, <1>9 DEF IInv

LEMMA StopOK ==
  ASSUME IInv, NEW c \in Components, Stop(c)
  PROVE  IInv'
<1>1. /\ status = "alive" /\ todo # <<>> /\ Head(todo) = StopOp(c) /\ ~joining
      /\ run' = [run EXCEPT ![c] = FALSE]
      /\ joining' = TRUE
      /\ UNCHANGED <<status, file, task, todo, blocked, pending, config, conf, thread,
                     masked, open, query, failed, reloaded>>
  BY DEF Stop, Doing
<1>2. TodoOK' /\ Left' = Left
  BY <1>1, TodoSteps DEF IInv
<1>3. TypeOK'
  BY <1>1 DEF IInv, TypeOK
<1>4. \A d \in Components : /\ Up(d)' = Up(d) /\ Down(d)' = Down(d) /\ Live(d)' = Live(d)
                            /\ AppliedTo(d)' = AppliedTo(d)
  BY <1>1, <1>2 DEF Up, Down, Live, AppliedTo, Wanted
<1>5. ToldByStop'
  <2>1. run \in [Components -> BOOLEAN]
    BY DEF IInv, TypeOK
  <2>2. \A d \in Components \ {c} : run'[d] = run[d]
    BY <1>1, <2>1
  <2>3. \A d \in Components : Live(d) => run[d]
    BY <1>1 DEF IInv, ToldByStop
  <2> QED BY <1>1, <1>4, <2>2, <2>3, Zenon DEF ToldByStop
<1>6. BlockedAfterStart' /\ ConfigRead' /\ DownIsNone'
  BY <1>1, <1>2, <1>4 DEF IInv, BlockedAfterStart, ConfigRead, DownIsNone
<1>7. Owned' /\ Applied' /\ MaskedByReload'
  BY <1>1, <1>2, <1>4 DEF IInv, Owned, Applied, MaskedByReload
<1> QED BY <1>2, <1>3, <1>5, <1>6, <1>7 DEF IInv

LEMMA JoinOK ==
  ASSUME IInv, NEW c \in Components, Join(c)
  PROVE  IInv'
<1>1. /\ status = "alive" /\ joining /\ Head(todo) = StopOp(c)
      /\ thread[c] \in {"none", "done"}
      /\ joining' = FALSE
      /\ todo' = Tail(todo)
      /\ thread' = [thread EXCEPT ![c] = "none"]
      /\ open' = IF c = "loopback" THEN open ELSE [open EXCEPT ![c] = {}]
      /\ UNCHANGED <<status, file, task, blocked, pending, config, conf, run, masked,
                     query, failed, reloaded>>
  BY DEF Join, Proceed
<1>2. todo # <<>>
  BY <1>1 DEF IInv, TypeOK
<1>3. \/ task = "reload" /\ Left = ReloadAt(c) + 1
      \/ task = "reload" /\ Left = 10 /\ c = "loopback"
      \/ task = "exit" /\ Left = ExitAt(c)
  BY <1>1, <1>2, Positions DEF IInv
<1>4. TodoOK' /\ todo' \in Seq(Ops) /\ Left' = Left - 1 /\ Left \in Nat \ {0}
  BY <1>1, <1>2, TodoSteps DEF IInv
<1>5. TypeOK'
  BY <1>1, <1>4 DEF IInv, TypeOK
<1>6. /\ thread \in [Components -> {"none", "begin", "running", "done"}]
      /\ open \in [Components -> SUBSET Families]
  BY DEF IInv, TypeOK
<1>7. /\ \A d \in Components \ {c} : thread'[d] = thread[d] /\ open'[d] = open[d]
      /\ thread'[c] = "none"
      /\ open'[c] = {}
  <2>1. c = "loopback" => open["loopback"] = {}
    BY <1>1 DEF IInv, Owned
  <2> QED BY <1>1, <1>6, <2>1
<1>8. \A d \in Components :
        /\ Live(d)' <=> Live(d) /\ d # c
        /\ Up(d)' => Up(d) /\ d # c
        /\ task = "reload" /\ Left' < ReloadAt(d) => Left < ReloadAt(d)
        /\ Down(d)' => d = c \/ Down(d)
  BY <1>1, <1>3, <1>4, <1>7 DEF Live, Up, Down, ReloadAt, StartAt, Components
<1>9. ToldByStop'
  <2>1. \A d \in Components : d # c => StopOp(d) # StopOp(c)
    BY DEF StopOp
  <2> QED BY <1>1, <1>8, <2>1 DEF IInv, ToldByStop
<1>10. BlockedAfterStart' /\ ConfigRead'
  BY <1>1, <1>3, <1>4 DEF IInv, BlockedAfterStart, ConfigRead, ReloadAt
<1>11. DownIsNone'
  BY <1>1, <1>3, <1>4, <1>7, <1>8 DEF IInv, DownIsNone, ExitAt, Components
<1>12. Owned'
  BY <1>1, <1>3, <1>4, <1>7 DEF IInv, Owned, Components, ReloadAt
<1>13. Applied'
  BY <1>1, <1>7, <1>8 DEF IInv, Applied, AppliedTo, Wanted
<1>14. MaskedByReload'
  BY <1>1, <1>8 DEF IInv, MaskedByReload
<1> QED BY <1>4, <1>5, <1>9, <1>10, <1>11, <1>12, <1>13, <1>14 DEF IInv

\* What the operations that start a component have in common: the others are left
\* alone, and a failure is remembered.
Starts(c) ==
  /\ Doing(StartOp(c))
  /\ StartFrame
  /\ failed' \in BOOLEAN /\ (failed => failed')
  /\ todo' = Tail(todo) \/ (todo' = <<>> /\ failed')
  /\ conf' \in [Components -> Configs \cup {NoConfig}]
  /\ run' \in [Components -> BOOLEAN]
  /\ thread' \in [Components -> {"none", "begin", "running", "done"}]
  /\ masked' \in [Components -> BOOLEAN]
  /\ open' \in [Components -> SUBSET Families]
  /\ \A d \in Components \ {c} :
       /\ conf'[d] = conf[d] /\ run'[d] = run[d] /\ thread'[d] = thread[d]
       /\ masked'[d] = masked[d] /\ open'[d] = open[d]

\* The component that is started.
Started(c) ==
  /\ thread'[c] \in {"begin", "running"} => run'[c] /\ (blocked => masked'[c])
  /\ ~failed' => AppliedTo(c)'
  /\ thread'[c] = "begin" => c = "loopback"
  /\ c = "loopback" => conf'[c] # NoConfig
  /\ open'[c] # {} =>
       \/ c = "sender" /\ (thread'[c] # "none" \/ failed')
       \/ c = "receiver" /\ thread'[c] # "none"

\* When a component is started there is a configuration, and nothing is left of the
\* component's earlier thread.
LEMMA BeforeStart ==
  ASSUME IInv, NEW c \in Components, Doing(StartOp(c))
  PROVE  /\ thread[c] = "none" /\ open[c] = {}
         /\ config \in Configs /\ config \in ConfigType
         /\ status = "alive" /\ todo # <<>> /\ ~joining
         /\ \/ task = "start" /\ Left = StartAt(c)
            \/ task = "reload" /\ Left = ReloadAt(c)
<1>1. status = "alive" /\ todo # <<>> /\ Head(todo) = StartOp(c) /\ ~joining
  BY DEF Doing
<1>2. \/ task = "start" /\ Left = StartAt(c)
      \/ task = "reload" /\ Left = ReloadAt(c)
  BY <1>1, Positions DEF IInv
<1>3. Down(c)
  BY <1>2 DEF Down, StartAt
<1>4. config # NoConfig
  BY <1>1, <1>2 DEF IInv, ConfigRead, StartAt, ReloadAt
<1>5. config \in Configs /\ config \in ConfigType
  BY <1>4, ConfigsAssumption DEF IInv, TypeOK
<1> QED BY <1>1, <1>2, <1>3, <1>5 DEF IInv, DownIsNone

LEMMA StartsOK ==
  ASSUME IInv, NEW c \in Components, Starts(c), Started(c)
  PROVE  IInv'
<1>1. /\ status = "alive" /\ todo # <<>> /\ ~joining
      /\ UNCHANGED <<status, file, task, joining, blocked, pending, config, query, reloaded>>
  BY DEF Starts, Doing, StartFrame
<1>2. \/ task = "start" /\ Left = StartAt(c)
      \/ task = "reload" /\ Left = ReloadAt(c)
  BY BeforeStart DEF Starts
<1>3. /\ TodoOK' /\ todo' \in Seq(Ops)
      /\ Left' = Left - 1 \/ (Left' = 0 /\ failed')
  BY <1>1, Ended DEF Starts
<1>4. TypeOK'
  BY <1>1, <1>3 DEF IInv, TypeOK, Starts
<1>5. ASSUME NEW d \in Components
      PROVE  /\ d # c => (Live(d)' <=> Live(d))
             /\ d # c /\ AppliedTo(d) => AppliedTo(d)'
             /\ ~failed' /\ Up(d)' => d = c \/ Up(d)
             /\ Down(d)' => Down(d) /\ d # c
             /\ task = "reload" /\ ~failed' /\ Left' < ReloadAt(d) => d = c \/ Left < ReloadAt(d)
  <2>1. d # c => (Live(d)' <=> Live(d))
    BY DEF Starts, Live
  <2>2. d # c /\ AppliedTo(d) => AppliedTo(d)'
    BY <1>1, <2>1 DEF Starts, AppliedTo, Wanted
  <2>3. ~failed' /\ Up(d)' => d = c \/ Up(d)
    BY <1>1, <1>2, <1>3 DEF Up, StartAt, ReloadAt, Components
  <2>4. Down(d)' => Down(d) /\ d # c
    BY <1>1, <1>2, <1>3 DEF Down, StartAt, ReloadAt, Components
  <2>5. task = "reload" /\ ~failed' /\ Left' < ReloadAt(d) => d = c \/ Left < ReloadAt(d)
    BY <1>2, <1>3 DEF StartAt, ReloadAt, Components
  <2> QED BY <2>1, <2>2, <2>3, <2>4, <2>5
<1>6. BlockedAfterStart' /\ ConfigRead'
  BY <1>1, <1>2, <1>3, BeforeStart, ConfigsAssumption
     DEF IInv, BlockedAfterStart, ConfigRead, Starts, StartAt, ReloadAt
<1>7. ToldByStop'
  BY <1>1, <1>5 DEF IInv, ToldByStop, Starts, Started, Live
<1>8. DownIsNone'
  BY <1>1, <1>2, <1>5 DEF IInv, DownIsNone, Starts
<1>9. Owned'
  <2>1. /\ \A d \in Components : thread'[d] = "begin" => d = "loopback"
        /\ thread'["loopback"] \in {"begin", "running"} => conf'["loopback"] # NoConfig
        /\ open'["loopback"] # {} => thread'["loopback"] = "running"
        /\ open'["files"] = {}
        /\ open'["receiver"] # {} => thread'["receiver"] # "none"
    BY DEF IInv, Owned, Starts, Started, Components
  <2>2. ASSUME open'["sender"] # {}, thread'["sender"] = "none"
        PROVE  failed' \/ (task' = "reload" /\ Left' >= 6) \/ task' = "exit"
    <3>1. CASE c = "sender"
      BY <2>2, <3>1 DEF Started
    <3>2. CASE c # "sender"
      <4>1. failed \/ (task = "reload" /\ Left >= 6) \/ task = "exit"
        BY <2>2, <3>2 DEF IInv, Owned, Starts, Components
      <4>2. failed => failed'
        BY DEF Starts
      <4> QED BY <1>1, <1>2, <1>3, <3>2, <4>1, <4>2 DEF ReloadAt, Components
    <3> QED BY <3>1, <3>2
  <2> QED BY <2>1, <2>2 DEF Owned
<1>10. Applied'
  <2>1. ~failed' => ~failed
    BY DEF Starts
  <2> QED BY <1>1, <1>5, <2>1 DEF IInv, Applied, Started
<1>11. MaskedByReload'
  <2>1. (~failed' => ~failed) /\ masked'[c] \in BOOLEAN
    BY DEF Starts
  <2>2. Live(c)' /\ blocked => masked'[c]
    BY DEF Started, Live
  <2>3. \A d \in Components : d # c => masked'[d] = masked[d]
    BY DEF Starts
  <2>4. task = "reload" => blocked
    BY DEF IInv, BlockedAfterStart
  <2> QED BY <1>1, <1>5, <2>1, <2>2, <2>3, <2>4 DEF IInv, MaskedByReload
<1> QED BY <1>3, <1>4, <1>6, <1>7, <1>8, <1>9, <1>10, <1>11 DEF IInv

\* The result of an operation that starts a component.
LEMMA FinishOK ==
  ASSUME IInv, NEW ok \in BOOLEAN, Finish(ok)
  PROVE  /\ failed' \in BOOLEAN /\ (failed => failed') /\ (~failed' => ok)
         /\ todo' = Tail(todo) \/ (todo' = <<>> /\ failed')
<1>1. failed \in BOOLEAN /\ failed' = (failed \/ ~ok)
  BY DEF IInv, TypeOK, Finish
<1>2. IF ok \/ task = "start" THEN todo' = Tail(todo) ELSE todo' = <<>>
  BY DEF Finish, Proceed
<1>3. failed' \in BOOLEAN /\ (failed => failed') /\ (~failed' => ok) /\ (~ok => failed')
  BY <1>1, Zenon
<1> QED BY <1>2, <1>3

LEMMA StartFilesOK ==
  ASSUME IInv, StartFiles
  PROVE  IInv'
<1>1. Doing(StartOp("files")) /\ StartFrame /\ Finish(TRUE) /\ open' = open
      /\ "files" \in Components
  BY DEF StartFiles, Components
<1>2. /\ thread["files"] = "none" /\ open["files"] = {} /\ config \in Configs
      /\ config \in ConfigType
  BY <1>1, BeforeStart
<1>3. /\ failed' \in BOOLEAN /\ (failed => failed')
      /\ todo' = Tail(todo) \/ (todo' = <<>> /\ failed')
  BY <1>1, FinishOK
<1>4. /\ conf \in [Components -> Configs \cup {NoConfig}] /\ run \in [Components -> BOOLEAN]
      /\ thread \in [Components -> {"none", "begin", "running", "done"}]
      /\ masked \in [Components -> BOOLEAN] /\ open \in [Components -> SUBSET Families]
      /\ blocked \in BOOLEAN
  BY DEF IInv, TypeOK
<1>5. CASE config.files
  <2>1. /\ run' = [run EXCEPT !["files"] = TRUE]
        /\ thread' = [thread EXCEPT !["files"] = "running"]
        /\ masked' = [masked EXCEPT !["files"] = blocked]
        /\ conf' = [conf EXCEPT !["files"] = config]
    BY <1>5 DEF StartFiles, Spawn
  <2>2. Starts("files")
    BY <1>1, <1>2, <1>3, <1>4, <2>1 DEF Starts
  <2>3. /\ run'["files"] /\ thread'["files"] = "running" /\ conf'["files"] = config
        /\ masked'["files"] = blocked /\ open'["files"] = {} /\ config' = config
    BY <1>1, <1>2, <1>4, <2>1 DEF StartFrame
  <2>4. Started("files")
    BY <1>5, <2>3 DEF Started, AppliedTo, Live, Wanted
  <2> QED BY <1>1, <2>2, <2>4, StartsOK
<1>6. CASE ~config.files
  <2>1. UNCHANGED <<conf, run, thread, masked>> /\ config' = config
    BY <1>1, <1>6 DEF StartFiles, StartFrame
  <2>2. Starts("files")
    BY <1>1, <1>3, <1>4, <2>1 DEF Starts
  <2>3. Started("files")
    BY <1>1, <1>2, <1>6, <2>1 DEF Started, AppliedTo, Live, Wanted
  <2> QED BY <1>1, <2>2, <2>3, StartsOK
<1> QED BY <1>5, <1>6

LEMMA OpenSenderOK ==
  ASSUME IInv, NEW opened \in SUBSET Families, NEW listenerOk \in BOOLEAN,
         OpenSender(opened, listenerOk)
  PROVE  IInv'
<1> DEFINE sockets == open["sender"] \cup opened
           ok == sockets = config.sender /\ listenerOk
<1>1. /\ Doing(StartOp("sender")) /\ StartFrame /\ "sender" \in Components
      /\ opened \subseteq config.sender
      /\ conf' = [conf EXCEPT !["sender"] = config]
      /\ open' = [open EXCEPT !["sender"] = sockets]
      /\ IF ok /\ config.sender # {} THEN Spawn("sender", "running")
         ELSE UNCHANGED <<run, thread, masked>>
      /\ Finish(config.sender = {} \/ ok)
  BY DEF OpenSender, SenderOpens, Components
<1>2. /\ thread["sender"] = "none" /\ open["sender"] = {} /\ config \in Configs
      /\ config \in ConfigType
  BY <1>1, BeforeStart
<1>3. /\ failed' \in BOOLEAN /\ (failed => failed') /\ (~failed' => (config.sender = {} \/ ok))
      /\ todo' = Tail(todo) \/ (todo' = <<>> /\ failed')
  BY <1>1, FinishOK
<1>4. /\ conf \in [Components -> Configs \cup {NoConfig}] /\ run \in [Components -> BOOLEAN]
      /\ thread \in [Components -> {"none", "begin", "running", "done"}]
      /\ masked \in [Components -> BOOLEAN] /\ open \in [Components -> SUBSET Families]
      /\ blocked \in BOOLEAN /\ sockets = opened
  BY <1>2 DEF IInv, TypeOK
<1>5. config' = config /\ conf'["sender"] = config /\ open'["sender"] = opened
  BY <1>1, <1>4 DEF StartFrame
<1>6. CASE ok /\ config.sender # {}
  <2>1. /\ run' = [run EXCEPT !["sender"] = TRUE]
        /\ thread' = [thread EXCEPT !["sender"] = "running"]
        /\ masked' = [masked EXCEPT !["sender"] = blocked]
    BY <1>1, <1>6 DEF Spawn
  <2>2. Starts("sender")
    BY <1>1, <1>2, <1>3, <1>4, <2>1 DEF Starts
  <2>3. run'["sender"] /\ thread'["sender"] = "running" /\ masked'["sender"] = blocked
    BY <1>1, <1>4, <2>1
  <2>4. Started("sender")
    BY <1>4, <1>5, <1>6, <2>3 DEF Started, AppliedTo, Live, Wanted
  <2> QED BY <1>1, <2>2, <2>4, StartsOK
<1>7. CASE ~(ok /\ config.sender # {})
  <2>1. UNCHANGED <<run, thread, masked>>
    BY <1>1, <1>7
  <2>2. Starts("sender")
    BY <1>1, <1>2, <1>3, <1>4, <2>1 DEF Starts
  <2>3. ~failed' => config.sender = {} /\ opened = {}
    BY <1>1, <1>3, <1>7
  <2>4. Started("sender")
    BY <1>2, <1>5, <2>1, <2>3 DEF Started, AppliedTo, Live, Wanted
  <2> QED BY <1>1, <2>2, <2>4, StartsOK
<1> QED BY <1>6, <1>7

LEMMA OpenReceiverOK ==
  ASSUME IInv, NEW opened \in SUBSET Families, NEW pipeOk \in BOOLEAN,
         OpenReceiver(opened, pipeOk)
  PROVE  IInv'
<1> DEFINE sockets == open["receiver"] \cup opened
           wanted  == config.receiver
           ok == sockets \cap wanted # {} /\ pipeOk
<1>1. /\ Doing(StartOp("receiver")) /\ StartFrame /\ "receiver" \in Components
      /\ opened \subseteq wanted
      /\ conf' = [conf EXCEPT !["receiver"] = config]
      /\ IF wanted = {} THEN UNCHANGED <<run, thread, masked, open>>
         ELSE IF ok THEN /\ Spawn("receiver", "running")
                         /\ open' = [open EXCEPT !["receiver"] = sockets]
         ELSE /\ open' = [open EXCEPT !["receiver"] = {}]
              /\ run' = [run EXCEPT !["receiver"] = FALSE]
              /\ UNCHANGED <<thread, masked>>
      /\ Finish(wanted = {} \/ ok)
  BY DEF OpenReceiver, ReceiverOpens, Components
<1>2. /\ thread["receiver"] = "none" /\ open["receiver"] = {} /\ config \in Configs
      /\ config \in ConfigType
  BY <1>1, BeforeStart
<1>3. /\ failed' \in BOOLEAN /\ (failed => failed') /\ (~failed' => (wanted = {} \/ ok))
      /\ todo' = Tail(todo) \/ (todo' = <<>> /\ failed')
  BY <1>1, FinishOK
<1>4. /\ conf \in [Components -> Configs \cup {NoConfig}] /\ run \in [Components -> BOOLEAN]
      /\ thread \in [Components -> {"none", "begin", "running", "done"}]
      /\ masked \in [Components -> BOOLEAN] /\ open \in [Components -> SUBSET Families]
      /\ blocked \in BOOLEAN /\ sockets = opened
  BY <1>2 DEF IInv, TypeOK
<1>5. config' = config /\ conf'["receiver"] = config
  BY <1>1, <1>4 DEF StartFrame
<1>6. CASE wanted # {} /\ ok
  <2>1. /\ run' = [run EXCEPT !["receiver"] = TRUE]
        /\ thread' = [thread EXCEPT !["receiver"] = "running"]
        /\ masked' = [masked EXCEPT !["receiver"] = blocked]
        /\ open' = [open EXCEPT !["receiver"] = opened]
    BY <1>1, <1>4, <1>6 DEF Spawn
  <2>2. Starts("receiver")
    BY <1>1, <1>2, <1>3, <1>4, <2>1 DEF Starts
  <2>3. /\ run'["receiver"] /\ thread'["receiver"] = "running" /\ masked'["receiver"] = blocked
        /\ open'["receiver"] = opened /\ opened # {}
    BY <1>1, <1>4, <1>6, <2>1
  <2>4. Started("receiver")
    BY <1>1, <1>5, <1>6, <2>3 DEF Started, AppliedTo, Live, Wanted
  <2> QED BY <1>1, <2>2, <2>4, StartsOK
<1>7. CASE ~(wanted # {} /\ ok)
  <2>1. /\ UNCHANGED <<thread, masked>>
        /\ run' \in {run, [run EXCEPT !["receiver"] = FALSE]}
        /\ open' \in {open, [open EXCEPT !["receiver"] = {}]}
    BY <1>1, <1>7
  <2>2. Starts("receiver")
    BY <1>1, <1>2, <1>3, <1>4, <2>1 DEF Starts
  <2>3. open'["receiver"] = {}
    BY <1>2, <1>4, <2>1
  <2>4. ~failed' => wanted = {}
    BY <1>3, <1>7
  <2>5. Started("receiver")
    BY <1>2, <1>5, <2>1, <2>3, <2>4 DEF Started, AppliedTo, Live, Wanted
  <2> QED BY <1>1, <2>2, <2>5, StartsOK
<1> QED BY <1>6, <1>7

LEMMA StartLoopbackOK ==
  ASSUME IInv, NEW pipeOk \in BOOLEAN, StartLoopback(pipeOk)
  PROVE  IInv'
<1>1. /\ Doing(StartOp("loopback")) /\ StartFrame /\ "loopback" \in Components
      /\ conf' = [conf EXCEPT !["loopback"] = config]
      /\ IF pipeOk THEN Spawn("loopback", "begin")
         ELSE run' = [run EXCEPT !["loopback"] = TRUE] /\ UNCHANGED <<thread, masked>>
      /\ Finish(pipeOk)
      /\ open' = open
  BY DEF StartLoopback, Components
<1>2. /\ thread["loopback"] = "none" /\ open["loopback"] = {} /\ config \in Configs
      /\ config # NoConfig
  BY <1>1, BeforeStart, ConfigsAssumption
<1>3. /\ failed' \in BOOLEAN /\ (failed => failed') /\ (~failed' => pipeOk)
      /\ todo' = Tail(todo) \/ (todo' = <<>> /\ failed')
  BY <1>1, FinishOK
<1>4. /\ conf \in [Components -> Configs \cup {NoConfig}] /\ run \in [Components -> BOOLEAN]
      /\ thread \in [Components -> {"none", "begin", "running", "done"}]
      /\ masked \in [Components -> BOOLEAN] /\ open \in [Components -> SUBSET Families]
      /\ blocked \in BOOLEAN
  BY DEF IInv, TypeOK
<1>5. config' = config /\ conf'["loopback"] = config /\ open'["loopback"] = {}
  BY <1>1, <1>2, <1>4 DEF StartFrame
<1>6. CASE pipeOk
  <2>1. /\ run' = [run EXCEPT !["loopback"] = TRUE]
        /\ thread' = [thread EXCEPT !["loopback"] = "begin"]
        /\ masked' = [masked EXCEPT !["loopback"] = blocked]
    BY <1>1, <1>6 DEF Spawn
  <2>2. Starts("loopback")
    BY <1>1, <1>2, <1>3, <1>4, <2>1 DEF Starts
  <2>3. run'["loopback"] /\ thread'["loopback"] = "begin" /\ masked'["loopback"] = blocked
    BY <1>1, <1>4, <2>1
  <2>4. Started("loopback")
    BY <1>2, <1>5, <2>3 DEF Started, AppliedTo, Live
  <2> QED BY <1>1, <2>2, <2>4, StartsOK
<1>7. CASE ~pipeOk
  <2>1. run' = [run EXCEPT !["loopback"] = TRUE] /\ UNCHANGED <<thread, masked>>
    BY <1>1, <1>7
  <2>2. Starts("loopback")
    BY <1>1, <1>2, <1>3, <1>4, <2>1 DEF Starts
  <2>3. failed'
    BY <1>3, <1>7
  <2>4. Started("loopback")
    BY <1>2, <1>5, <2>1, <2>3 DEF Started
  <2> QED BY <1>1, <2>2, <2>4, StartsOK
<1> QED BY <1>6, <1>7

\* A thread that was told to end belongs to a component that is being stopped.
LEMMA ToldNotUp ==
  ASSUME IInv, NEW c \in Components, Live(c), ~run[c]
  PROVE  ~Up(c)
<1>1. joining /\ Head(todo) = StopOp(c) /\ todo # <<>>
  BY DEF IInv, ToldByStop, TypeOK
<1>2. \/ task = "reload" /\ Left = ReloadAt(c) + 1
      \/ task = "reload" /\ Left = 10 /\ c = "loopback"
      \/ task = "exit" /\ Left = ExitAt(c)
  BY <1>1, Positions DEF IInv
<1> QED BY <1>2 DEF Up, ReloadAt

\* A thread goes on: the other components are left alone, and a live thread does
\* not belong to one that is down.
LEMMA ThreadMoves ==
  ASSUME IInv, NEW c \in Components, Live(c), status = "alive",
         UNCHANGED <<conf, masked, file, query, reloaded>>, UNCHANGED mainVars,
         thread' \in [Components -> {"none", "begin", "running", "done"}],
         run' \in [Components -> BOOLEAN],
         open' \in [Components -> SUBSET Families],
         failed' \in BOOLEAN, failed => failed',
         \A d \in Components \ {c} : thread'[d] = thread[d] /\ run'[d] = run[d] /\ open'[d] = open[d],
         thread'[c] \in {"running", "done"},
         thread'[c] = "running" => run'[c] = run[c],
         open'[c] # {} => c # "files" /\ (c = "loopback" => thread'[c] = "running"),
         Up(c) /\ ~failed' => AppliedTo(c)'
  PROVE  IInv'
<1>1. UNCHANGED <<status, task, todo, joining, blocked, pending, config>>
  BY DEF mainVars
<1>2. TodoOK' /\ Left' = Left
  BY <1>1, TodoSteps DEF IInv
<1>3. TypeOK'
  BY <1>1 DEF IInv, TypeOK
<1>4. ASSUME NEW d \in Components
      PROVE  /\ Up(d)' <=> Up(d)
             /\ Down(d)' <=> Down(d)
             /\ Live(d)' => Live(d)
             /\ d # c /\ AppliedTo(d) => AppliedTo(d)'
  BY <1>1, <1>2 DEF Up, Down, Live, AppliedTo, Wanted
<1>5. BlockedAfterStart' /\ ConfigRead'
  BY <1>1, <1>2 DEF IInv, BlockedAfterStart, ConfigRead
<1>6. ToldByStop'
  BY <1>1, <1>4 DEF IInv, ToldByStop, Live
<1>7. DownIsNone'
  <2>1. ~Down(c) /\ ~(task = "exit" /\ Left < ExitAt(c))
    BY DEF IInv, DownIsNone, Live
  <2> QED BY <1>1, <1>2, <1>4, <2>1 DEF IInv, DownIsNone
<1>8. Owned'
  <2>1. /\ \A d \in Components : thread'[d] = "begin" => d = "loopback"
        /\ thread'["loopback"] \in {"begin", "running"} => conf'["loopback"] # NoConfig
        /\ open'["loopback"] # {} => thread'["loopback"] = "running"
        /\ open'["files"] = {}
        /\ open'["receiver"] # {} => thread'["receiver"] # "none"
    BY DEF IInv, Owned, Components, Live
  <2>2. ASSUME open'["sender"] # {}, thread'["sender"] = "none"
        PROVE  failed' \/ (task' = "reload" /\ Left' >= 6) \/ task' = "exit"
    <3>1. c # "sender"
      BY <2>2
    <3>2. failed \/ (task = "reload" /\ Left >= 6) \/ task = "exit"
      BY <2>2, <3>1 DEF IInv, Owned, Components
    <3> QED BY <1>1, <1>2, <3>2
  <2> QED BY <2>1, <2>2 DEF Owned
<1>9. Applied'
  BY <1>1, <1>4 DEF IInv, Applied
<1>10. MaskedByReload'
  BY <1>1, <1>2, <1>4 DEF IInv, MaskedByReload
<1> QED BY <1>2, <1>3, <1>5, <1>6, <1>7, <1>8, <1>9, <1>10 DEF IInv

LEMMA LoopbackOpenOK ==
  ASSUME IInv, NEW opened \in SUBSET Families, LoopbackOpen(opened)
  PROVE  IInv'
<1> DEFINE wanted  == conf["loopback"].loopback
           sockets == (open["loopback"] \ wanted) \cup opened
<1>1. /\ status = "alive" /\ thread["loopback"] = "begin" /\ "loopback" \in Components
      /\ opened \subseteq wanted
      /\ IF sockets = wanted
         THEN /\ open' = [open EXCEPT !["loopback"] = sockets]
              /\ thread' = [thread EXCEPT !["loopback"] = "running"]
              /\ UNCHANGED <<run, failed>>
         ELSE /\ open' = [open EXCEPT !["loopback"] = {}]
              /\ thread' = [thread EXCEPT !["loopback"] = "done"]
              /\ run' = [run EXCEPT !["loopback"] = FALSE]
              /\ failed' = (failed \/ run["loopback"])
      /\ UNCHANGED <<conf, masked, file, query, reloaded>>
      /\ UNCHANGED mainVars
  BY DEF LoopbackOpen, LoopbackOpens, Components
<1>2. Live("loopback") /\ open["loopback"] = {} /\ sockets = opened
  BY <1>1 DEF IInv, Owned, Live
<1>3. /\ thread \in [Components -> {"none", "begin", "running", "done"}]
      /\ run \in [Components -> BOOLEAN]
      /\ open \in [Components -> SUBSET Families]
      /\ failed \in BOOLEAN
  BY DEF IInv, TypeOK
<1>4. config' = config /\ conf' = conf
  BY <1>1 DEF mainVars
<1>5. CASE sockets = wanted
  <2>1. /\ open' = [open EXCEPT !["loopback"] = opened]
        /\ thread' = [thread EXCEPT !["loopback"] = "running"]
        /\ run' = run /\ failed' = failed /\ wanted = opened
    BY <1>1, <1>2, <1>5
  <2>2. open'["loopback"] = opened /\ thread'["loopback"] = "running"
    BY <1>1, <1>3, <2>1
  <2>3. ASSUME Up("loopback"), ~failed' PROVE AppliedTo("loopback")'
    <3>1. conf["loopback"] = config
      BY <1>1, <2>1, <2>3 DEF IInv, Applied, AppliedTo
    <3>2. config["loopback"] = opened
      BY <2>1, <3>1
    <3> QED BY <1>4, <2>2, <3>1, <3>2 DEF AppliedTo, Live
  <2>4. \A d \in Components \ {"loopback"} :
          thread'[d] = thread[d] /\ run'[d] = run[d] /\ open'[d] = open[d]
    BY <1>3, <2>1
  <2>5. /\ thread' \in [Components -> {"none", "begin", "running", "done"}]
        /\ run' \in [Components -> BOOLEAN]
        /\ open' \in [Components -> SUBSET Families]
    BY <1>3, <2>1
  <2> QED BY <1>1, <1>2, <1>3, <2>1, <2>2, <2>3, <2>4, <2>5, ThreadMoves
<1>6. CASE sockets # wanted
  <2>1. /\ open' = [open EXCEPT !["loopback"] = {}]
        /\ thread' = [thread EXCEPT !["loopback"] = "done"]
        /\ run' = [run EXCEPT !["loopback"] = FALSE]
        /\ failed' = (failed \/ run["loopback"])
    BY <1>1, <1>6
  <2>2. open'["loopback"] = {} /\ thread'["loopback"] = "done"
    BY <1>1, <1>3, <2>1
  <2>3. run["loopback"] \in BOOLEAN
    BY <1>1, <1>3
  <2>4. failed' \in BOOLEAN /\ (failed => failed') /\ (run["loopback"] => failed')
    BY <1>3, <2>1, <2>3, Zenon
  <2>5. ASSUME Up("loopback"), ~failed' PROVE AppliedTo("loopback")'
    BY <1>1, <1>2, <2>4, <2>5, ToldNotUp
  <2>6. \A d \in Components \ {"loopback"} :
          thread'[d] = thread[d] /\ run'[d] = run[d] /\ open'[d] = open[d]
    BY <1>3, <2>1
  <2>7. /\ thread' \in [Components -> {"none", "begin", "running", "done"}]
        /\ run' \in [Components -> BOOLEAN]
        /\ open' \in [Components -> SUBSET Families]
    BY <1>3, <2>1
  <2> QED BY <1>1, <1>2, <2>2, <2>4, <2>5, <2>6, <2>7, ThreadMoves
<1> QED BY <1>5, <1>6

LEMMA ThreadEndOK ==
  ASSUME IInv, LoopbackEnd \/ \E c \in Components \ {"loopback"} : ThreadEnd(c)
  PROVE  IInv'
<1>1. PICK c \in Components :
        /\ status = "alive" /\ thread[c] = "running" /\ ~run[c]
        /\ thread' = [thread EXCEPT ![c] = "done"]
        /\ open' = IF c = "loopback" THEN [open EXCEPT ![c] = {}] ELSE open
        /\ UNCHANGED <<conf, run, masked, file, query, failed, reloaded>>
        /\ UNCHANGED mainVars
  BY DEF LoopbackEnd, ThreadEnd, Components
<1>2. /\ thread \in [Components -> {"none", "begin", "running", "done"}]
      /\ run \in [Components -> BOOLEAN]
      /\ open \in [Components -> SUBSET Families]
      /\ failed \in BOOLEAN
  BY DEF IInv, TypeOK
<1>3. Live(c)
  BY <1>1 DEF Live
<1>4. ~Up(c)
  BY <1>1, <1>3, ToldNotUp
<1>5. /\ thread' \in [Components -> {"none", "begin", "running", "done"}]
      /\ thread'[c] = "done"
      /\ \A d \in Components \ {c} : thread'[d] = thread[d]
  BY <1>1, <1>2
<1>6. /\ open' \in [Components -> SUBSET Families]
      /\ \A d \in Components \ {c} : open'[d] = open[d]
      /\ c = "loopback" => open'[c] = {}
      /\ c = "files" => open'[c] = {}
  BY <1>1, <1>2 DEF IInv, Owned
<1> QED BY <1>1, <1>2, <1>3, <1>4, <1>5, <1>6, ThreadMoves

-----------------------------------------------------------------------------
(* The theorems                                                            *)

LEMMA StepOK == IInv /\ [Next]_vars => IInv'
<1> SUFFICES ASSUME IInv, [Next]_vars PROVE IInv'
  OBVIOUS
<1>1. CASE MainStep
  BY <1>1, ParseOK, StopOK, JoinOK, StartFilesOK, EndsOK, OpenSenderOK, OpenReceiverOK,
     StartLoopbackOK, BlockSigHupAndTermOK, WaitSigHupOrTermOK DEF MainStep
<1>2. CASE ThreadStep
  BY <1>2, LoopbackOpenOK, ThreadEndOK DEF ThreadStep
<1>3. CASE QueryStart \/ QueryEnd \/ (\E cfg \in Configs \cup {NoConfig} : EditFile(cfg))
           \/ (\E s \in Signals : Kill(s))
  BY <1>3, EnvironmentOK
<1>4. CASE \E s \in Signals : Deliver(s)
  BY <1>4, EndsOK
<1>5. CASE UNCHANGED vars
  BY <1>5, EnvironmentOK
<1> QED BY <1>1, <1>2, <1>3, <1>4, <1>5 DEF Next

LEMMA Invariant == Spec => []IInv
  BY InitOK, StepOK, PTL DEF Spec

\* The variables of the daemon keep their types, and the main thread waits in
\* join() only within Stop or Close.
THEOREM TypeCorrect == Spec => []TypeOK
<1>1. IInv => TypeOK
  BY DEF IInv
<1> QED BY Invariant, <1>1, PTL

\* However starts, reloads, failures and the ends of threads interleave, no
\* std::thread is assigned to or destroyed while it is joinable.
THEOREM NoThreadLost == Spec => []NoJoinableLost
<1>1. IInv => NoJoinableLost
  <2> SUFFICES ASSUME IInv PROVE NoJoinableLost
    OBVIOUS
  <2>1. \A c \in Components : Doing(StartOp(c)) => thread[c] = "none"
    BY BeforeStart
  <2>2. status = "exit" => \A c \in Components : thread[c] = "none"
    BY DEF IInv, DownIsNone
  <2> QED BY <2>1, <2>2 DEF NoJoinableLost
<1> QED BY Invariant, <1>1, PTL

\* After a start or a reload without a failure the components are as the
\* configuration asks, for every configuration.
THEOREM ReloadIsApplied == Spec => []ReloadApplied
<1>1. IInv => ReloadApplied
  <2> SUFFICES ASSUME IInv, status = "alive", task = "wait", ~failed, NEW c \in Components
               PROVE  AppliedTo(c)
    BY DEF ReloadApplied, AppliedTo
  <2>1. Up(c)
    BY DEF Up
  <2> QED BY <2>1 DEF IInv, Applied
<1> QED BY Invariant, <1>1, PTL

\* No socket is open without a thread that uses it, but for those MulticastSender
\* keeps when it could not open all of them.
THEOREM SocketsAreOwned == Spec => []SocketsOwned
<1>1. IInv => SocketsOwned
  <2> SUFFICES ASSUME IInv, NEW c \in Components, open[c] # {}
               PROVE  thread[c] # "none" \/ (c = "sender" /\ (failed \/ task # "wait"))
    BY DEF SocketsOwned
  <2> QED BY DEF IInv, Owned, Components
<1> QED BY Invariant, <1>1, PTL

\* After one complete reload every thread of a component blocks the signals.
THEOREM SignalsAreBlocked == Spec => []SignalsBlockedAfterReload
<1>1. IInv => SignalsBlockedAfterReload
  BY DEF IInv, MaskedByReload, SignalsBlockedAfterReload
<1> QED BY Invariant, <1>1, PTL

\* Once a reload was complete and the query threads from before it have ended, no
\* signal ends the process any more, and no new query thread is exposed to one.
SignalsHarmless == reloaded /\ ~query => status' \notin Signals /\ ~query'

\* From then on SIGHUP only reloads and SIGTERM only shuts down.
THEOREM SignalsOnlyTaken == Spec => [][SignalsHarmless]_vars
<1>1. IInv /\ Next => SignalsHarmless
  <2> SUFFICES ASSUME IInv, Next, reloaded, ~query
               PROVE  status' \notin Signals /\ ~query'
    BY DEF SignalsHarmless
  <2>1. blocked /\ \A c \in Components : Live(c) => masked[c]
    BY DEF IInv, MaskedByReload
  <2>2. ~Exposed
    BY <2>1 DEF Exposed
  <2>3. status = "alive" /\ "alive" \notin Signals
    BY DEF Next, MainStep, ThreadStep, Parse, Stop, Join, StartFiles, ParseThrows,
           OpenSenderThrows, OpenSender, OpenReceiver, StartLoopback, BlockSigHupAndTerm, WaitSigHupOrTerm, Exit, LoopbackOpen,
           LoopbackEnd, ThreadEnd, QueryStart, QueryEnd, EditFile, Kill, Deliver, Doing, Signals
  <2>4. CASE MainStep
    <3>1. query' = query /\ status' \in {status, "exit", "abort"}
      BY <2>4 DEF MainStep, Parse, Stop, Join, StartFiles, ParseThrows,
                  OpenSenderThrows, OpenSender, OpenReceiver, StartLoopback, BlockSigHupAndTerm, WaitSigHupOrTerm, Exit, StartFrame
    <3> QED BY <2>3, <3>1 DEF Signals
  <2>5. CASE ThreadStep
    <3>1. query' = query /\ status' = status
      BY <2>5 DEF ThreadStep, LoopbackOpen, LoopbackEnd, ThreadEnd, mainVars
    <3> QED BY <2>3, <3>1
  <2>6. CASE QueryStart
    <3>1. status' = status /\ thread["receiver"] = "running" /\ query' = (query \/ ~masked["receiver"])
      BY <2>6 DEF QueryStart, mainVars
    <3>2. masked["receiver"]
      BY <2>1, <3>1 DEF Live, Components
    <3>3. ~query'
      BY <3>1, <3>2, Zenon
    <3> QED BY <2>3, <3>1, <3>3
  <2>7. CASE QueryEnd \/ (\E cfg \in Configs \cup {NoConfig} : EditFile(cfg)) \/ (\E s \in Signals : Kill(s))
    <3>1. status' = status /\ (query' = query \/ query' = FALSE)
      BY <2>7 DEF QueryEnd, EditFile, Kill, mainVars
    <3> QED BY <2>3, <3>1
  <2>8. CASE \E s \in Signals : Deliver(s)
    BY <2>2, <2>8 DEF Deliver
  <2> QED BY <2>4, <2>5, <2>6, <2>7, <2>8 DEF Next
<1> QED BY Invariant, <1>1, PTL DEF Spec
=============================================================================
