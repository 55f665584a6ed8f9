----------------------------- MODULE FileLogger -----------------------------
(***************************************************************************)
(* FileLogger: the queue in front of mclogd's log files and the thread     *)
(* that empties it.  Any thread calls Process (the loopback and multicast  *)
(* receivers, and every thread that logs through mclogd's own Logger); the *)
(* main thread calls Start and Stop (Restart is Stop, then Start); the     *)
(* FileLogger thread executes Run.                                         *)
(*                                                                         *)
(* Messages are numbered in the order in which the queue accepts them.     *)
(* Thread::Queue belongs to libDwm and is modelled from its use: PushBack  *)
(* refuses a message beyond MaxLength and else wakes the waiting thread,   *)
(* ConditionWait sleeps only if the queue is empty, and a signal that      *)
(* finds nobody asleep has no effect.                                      *)
(***************************************************************************)
EXTENDS Naturals, Sequences

CONSTANTS
  MaxLength,   \* _inQueue.MaxLength(): 1000 in the code
  MaxMsgs,     \* bound: messages accepted from other threads
  MaxStarts    \* bound: calls of Start

ASSUME FileLoggerAssumption ==
  /\ MaxLength \in Nat \ {0}
  /\ MaxMsgs \in Nat
  /\ MaxStarts \in Nat

VARIABLES
  mpc,       \* where the main thread is in Start and Stop
  run,       \* _run
  queue,     \* _inQueue
  wpc,       \* where the FileLogger thread is; "none" when there is none
  msgs,      \* what is left of Run's local list
  starts,    \* calls of Start so far
  accepted,  \* history: messages accepted so far
  written    \* history: messages given to LogFiles::Process, in order

vars == <<mpc, run, queue, wpc, msgs, starts, accepted, written>>

-----------------------------------------------------------------------------
(* Thread::Queue                                                           *)

\* ConditionSignal, also part of PushBack.
Woken == IF wpc = "asleep" THEN "swap" ELSE wpc

\* ConditionWait
AfterWait == IF queue = <<>> THEN "asleep" ELSE "swap"

\* PushBack of one message, without the signal.
Queued ==
  IF Len(queue) < MaxLength
  THEN queue' = Append(queue, accepted + 1) /\ accepted' = accepted + 1
  ELSE UNCHANGED <<queue, accepted>>

PushBack ==
  /\ Queued
  /\ wpc' = IF queue' = queue THEN wpc ELSE Woken

-----------------------------------------------------------------------------
(* Any thread.  mclogd's Logger has the FileLogger as a sink, so what Stop  *)
(* and Run log about themselves goes to this queue too.                    *)

Process ==
  /\ accepted < MaxMsgs
  /\ PushBack
  /\ UNCHANGED <<mpc, run, msgs, starts, written>>

-----------------------------------------------------------------------------
(* The main thread                                                         *)

\* Without any log configured no thread is started.
Start(logs) ==
  /\ mpc = "stopped"
  /\ starts < MaxStarts
  /\ starts' = starts + 1
  /\ mpc' = "running"
  /\ IF logs
     THEN run' = TRUE /\ wpc' = "begin"
     ELSE UNCHANGED <<run, wpc>>
  /\ UNCHANGED <<queue, msgs, accepted, written>>

Stop ==
  /\ mpc = "running"
  /\ run' = FALSE
  /\ mpc' = "log"
  /\ UNCHANGED <<queue, wpc, msgs, starts, accepted, written>>

\* Mutant: Stop logs nothing.
StopLogNothing ==
  /\ mpc = "log"
  /\ mpc' = "signal"
  /\ UNCHANGED <<run, queue, wpc, msgs, starts, accepted, written>>

\* Stop logs that it stops the FileLogger.
StopLog ==
  /\ mpc = "log"
  /\ mpc' = "signal"
  /\ PushBack
  /\ UNCHANGED <<run, msgs, starts, written>>

StopSignal ==
  /\ mpc = "signal"
  /\ mpc' = "join"
  /\ wpc' = Woken
  /\ UNCHANGED <<run, queue, msgs, starts, accepted, written>>

\* Mutant: Stop does not wait for the thread.
StopDetach ==
  /\ mpc = "join"
  /\ mpc' = "stopped"
  /\ UNCHANGED <<run, queue, wpc, msgs, starts, accepted, written>>

\* Stop joins the thread, if there is one, logs that, and closes the log files.
StopJoin ==
  /\ mpc = "join"
  /\ wpc \in {"none", "done"}
  /\ mpc' = "stopped"
  /\ wpc' = "none"
  /\ IF wpc = "done" THEN Queued ELSE UNCHANGED <<queue, accepted>>
  /\ UNCHANGED <<run, msgs, starts, written>>

-----------------------------------------------------------------------------
(* The FileLogger thread: Run                                              *)

\* Run logs that it has started ...
RunBegin ==
  /\ wpc = "begin"
  /\ wpc' = "check"
  /\ Queued
  /\ UNCHANGED <<mpc, run, msgs, starts, written>>

\* ... and that it ends.
RunCheck ==
  /\ wpc = "check"
  /\ IF run
     THEN wpc' = "wait" /\ UNCHANGED <<queue, accepted>>
     ELSE wpc' = "done" /\ Queued
  /\ UNCHANGED <<mpc, run, msgs, starts, written>>

\* Mutant: the thread sleeps without looking at the queue.
ConditionWaitAlways ==
  /\ wpc = "wait"
  /\ wpc' = "asleep"
  /\ UNCHANGED <<mpc, run, queue, msgs, starts, accepted, written>>

ConditionWait ==
  /\ wpc = "wait"
  /\ wpc' = AfterWait
  /\ UNCHANGED <<mpc, run, queue, msgs, starts, accepted, written>>

SpuriousWakeup ==
  /\ wpc = "asleep"
  /\ wpc' = "swap"
  /\ UNCHANGED <<mpc, run, queue, msgs, starts, accepted, written>>

\* Mutant: the list that is swapped in was not cleared.
SwapKeep ==
  /\ wpc = "swap"
  /\ msgs' = queue
  /\ wpc' = "write"
  /\ UNCHANGED <<mpc, run, queue, starts, accepted, written>>

Swap ==
  /\ wpc = "swap"
  /\ msgs' = queue
  /\ queue' = <<>>
  /\ wpc' = "write"
  /\ UNCHANGED <<mpc, run, starts, accepted, written>>

LogFilesProcess ==
  /\ wpc = "write"
  /\ msgs # <<>>
  /\ written' = Append(written, Head(msgs))
  /\ msgs' = Tail(msgs)
  /\ UNCHANGED <<mpc, run, queue, wpc, starts, accepted>>

RunLoop ==
  /\ wpc = "write"
  /\ msgs = <<>>
  /\ wpc' = "check"
  /\ UNCHANGED <<mpc, run, queue, msgs, starts, accepted, written>>

-----------------------------------------------------------------------------
Init ==
  /\ mpc = "stopped"
  /\ run = FALSE
  /\ queue = <<>>
  /\ wpc = "none"
  /\ msgs = <<>>
  /\ starts = 0
  /\ accepted = 0
  /\ written = <<>>

RunStep == RunBegin \/ RunCheck \/ ConditionWait \/ Swap \/ LogFilesProcess \/ RunLoop

StopStep == StopLog \/ StopSignal \/ StopJoin

Next ==
  \/ Process
  \/ \E logs \in BOOLEAN : Start(logs)
  \/ Stop
  \/ StopStep
  \/ RunStep
  \/ SpuriousWakeup

Spec == Init /\ [][Next]_vars

\* Both threads run; nothing is assumed of spurious wake-ups.
FairSpec == Spec /\ WF_vars(RunStep) /\ WF_vars(StopStep)

-----------------------------------------------------------------------------
(* Properties                                                              *)

\* Every variable has its type and the queue its limit.
TypeOK ==
  /\ mpc \in {"stopped", "running", "log", "signal", "join"}
  /\ run \in BOOLEAN
  /\ queue \in Seq(Nat)
  /\ Len(queue) <= MaxLength
  /\ wpc \in {"none", "begin", "check", "wait", "asleep", "swap", "write", "done"}
  /\ msgs \in Seq(Nat)
  /\ starts \in 0..MaxStarts
  /\ accepted \in Nat
  /\ written \in Seq(Nat)

\* Once Stop has returned, no thread is left that would write to (and so open
\* again) a log file.
NoWriterWhenStopped == mpc = "stopped" => wpc = "none" /\ msgs = <<>>

\* Every message the queue accepts goes to the log files once, in order and
\* without gaps, across any number of restarts: what a stopped FileLogger has
\* accepted waits in the queue for the next Start.
Fifo == INSTANCE ReliableFifo WITH output <- written
InOrderNoLoss == Fifo!Spec

\* Stop returns: its signal may come when the thread has read _run but is not
\* asleep yet and is then lost, but by then Stop's own log message is queued.
StopReturns == mpc \in {"log", "signal", "join"} ~> mpc = "stopped"

\* While it runs, a FileLogger writes whatever it has accepted.
Running == mpc = "running" /\ wpc # "none"
AcceptedWritten ==
  \A n \in 1..(MaxMsgs + 4 * MaxStarts) :
    (n <= accepted /\ Running) ~> (n <= Len(written) \/ ~Running)
=============================================================================
