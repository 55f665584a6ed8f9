------------------------------- MODULE Logger -------------------------------
(***************************************************************************)
(* Logger: the list of sinks of a process, and the mutex _sinksMtx that    *)
(* threads take to read or change it.  Log holds the mutex while it calls  *)
(* the sinks; SetSinks and Close hold it while they delete the Logger's    *)
(* own LoopbackSender, which joins that sender's thread.  A sender's       *)
(* thread is a client of the Logger too: MessagePacket::SendTo logs a send *)
(* that failed.                                                            *)
(*                                                                         *)
(* Threads are the program's own threads; Senders are the LoopbackSenders  *)
(* that Open may create, each standing for the sink and for its thread.    *)
(* Reentrant are the sinks whose Process may log (a LogFile logs when it   *)
(* opens or rolls its file).  A call of Log below the minimum severity     *)
(* returns before it looks at any of this state and is left out, and so    *)
(* is what a sink does with the message.                                   *)
(***************************************************************************)
EXTENDS Naturals, Sequences, SequencesExt

CONSTANTS
  Threads,    \* the program's threads
  Sinks,      \* sinks that belong to the program
  Reentrant,  \* those of them whose Process may call Log
  Senders,    \* bound: LoopbackSenders that exist at the same time
  Lists,      \* the lists of sinks that the program passes
  None        \* no thread, no sender

ASSUME LoggerAssumption ==
  /\ Reentrant \subseteq Sinks
  /\ Lists \subseteq Seq(Sinks)
  /\ Threads \cap Senders = {}
  /\ Sinks \cap Senders = {}
  /\ None \notin Threads \cup Senders \cup Sinks

VARIABLES
  mtx,       \* who holds _sinksMtx
  origin,    \* _origin.processid() is not 0
  sinks,     \* _sinks
  loopback,  \* _loopbackSender
  pc,        \* where a thread is in the Logger; "none" when there is no thread
  arg,       \* what is left of the list passed to the operation a thread is in
  left,      \* the sinks Log has yet to call
  run,       \* _run of a LoopbackSender
  alive      \* sinks that are not destroyed

vars == <<mtx, origin, sinks, loopback, pc, arg, left, run, alive>>

Actors == Threads \cup Senders

Init ==
  /\ mtx = None
  /\ origin = FALSE
  /\ sinks = <<>>
  /\ loopback = None
  /\ pc = [a \in Actors |-> IF a \in Threads THEN "idle" ELSE "none"]
  /\ arg = [a \in Threads |-> <<>>]
  /\ left = [a \in Actors |-> <<>>]
  /\ run = [s \in Senders |-> FALSE]
  /\ alive = Sinks

Goto(a, l) == pc' = [pc EXCEPT ![a] = l]

-----------------------------------------------------------------------------
(* Log.  The actor is a thread of the program, or the thread of a          *)
(* LoopbackSender whose send failed.                                       *)

\* The process id is read without the mutex; without one, Log returns.
LogEnter(a) ==
  /\ pc[a] = "idle"
  /\ origin
  /\ Goto(a, "lock")
  /\ UNCHANGED <<mtx, origin, sinks, loopback, arg, left, run, alive>>

\* Mutant: the list is copied, and the sinks are called without the mutex.
LogCopy(a) ==
  /\ pc[a] = "lock"
  /\ mtx = None
  /\ left' = [left EXCEPT ![a] = sinks]
  /\ Goto(a, "log")
  /\ UNCHANGED <<mtx, origin, sinks, loopback, arg, run, alive>>

LogLock(a) ==
  /\ pc[a] = "lock"
  /\ mtx = None
  /\ mtx' = a
  /\ left' = [left EXCEPT ![a] = sinks]
  /\ Goto(a, "log")
  /\ UNCHANGED <<origin, sinks, loopback, arg, run, alive>>

CallSink(a) ==
  /\ pc[a] = "log"
  /\ left[a] # <<>>
  /\ left' = [left EXCEPT ![a] = Tail(left[a])]
  /\ UNCHANGED <<mtx, origin, sinks, loopback, pc, arg, run, alive>>

\* The sink logs, and its thread locks a mutex it already holds: undefined for a
\* std::mutex, a wait without end in the builds this code has.
CallSinkLogs(a) ==
  /\ pc[a] = "log"
  /\ left[a] # <<>>
  /\ Head(left[a]) \in Reentrant
  /\ origin
  /\ Goto(a, "relock")
  /\ UNCHANGED <<mtx, origin, sinks, loopback, arg, left, run, alive>>

LogUnlock(a) ==
  /\ pc[a] = "log"
  /\ left[a] = <<>>
  /\ mtx' = None
  /\ Goto(a, "idle")
  /\ UNCHANGED <<origin, sinks, loopback, arg, left, run, alive>>

-----------------------------------------------------------------------------
(* Open, AddSinks and RemoveSinks                                          *)

\* Host name, application name and process id are set without the mutex.
Open(a, l) ==
  /\ pc[a] = "idle"
  /\ ToSet(l) \subseteq alive
  /\ origin' = TRUE
  /\ arg' = [arg EXCEPT ![a] = l]
  /\ Goto(a, "open")
  /\ UNCHANGED <<mtx, sinks, loopback, left, run, alive>>

OpenSinks(a) ==
  /\ pc[a] = "open"
  /\ mtx = None
  /\ arg[a] # <<>>
  /\ sinks' = arg[a]
  /\ arg' = [arg EXCEPT ![a] = <<>>]
  /\ Goto(a, "idle")
  /\ UNCHANGED <<mtx, origin, loopback, left, run, alive>>

\* With an empty list the Logger makes a LoopbackSender.  Its thread runs unless
\* the socket could not be opened.  An earlier sender is forgotten, not deleted.
OpenLoopback(a, s, started) ==
  /\ pc[a] = "open"
  /\ mtx = None
  /\ arg[a] = <<>>
  /\ s \notin alive
  /\ alive' = alive \cup {s}
  /\ loopback' = s
  /\ sinks' = <<s>>
  /\ run' = [run EXCEPT ![s] = started]
  /\ pc' = [pc EXCEPT ![a] = "idle", ![s] = IF started THEN "idle" ELSE "none"]
  /\ UNCHANGED <<mtx, origin, arg, left>>

\* Both take the mutex, go through the list passed and release the mutex.
AddSinks(a, l) ==
  /\ pc[a] = "idle"
  /\ mtx = None
  /\ ToSet(l) \subseteq alive
  /\ mtx' = a
  /\ arg' = [arg EXCEPT ![a] = l]
  /\ Goto(a, "add")
  /\ UNCHANGED <<origin, sinks, loopback, left, run, alive>>

\* A sink that is listed already is not listed again.
AddSink(a) ==
  /\ pc[a] = "add"
  /\ arg[a] # <<>>
  /\ sinks' = IF Head(arg[a]) \in ToSet(sinks) THEN sinks ELSE Append(sinks, Head(arg[a]))
  /\ arg' = [arg EXCEPT ![a] = Tail(arg[a])]
  /\ UNCHANGED <<mtx, origin, loopback, pc, left, run, alive>>

RemoveSinks(a, l) ==
  /\ pc[a] = "idle"
  /\ mtx = None
  /\ mtx' = a
  /\ arg' = [arg EXCEPT ![a] = l]
  /\ Goto(a, "remove")
  /\ UNCHANGED <<origin, sinks, loopback, left, run, alive>>

\* The first entry of the sink is erased.
RemoveSink(a) ==
  /\ pc[a] = "remove"
  /\ arg[a] # <<>>
  /\ sinks' = RemoveFirst(sinks, Head(arg[a]))
  /\ arg' = [arg EXCEPT ![a] = Tail(arg[a])]
  /\ UNCHANGED <<mtx, origin, loopback, pc, left, run, alive>>

SinksChanged(a) ==
  /\ pc[a] \in {"add", "remove"}
  /\ arg[a] = <<>>
  /\ mtx' = None
  /\ Goto(a, "idle")
  /\ UNCHANGED <<origin, sinks, loopback, arg, left, run, alive>>

-----------------------------------------------------------------------------
(* SetSinks and Close.  Both take the mutex, empty the list and delete the  *)
(* LoopbackSender; deleting it clears its _run, wakes its thread and joins  *)
(* it, all of it under the mutex.                                          *)

StoppedSender == IF loopback = None THEN run ELSE [run EXCEPT ![loopback] = FALSE]

Joined == loopback # None => pc[loopback] \in {"none", "done"}

SetSinks(a, l) ==
  /\ pc[a] = "idle"
  /\ mtx = None
  /\ ToSet(l) \subseteq alive
  /\ mtx' = a
  /\ sinks' = <<>>
  /\ run' = StoppedSender
  /\ arg' = [arg EXCEPT ![a] = l]
  /\ Goto(a, "set")
  /\ UNCHANGED <<origin, loopback, left, alive>>

SetSinksJoined(a) ==
  /\ pc[a] = "set"
  /\ Joined
  /\ mtx' = None
  /\ loopback' = None
  /\ alive' = alive \ {loopback}
  /\ sinks' = arg[a]
  /\ arg' = [arg EXCEPT ![a] = <<>>]
  /\ pc' = [b \in Actors |-> IF b = loopback THEN "none" ELSE IF b = a THEN "idle" ELSE pc[b]]
  /\ UNCHANGED <<origin, left, run>>

\* Mutant: the sender is joined but not told to stop.
CloseKeepsRun(a) ==
  /\ pc[a] = "idle"
  /\ mtx = None
  /\ mtx' = a
  /\ sinks' = <<>>
  /\ Goto(a, "close")
  /\ UNCHANGED <<origin, loopback, arg, left, run, alive>>

Close(a) ==
  /\ pc[a] = "idle"
  /\ mtx = None
  /\ mtx' = a
  /\ sinks' = <<>>
  /\ run' = StoppedSender
  /\ Goto(a, "close")
  /\ UNCHANGED <<origin, loopback, arg, left, alive>>

CloseJoined(a) ==
  /\ pc[a] = "close"
  /\ Joined
  /\ mtx' = None
  /\ loopback' = None
  /\ alive' = alive \ {loopback}
  /\ pc' = [b \in Actors |-> IF b = loopback THEN "none" ELSE IF b = a THEN "closed" ELSE pc[b]]
  /\ UNCHANGED <<origin, sinks, arg, left, run>>

\* The origin is cleared after the mutex is released.
CloseOrigin(a) ==
  /\ pc[a] = "closed"
  /\ origin' = FALSE
  /\ Goto(a, "idle")
  /\ UNCHANGED <<mtx, sinks, loopback, arg, left, run, alive>>

-----------------------------------------------------------------------------
(* The thread of a LoopbackSender leaves Run once _run is cleared.  The     *)
(* program destroys a sink that is neither listed nor about to be, and     *)
(* makes it anew.                                                          *)

SenderDone(s) ==
  /\ pc[s] = "idle"
  /\ ~run[s]
  /\ Goto(s, "done")
  /\ UNCHANGED <<mtx, origin, sinks, loopback, arg, left, run, alive>>

DestroySink(k) ==
  /\ k \in alive
  /\ k \notin ToSet(sinks)
  /\ \A a \in Threads : k \notin ToSet(arg[a])
  /\ alive' = alive \ {k}
  /\ UNCHANGED <<mtx, origin, sinks, loopback, pc, arg, left, run>>

CreateSink(k) ==
  /\ k \notin alive
  /\ alive' = alive \cup {k}
  /\ UNCHANGED <<mtx, origin, sinks, loopback, pc, arg, left, run>>

LogStep(a) == LogEnter(a) \/ LogLock(a) \/ CallSink(a) \/ CallSinkLogs(a) \/ LogUnlock(a)

Next ==
  \/ \E a \in Actors : LogStep(a)
  \/ \E a \in Threads :
       \/ \E l \in Lists : Open(a, l) \/ AddSinks(a, l) \/ RemoveSinks(a, l) \/ SetSinks(a, l)
       \/ OpenSinks(a)
       \/ \E s \in Senders, started \in BOOLEAN : OpenLoopback(a, s, started)
       \/ AddSink(a) \/ RemoveSink(a) \/ SinksChanged(a)
       \/ SetSinksJoined(a) \/ Close(a) \/ CloseJoined(a) \/ CloseOrigin(a)
  \/ \E s \in Senders : SenderDone(s)
  \/ \E k \in Sinks : DestroySink(k) \/ CreateSink(k)

Spec == Init /\ [][Next]_vars

\* Whoever holds the mutex goes on, and so does the thread of a sender that was
\* told to stop.  Nothing is assumed of who gets the mutex next: std::mutex
\* promises no order, and a thread may wait for it for ever.
Fairness ==
  /\ \A a \in Actors : WF_vars(CallSink(a)) /\ WF_vars(LogUnlock(a))
  /\ \A a \in Threads : WF_vars(AddSink(a) \/ RemoveSink(a) \/ SinksChanged(a))
  /\ \A a \in Threads : WF_vars(SetSinksJoined(a)) /\ WF_vars(CloseJoined(a))
  /\ \A s \in Senders : WF_vars(SenderDone(s))

FairSpec == Spec /\ Fairness

-----------------------------------------------------------------------------
TypeOK ==
  /\ mtx \in Actors \cup {None}
  /\ origin \in BOOLEAN
  /\ sinks \in Seq(Sinks \cup Senders)
  /\ loopback \in Senders \cup {None}
  /\ pc \in [Actors -> {"none", "idle", "lock", "log", "relock", "open", "add", "remove",
                        "set", "close", "closed", "done"}]
  /\ arg \in [Threads -> Seq(Sinks)]
  /\ left \in [Actors -> Seq(Sinks \cup Senders)]
  /\ run \in [Senders -> BOOLEAN]
  /\ alive \subseteq Sinks \cup Senders

\* Log calls a sink, of the program or the Logger's own, only while it exists:
\* once RemoveSinks, SetSinks or Close has taken a sink off the list no thread is
\* about to call it, so it may be destroyed.
NoCallToDestroyed ==
  \A a \in Actors : pc[a] = "log" => ToSet(left[a]) \subseteq alive

\* A thread that waits for itself: in a sink that logs, or in the join of a sender
\* whose thread logs a failed send.
Deadlocked ==
  \/ \E a \in Actors : pc[a] = "relock"
  \/ \E a \in Threads : pc[a] \in {"set", "close"} /\ loopback # None /\ pc[loopback] = "lock"

\* _sinksMtx is always released again, but for the two ways in which the thread
\* that holds it can come to wait for itself.
MutexReleased == mtx # None ~> (mtx = None \/ Deadlocked)
=============================================================================
