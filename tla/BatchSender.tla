----------------------------- MODULE BatchSender -----------------------------
(***************************************************************************)
(* The thread that packs log messages into packets and sends them, as in   *)
(* LoopbackSender (application to mclogd) and MulticastSender (mclogd to   *)
(* the group).  Both have a queue that any thread fills through Process, a *)
(* Run loop that moves messages from the queue to one MessagePacket, and a *)
(* pair of calls that start and stop the thread.  They differ in what is   *)
(* left when Run ends.  LoopbackSender sends the packet, but only its      *)
(* destructor stops it, which frees the queue; Logger runs that destructor *)
(* under the mutex that its calls of Process need.  MulticastSender leaves *)
(* the packet, but keeps its queue when it is closed and opened again.     *)
(* The model chooses one of them at the start.                             *)
(*                                                                         *)
(* A message is a number and a size.  Messages 1, 2, ... are tracked, in   *)
(* the order in which the queue accepts them; others have number 0.        *)
(* MulticastSender sends each packet to an IPv4 and an IPv6 group; neither *)
(* affects the other or the thread, so this is the view of one group.      *)
(* What MulticastSender logs about itself reaches its own queue, through   *)
(* mclogd's Logger and the filter: a Process step like any other.          *)
(* Thread::Queue belongs to libDwm and is modelled from its use.           *)
(***************************************************************************)
EXTENDS Naturals, Sequences, Functions

CONSTANTS
  Capacity,    \* payload bytes a packet has room for
  MaxSize,     \* bound: size of a message
  MaxLength,   \* MaxLength() of the queue: 1000 in MulticastSender; a bound in
               \* LoopbackSender, whose queue has no limit
  MaxTracked   \* bound: messages that carry a number

ASSUME BatchSenderAssumption ==
  /\ Capacity \in Nat \ {0}
  /\ MaxSize \in Nat \ {0}
  /\ MaxLength \in Nat \ {0}
  /\ MaxTracked \in Nat

VARIABLES
  sender,        \* "loopback" or "multicast": which of the two this is
  mpc,           \* where the thread that starts and stops the sender is
  run,           \* _run
  queue,         \* _msgs, _outQueue
  spc,           \* where the sender's thread is; "none" when there is none
  msg,           \* the message that did not fit
  pkt,           \* the tracked messages in the packet
  payloadLength, \* _payloadLength of the packet
  accepted,      \* history: tracked messages accepted so far
  sent,          \* history: tracked messages that left the host, in order
  refused        \* history: tracked messages that were too large or that sendto() refused

packet == <<pkt, payloadLength>>
vars == <<sender, mpc, run, queue, spc, msg, packet, accepted, sent, refused>>

Message == [no : 0..MaxTracked, size : 1..MaxSize]
NoMessage == [no |-> 0, size |-> 1]

Numbers(s) == {s[i].no : i \in DOMAIN s} \ {0}
Tracked(m) == IF m.no = 0 THEN <<>> ELSE <<m.no>>

\* MessagePacket::Add writes the message if there is room.
Fits(length, m) == length + m.size <= Capacity

-----------------------------------------------------------------------------
(* Thread::Queue                                                           *)

\* ConditionSignal, also part of PushBack
Woken == IF spc = "asleep" THEN "pop" ELSE spc

PushBack(m) == Len(queue) < MaxLength /\ queue' = Append(queue, m) /\ spc' = Woken

-----------------------------------------------------------------------------
(* Any thread                                                              *)

\* Process: a message that the filter drops or a full queue refuses changes
\* nothing.  There is no Process while a LoopbackSender is deleted, and none after.
Process(size, tracked) ==
  /\ sender = "loopback" => mpc = "running"
  /\ tracked => accepted < MaxTracked
  /\ PushBack([no |-> IF tracked THEN accepted + 1 ELSE 0, size |-> size])
  /\ accepted' = IF tracked THEN accepted + 1 ELSE accepted
  /\ UNCHANGED <<sender, mpc, run, msg, packet, sent, refused>>

-----------------------------------------------------------------------------
(* Starting and stopping                                                   *)

\* Start, by the constructor, or Open: the socket may not open, or the configuration
\* want no sender.
Start(ok) ==
  /\ mpc = "stopped"
  /\ mpc' = "running"
  /\ IF ok THEN run' = TRUE /\ spc' = "check" ELSE UNCHANGED <<run, spc>>
  /\ UNCHANGED <<sender, queue, msg, packet, accepted, sent, refused>>

Stop ==
  /\ mpc = "running"
  /\ run' = FALSE
  /\ mpc' = "signal"
  /\ UNCHANGED <<sender, queue, spc, msg, packet, accepted, sent, refused>>

StopSignal ==
  /\ mpc = "signal"
  /\ mpc' = "join"
  /\ spc' = Woken
  /\ UNCHANGED <<sender, run, queue, msg, packet, accepted, sent, refused>>

\* The end of ~LoopbackSender or of Close.
StopJoin ==
  /\ mpc = "join"
  /\ spc \in {"none", "done"}
  /\ mpc' = "stopped"
  /\ spc' = "none"
  /\ queue' = IF sender = "loopback" THEN <<>> ELSE queue
  /\ UNCHANGED <<sender, run, msg, packet, accepted, sent, refused>>

-----------------------------------------------------------------------------
(* The sender's thread: Run                                                *)

RunCheck ==
  /\ spc = "check"
  /\ spc' = IF run THEN "wait" ELSE "exit"
  /\ UNCHANGED <<sender, mpc, run, queue, msg, packet, accepted, sent, refused>>

ConditionTimedWait ==
  /\ spc = "wait"
  /\ spc' = IF queue = <<>> THEN "asleep" ELSE "pop"
  /\ UNCHANGED <<sender, mpc, run, queue, msg, packet, accepted, sent, refused>>


\* One second without a message.
Timeout ==
  /\ spc = "asleep"
  /\ spc' = "flush"
  /\ UNCHANGED <<sender, mpc, run, queue, msg, packet, accepted, sent, refused>>

\* One message from the queue to the packet, if there is room.
PopFront ==
  /\ spc = "pop"
  /\ queue # <<>>
  /\ queue' = Tail(queue)
  /\ IF Fits(payloadLength, Head(queue))
     THEN /\ pkt' = pkt \o Tracked(Head(queue))
          /\ payloadLength' = payloadLength + Head(queue).size
          /\ UNCHANGED <<spc, msg>>
     ELSE msg' = Head(queue) /\ spc' = "full" /\ UNCHANGED packet
  /\ UNCHANGED <<sender, mpc, run, accepted, sent, refused>>

PopNothing ==
  /\ spc = "pop"
  /\ queue = <<>>
  /\ spc' = "check"
  /\ UNCHANGED <<sender, mpc, run, queue, msg, packet, accepted, sent, refused>>

\* SendPacket: sendto() may fail; the packet is reset in any case.
SendPacket(ok) ==
  IF ok
  THEN sent' = sent \o pkt /\ UNCHANGED refused
  ELSE refused' = refused \cup Range(pkt) /\ UNCHANGED sent

Reset == pkt' = <<>> /\ payloadLength' = 0

\* The packet is full: send it and add the message to the next one, where it
\* may not fit either; then it is dropped.
SendFull(ok) ==
  /\ spc = "full"
  /\ IF Fits(0, msg)
     THEN SendPacket(ok) /\ pkt' = Tracked(msg) /\ payloadLength' = msg.size
     ELSE /\ sent' = IF ok THEN sent \o pkt ELSE sent
          /\ refused' = refused \cup Numbers(<<msg>>) \cup (IF ok THEN {} ELSE Range(pkt))
          /\ Reset
  /\ msg' = NoMessage
  /\ spc' = "pop"
  /\ UNCHANGED <<sender, mpc, run, queue, accepted>>

\* Mutant: the time-out does not send anything.
FlushNothing(ok) ==
  /\ spc = "flush"
  /\ spc' = "check"
  /\ UNCHANGED <<sender, mpc, run, queue, msg, packet, accepted, sent, refused>>

\* Mutant: the packet is not reset.
FlushNoReset(ok) ==
  /\ spc = "flush"
  /\ IF payloadLength = 0 THEN UNCHANGED <<sent, refused>> ELSE SendPacket(ok)
  /\ spc' = "check"
  /\ UNCHANGED <<sender, mpc, run, queue, msg, packet, accepted>>

\* After a time-out, send what there is.
Flush(ok) ==
  /\ spc = "flush"
  /\ IF payloadLength = 0 THEN UNCHANGED <<sent, refused>> ELSE SendPacket(ok)
  /\ Reset
  /\ spc' = "check"
  /\ UNCHANGED <<sender, mpc, run, queue, msg, accepted>>

\* Mutant: the packet is left unsent.
ExitNoFlush(ok) ==
  /\ spc = "exit"
  /\ Reset
  /\ spc' = "done"
  /\ UNCHANGED <<sender, mpc, run, queue, msg, accepted, sent, refused>>

\* Run ends, and with it the packet, a local variable.
Exit(ok) ==
  /\ spc = "exit"
  /\ IF sender = "loopback" /\ payloadLength # 0 THEN SendPacket(ok)
     ELSE UNCHANGED <<sent, refused>>
  /\ Reset
  /\ spc' = "done"
  /\ UNCHANGED <<sender, mpc, run, queue, msg, accepted>>

-----------------------------------------------------------------------------
Init ==
  /\ sender \in {"loopback", "multicast"}
  /\ mpc = "stopped"
  /\ run = FALSE
  /\ queue = <<>>
  /\ spc = "none"
  /\ msg = NoMessage
  /\ pkt = <<>>
  /\ payloadLength = 0
  /\ accepted = 0
  /\ sent = <<>>
  /\ refused = {}

RunStep ==
  \/ RunCheck
  \/ ConditionTimedWait
  \/ Timeout
  \/ PopFront
  \/ PopNothing
  \/ \E ok \in BOOLEAN : SendFull(ok) \/ Flush(ok) \/ Exit(ok)

StopStep == StopSignal \/ StopJoin

Next ==
  \/ \E size \in 1..MaxSize, tracked \in BOOLEAN : Process(size, tracked)
  \/ \E ok \in BOOLEAN : Start(ok)
  \/ Stop
  \/ StopStep
  \/ RunStep

Spec == Init /\ [][Next]_vars

\* The threads run, and a wait that nothing ends times out.
FairSpec == Spec /\ WF_vars(RunStep) /\ WF_vars(StopStep)

-----------------------------------------------------------------------------
(* Properties                                                              *)

\* Every variable has its type; the queue and the packet keep their limits.
TypeOK ==
  /\ sender \in {"loopback", "multicast"}
  /\ mpc \in {"stopped", "running", "signal", "join"}
  /\ run \in BOOLEAN
  /\ queue \in Seq(Message)
  /\ Len(queue) <= MaxLength
  /\ spc \in {"none", "check", "wait", "asleep", "pop", "full", "flush", "exit", "done"}
  /\ msg \in Message
  /\ pkt \in Seq(1..MaxTracked)
  /\ payloadLength \in 0..Capacity
  /\ accepted \in 0..MaxTracked
  /\ sent \in Seq(1..MaxTracked)
  /\ refused \in SUBSET (1..MaxTracked)

\* Messages leave the host in the order in which the sender accepted them, each
\* at most once, in spite of failed sends, oversized messages and restarts.
Fifo == INSTANCE LossyFifo WITH output <- sent
SentInOrder == Fifo!Spec

Held == Numbers(queue) \cup Range(pkt) \cup Numbers(<<msg>>)
Vanished == (1..accepted) \ (Held \cup refused \cup Range(sent))

\* A message is in the queue, in the packet or was sent, unless it was larger
\* than a packet or sendto() failed.  Others are lost only when the sender is
\* stopped: by MulticastSender those in the packet, by LoopbackSender those that
\* its thread left in the queue, which it does when it never ran, or when they came
\* after its last look at the queue.
LostOnlyWhenStopped ==
  [][\/ Vanished' = Vanished
     \/ /\ sender = "multicast" /\ spc = "exit"
        /\ Vanished' \subseteq Vanished \cup Range(pkt)
     \/ /\ sender = "loopback" /\ mpc = "join" /\ mpc' = "stopped"
        /\ Vanished' \subseteq Vanished \cup Numbers(queue)]_vars

\* A running sender holds no message back for ever, however slowly or steadily
\* others follow: either a second passes without one, or the packet fills up.
Running == mpc = "running" /\ spc # "none"
NotHeldForever ==
  \A n \in 1..MaxTracked : (n \in Held /\ Running) ~> (n \notin Held \/ ~Running)

\* Stop and Close return once the other threads pause, although the signal may
\* come before the thread sleeps: the wait is a timed one.  Without a pause Close
\* may not, as the loop over the queue does not look at _run; Stop needs none.
Pause == <>[][Len(queue') <= Len(queue)]_vars
StopReturns == sender = "loopback" \/ Pause => (mpc \in {"signal", "join"} ~> mpc = "stopped")
=============================================================================
