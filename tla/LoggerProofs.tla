---------------------------- MODULE LoggerProofs ----------------------------
(***************************************************************************)
(* No thread calls a sink that is destroyed, for any number of threads,    *)
(* sinks and LoopbackSenders.  The argument: a thread that is calling      *)
(* sinks holds the mutex, so the sinks it has yet to call are still        *)
(* listed, and a listed sink is never destroyed: the program's own sinks   *)
(* because it takes them off the list first, the LoopbackSender because    *)
(* the list is emptied under the same mutex before it is deleted.          *)
(***************************************************************************)
EXTENDS Logger, WellFoundedInduction, TLAPS

Holding == {"log", "relock", "add", "remove", "set", "close"}

\* Only the thread that holds the mutex is where it is needed.
Exclusive == \A a \in Actors : pc[a] \in Holding => mtx = a

\* What is listed, or about to be, exists.
ListedAlive ==
  /\ ToSet(sinks) \subseteq alive
  /\ \A a \in Threads : pc[a] # "remove" => ToSet(arg[a]) \subseteq alive

\* What Log has yet to call is listed.
LeftListed == \A a \in Actors : pc[a] = "log" => ToSet(left[a]) \subseteq ToSet(sinks)

\* The list is empty while the LoopbackSender is deleted.
Cleared == \A a \in Threads : pc[a] \in {"set", "close"} => sinks = <<>>

IInv == TypeOK /\ Exclusive /\ ListedAlive /\ LeftListed /\ Cleared

\* Elements of sequences.
LEMMA ToSetFacts ==
  ASSUME NEW S, NEW s \in Seq(S), NEW e \in S
  PROVE  /\ ToSet(s) \subseteq S
         /\ ToSet(Append(s, e)) = ToSet(s) \cup {e}
         /\ s # <<>> => Head(s) \in ToSet(s) /\ Tail(s) \in Seq(S) /\ ToSet(Tail(s)) \subseteq ToSet(s)
<1>1. ToSet(s) \subseteq S
  BY DEF ToSet
<1>2. ToSet(Append(s, e)) = ToSet(s) \cup {e}
  <2>1. DOMAIN Append(s, e) = 1..(Len(s) + 1) /\ DOMAIN s = 1..Len(s) /\ Len(s) \in Nat
    OBVIOUS
  <2>2. \A i \in 1..Len(s) : Append(s, e)[i] = s[i]
    OBVIOUS
  <2>3. Append(s, e)[Len(s) + 1] = e
    OBVIOUS
  <2> QED BY <2>1, <2>2, <2>3 DEF ToSet
<1>3. ASSUME s # <<>>
      PROVE Head(s) \in ToSet(s) /\ Tail(s) \in Seq(S) /\ ToSet(Tail(s)) \subseteq ToSet(s)
  <2>1. Len(s) \in Nat \ {0} /\ DOMAIN s = 1..Len(s)
    BY <1>3
  <2>2. Head(s) = s[1] /\ Tail(s) \in Seq(S)
    BY <1>3
  <2>3. Len(Tail(s)) = Len(s) - 1 /\ \A i \in 1..(Len(s) - 1) : Tail(s)[i] = s[i + 1]
    BY <1>3
  <2>4. DOMAIN Tail(s) = 1..(Len(s) - 1)
    BY <2>2, <2>3
  <2> QED BY <2>1, <2>2, <2>3, <2>4 DEF ToSet
<1> QED BY <1>1, <1>2, <1>3

\* A set of positions that is not empty has a first one.
LEMMA MinInSet ==
  ASSUME NEW T, T \subseteq Nat, T # {}
  PROVE  Min(T) \in T
<1> DEFINE R == OpToRel(<, Nat)
<1>1. IsWellFoundedOn(R, Nat)
  BY NatLessThanWellFounded
<1>2. \A x, y \in Nat : <<y, x>> \in R <=> y < x
  BY DEF OpToRel
<1> HIDE DEF R
<1>3. PICK x \in T : \A y \in T : ~ (<<y, x>> \in R)
  BY <1>1, WFMin
<1>4. ASSUME NEW y \in T PROVE x <= y
  <2>1. ~ (<<y, x>> \in R) /\ (<<y, x>> \in R <=> y < x)
    BY <1>2, <1>3, Zenon
  <2>2. ~ (y < x) /\ x \in Nat /\ y \in Nat
    BY <2>1
  <2> QED BY <2>2
<1>5. \E z \in T : \A y \in T : z =< y
  BY <1>3, <1>4
<1> QED BY <1>5, Zenon DEF Min

LEMMA RemoveFirstFacts ==
  ASSUME NEW S, NEW s \in Seq(S), NEW e
  PROVE  RemoveFirst(s, e) \in Seq(S) /\ ToSet(RemoveFirst(s, e)) \subseteq ToSet(s)
<1>1. CASE ~ \E i \in 1..Len(s) : s[i] = e
  BY <1>1 DEF RemoveFirst
<1>2. CASE \E i \in 1..Len(s) : s[i] = e
  <2> DEFINE k == SelectInSeq(s, LAMBDA v : v = e)
  <2>1. RemoveFirst(s, e) = SubSeq(s, 1, k - 1) \o SubSeq(s, k + 1, Len(s))
    BY <1>2 DEF RemoveFirst, RemoveAt
  <2>2. k \in 1..Len(s)
    <3> DEFINE T == {i \in 1..Len(s) : s[i] = e}
    <3>1. T # {} /\ T \subseteq Nat
      BY <1>2
    <3>2. k = Min(T)
      BY <3>1 DEF SelectInSeq
    <3> QED BY <3>1, <3>2, MinInSet
  <2> HIDE DEF k
  <2> DEFINE p == SubSeq(s, 1, k - 1)
             q == SubSeq(s, k + 1, Len(s))
  <2>3. p \in Seq(S) /\ Len(p) = k - 1 /\ \A i \in 1..(k - 1) : p[i] = s[i]
    BY <2>2
  <2>4. q \in Seq(S) /\ Len(q) = Len(s) - k /\ \A i \in 1..(Len(s) - k) : q[i] = s[k + i]
    BY <2>2
  <2> HIDE DEF p, q
  <2>5. p \o q \in Seq(S)
    BY <2>3, <2>4
  <2>6. ASSUME NEW i \in DOMAIN (p \o q)
        PROVE  (p \o q)[i] \in ToSet(s)
    <3>1. i \in 1..(Len(p) + Len(q))
      BY <2>3, <2>4, <2>6
    <3>2. CASE i <= Len(p)
      BY <2>2, <2>3, <2>4, <3>1, <3>2 DEF ToSet
    <3>3. CASE i > Len(p)
      <4> DEFINE j == i - Len(p)
      <4>1. (p \o q)[i] = q[j]
        BY <2>3, <2>4, <3>1, <3>3
      <4>2. j \in 1..(Len(s) - k)
        BY <2>2, <2>3, <2>4, <3>1, <3>3
      <4> HIDE DEF j
      <4>3. q[j] = s[k + j]
        BY <2>4, <4>2
      <4>4. k + j \in 1..Len(s)
        BY <2>2, <4>2
      <4>5. s[k + j] \in ToSet(s)
        BY <4>4 DEF ToSet
      <4> QED BY <4>1, <4>3, <4>5
    <3> QED BY <3>1, <3>2, <3>3, <2>3
  <2>7. ToSet(p \o q) \subseteq ToSet(s)
    BY <2>6 DEF ToSet
  <2> QED BY <2>1, <2>5, <2>7 DEF p, q
<1> QED BY <1>1, <1>2

-----------------------------------------------------------------------------
\* Init establishes the invariant: nobody is in the Logger and the list is empty.
LEMMA InitHolds == Init => IInv
<1> SUFFICES ASSUME Init PROVE IInv
  OBVIOUS
<1>1. TypeOK
  <2>1. /\ mtx \in Actors \cup {None} /\ loopback \in Senders \cup {None}
        /\ alive \subseteq Sinks \cup Senders
    BY DEF Init
  <2>b. origin \in BOOLEAN
    BY Zenon DEF Init
  <2>s. sinks \in Seq(Sinks \cup Senders)
    BY DEF Init
  <2>2. arg \in [Threads -> Seq(Sinks)] /\ left \in [Actors -> Seq(Sinks \cup Senders)]
    BY DEF Init
  <2>3. run \in [Senders -> BOOLEAN]
    BY DEF Init
  <2>4. pc \in [Actors -> {"none", "idle"}]
    BY DEF Init
  <2> QED BY <2>1, <2>b, <2>s, <2>2, <2>3, <2>4 DEF TypeOK
<1>2. Exclusive /\ LeftListed /\ Cleared
  BY DEF Init, Exclusive, LeftListed, Cleared, Holding, Actors
<1>3. ListedAlive
  BY DEF Init, ListedAlive, ToSet
<1> QED BY <1>1, <1>2, <1>3 DEF IInv

\* With the mutex free nobody is where it is needed; with a holder, only the holder.
LEMMA OnlyHolder ==
  ASSUME IInv
  PROVE  /\ mtx = None => \A b \in Actors : pc[b] \notin Holding
         /\ \A a, b \in Actors : pc[a] \in Holding /\ pc[b] \in Holding => a = b
<1>1. None \notin Actors
  BY LoggerAssumption DEF Actors
<1> QED BY <1>1 DEF IInv, Exclusive

\* Log.
LEMMA LogStepHolds ==
  ASSUME IInv, NEW a \in Actors, LogStep(a)
  PROVE  IInv'
<1> USE DEF IInv, TypeOK
<1>0. a \in Threads => a \notin Senders
  BY LoggerAssumption
<1>1. CASE LogEnter(a)
  <2>1. TypeOK'
    BY <1>1 DEF LogEnter, Goto
  <2>2. Exclusive' /\ LeftListed' /\ Cleared' /\ ListedAlive'
    BY <1>1 DEF LogEnter, Goto, Exclusive, LeftListed, Cleared, ListedAlive, Holding, Actors
  <2> QED BY <2>1, <2>2
<1>2. CASE LogLock(a)
  <2>1. TypeOK'
    BY <1>2 DEF LogLock, Goto
  <2>2. Exclusive'
    BY <1>2, OnlyHolder DEF LogLock, Goto, Exclusive, Holding
  <2>3. LeftListed' /\ Cleared' /\ ListedAlive'
    BY <1>2, OnlyHolder DEF LogLock, Goto, LeftListed, Cleared, ListedAlive, Holding, Actors
  <2> QED BY <2>1, <2>2, <2>3
<1>3. CASE CallSink(a)
  <2>1. Tail(left[a]) \in Seq(Sinks \cup Senders) /\ ToSet(Tail(left[a])) \subseteq ToSet(left[a])
    <3>1. left[a] \in Seq(Sinks \cup Senders) /\ left[a] # <<>>
      BY <1>3 DEF CallSink
    <3>2. Head(left[a]) \in Sinks \cup Senders
      BY <3>1
    <3> QED BY <3>1, <3>2, ToSetFacts
  <2>2. TypeOK'
    BY <1>3, <2>1 DEF CallSink
  <2>3. Exclusive' /\ LeftListed' /\ Cleared' /\ ListedAlive'
    BY <1>3, <2>1 DEF CallSink, Exclusive, LeftListed, Cleared, ListedAlive
  <2> QED BY <2>2, <2>3
<1>4. CASE CallSinkLogs(a)
  <2>1. TypeOK'
    BY <1>4 DEF CallSinkLogs, Goto
  <2>2. Exclusive' /\ LeftListed' /\ Cleared' /\ ListedAlive'
    BY <1>4 DEF CallSinkLogs, Goto, Exclusive, LeftListed, Cleared, ListedAlive, Holding, Actors
  <2> QED BY <2>1, <2>2
<1>5. CASE LogUnlock(a)
  <2>1. TypeOK'
    BY <1>5 DEF LogUnlock, Goto
  <2>2. Exclusive'
    BY <1>5, OnlyHolder DEF LogUnlock, Goto, Exclusive, Holding
  <2>3. LeftListed' /\ Cleared' /\ ListedAlive'
    BY <1>5 DEF LogUnlock, Goto, LeftListed, Cleared, ListedAlive, Actors
  <2> QED BY <2>1, <2>2, <2>3
<1> QED BY <1>1, <1>2, <1>3, <1>4, <1>5 DEF LogStep

\* Open, AddSinks and RemoveSinks.
LEMMA ListStepHolds ==
  ASSUME IInv, NEW a \in Threads,
         \/ \E l \in Lists : Open(a, l) \/ AddSinks(a, l) \/ RemoveSinks(a, l)
         \/ OpenSinks(a)
         \/ \E s \in Senders, started \in BOOLEAN : OpenLoopback(a, s, started)
         \/ AddSink(a) \/ RemoveSink(a) \/ SinksChanged(a)
  PROVE  IInv'
<1> USE DEF IInv, TypeOK
<1>0. /\ a \in Actors /\ Threads \subseteq Actors /\ Senders \subseteq Actors
      /\ Lists \subseteq Seq(Sinks) /\ \A s \in Senders : s \notin Threads
  BY LoggerAssumption DEF Actors
<1>s. \A s : s \in Seq(Sinks) => s \in Seq(Sinks \cup Senders)
  OBVIOUS
<1>1. ASSUME NEW l \in Lists, Open(a, l) PROVE IInv'
  <2>1. TypeOK'
    BY <1>0, <1>1 DEF Open, Goto
  <2>2. Exclusive' /\ LeftListed' /\ Cleared'
    BY <1>0, <1>1 DEF Open, Goto, Exclusive, LeftListed, Cleared, Holding
  <2>3. ListedAlive'
    BY <1>0, <1>1 DEF Open, Goto, ListedAlive
  <2> QED BY <2>1, <2>2, <2>3
<1>2. ASSUME NEW l \in Lists, AddSinks(a, l) PROVE IInv'
  <2>1. TypeOK'
    BY <1>0, <1>2 DEF AddSinks, Goto
  <2>2. Exclusive' /\ LeftListed' /\ Cleared'
    BY <1>0, <1>2, OnlyHolder DEF AddSinks, Goto, Exclusive, LeftListed, Cleared, Holding
  <2>3. ListedAlive'
    BY <1>0, <1>2 DEF AddSinks, Goto, ListedAlive
  <2> QED BY <2>1, <2>2, <2>3
<1>3. ASSUME NEW l \in Lists, RemoveSinks(a, l) PROVE IInv'
  <2>1. TypeOK'
    BY <1>0, <1>3 DEF RemoveSinks, Goto
  <2>2. Exclusive' /\ LeftListed' /\ Cleared'
    BY <1>0, <1>3, OnlyHolder DEF RemoveSinks, Goto, Exclusive, LeftListed, Cleared, Holding
  <2>3. ListedAlive'
    BY <1>0, <1>3 DEF RemoveSinks, Goto, ListedAlive
  <2> QED BY <2>1, <2>2, <2>3
<1>4. CASE OpenSinks(a)
  <2>1. TypeOK' /\ ToSet(arg'[a]) = {}
    BY <1>0, <1>s, <1>4 DEF OpenSinks, Goto, ToSet
  <2>2. Exclusive' /\ LeftListed' /\ Cleared'
    BY <1>0, <1>4, OnlyHolder DEF OpenSinks, Goto, Exclusive, LeftListed, Cleared, Holding
  <2>3. ListedAlive'
    BY <1>0, <1>4, <2>1 DEF OpenSinks, Goto, ListedAlive
  <2> QED BY <2>1, <2>2, <2>3
<1>5. ASSUME NEW s \in Senders, NEW started \in BOOLEAN, OpenLoopback(a, s, started) PROVE IInv'
  <2>1. TypeOK'
    <3>1. sinks' \in Seq(Sinks \cup Senders) /\ alive' \subseteq Sinks \cup Senders
      BY <1>5 DEF OpenLoopback
    <3>2. run' \in [Senders -> BOOLEAN]
      BY <1>5, Zenon DEF OpenLoopback
    <3>3. pc' \in [Actors -> {"none", "idle", "lock", "log", "relock", "open", "add", "remove",
                              "set", "close", "closed", "done"}]
      BY <1>0, <1>5 DEF OpenLoopback
    <3>4. /\ mtx' = mtx /\ origin' = origin /\ arg' = arg /\ left' = left /\ loopback' = s
      BY <1>5 DEF OpenLoopback
    <3> QED BY <3>1, <3>2, <3>3, <3>4
  <2>2. \A b \in Actors : pc'[b] \notin Holding
    BY <1>0, <1>5, OnlyHolder DEF OpenLoopback, Holding
  <2>3. Exclusive' /\ LeftListed' /\ Cleared'
    BY <1>0, <2>2 DEF Exclusive, LeftListed, Cleared, Holding
  <2>4. ToSet(sinks') = {s}
    BY <1>5 DEF OpenLoopback, ToSet
  <2>5. \A b \in Threads : pc[b] # "remove" /\ ToSet(arg[b]) \subseteq alive
    BY <1>0, <1>5, OnlyHolder DEF OpenLoopback, Holding, ListedAlive
  <2>6. ListedAlive'
    BY <1>5, <2>4, <2>5 DEF OpenLoopback, ListedAlive
  <2> QED BY <2>1, <2>3, <2>6
<1>6. CASE AddSink(a)
  <2>1. /\ Head(arg[a]) \in ToSet(arg[a]) /\ Head(arg[a]) \in Sinks
        /\ Tail(arg[a]) \in Seq(Sinks) /\ ToSet(Tail(arg[a])) \subseteq ToSet(arg[a])
    <3>1. arg[a] \in Seq(Sinks) /\ arg[a] # <<>> /\ Head(arg[a]) \in Sinks
      BY <1>6 DEF AddSink
    <3> QED BY <3>1, ToSetFacts
  <2>2. Head(arg[a]) \in alive
    BY <1>6, <2>1 DEF AddSink, ListedAlive
  <2>3. sinks' \in Seq(Sinks \cup Senders) /\ ToSet(sinks') \subseteq ToSet(sinks) \cup {Head(arg[a])}
    BY <1>6, <2>1, ToSetFacts DEF AddSink
  <2>4. TypeOK'
    BY <1>6, <2>1, <2>3 DEF AddSink
  <2>5. \A b \in Actors : pc[b] \in Holding => b = a
    BY <1>0, <1>6, OnlyHolder DEF AddSink, Holding
  <2>6. Exclusive' /\ LeftListed' /\ Cleared'
    BY <1>0, <1>6, <2>5 DEF AddSink, Exclusive, LeftListed, Cleared, Holding
  <2>7. ListedAlive'
    BY <1>6, <2>1, <2>2, <2>3 DEF AddSink, ListedAlive
  <2> QED BY <2>4, <2>6, <2>7
<1>7. CASE RemoveSink(a)
  <2>1. Tail(arg[a]) \in Seq(Sinks)
    BY <1>7 DEF RemoveSink
  <2>2. sinks' \in Seq(Sinks \cup Senders) /\ ToSet(sinks') \subseteq ToSet(sinks)
    BY <1>7, RemoveFirstFacts DEF RemoveSink
  <2>3. TypeOK'
    BY <1>7, <2>1, <2>2 DEF RemoveSink
  <2>4. \A b \in Actors : pc[b] \in Holding => b = a
    BY <1>0, <1>7, OnlyHolder DEF RemoveSink, Holding
  <2>5. Exclusive' /\ LeftListed' /\ Cleared'
    BY <1>0, <1>7, <2>4 DEF RemoveSink, Exclusive, LeftListed, Cleared, Holding
  <2>6. ListedAlive'
    BY <1>7, <2>2 DEF RemoveSink, ListedAlive
  <2> QED BY <2>3, <2>5, <2>6
<1>8. CASE SinksChanged(a)
  <2>1. TypeOK' /\ ToSet(arg'[a]) = {}
    BY <1>0, <1>8 DEF SinksChanged, Goto, ToSet
  <2>2. \A b \in Actors : pc[b] \in Holding => b = a
    BY <1>0, <1>8, OnlyHolder DEF SinksChanged, Holding
  <2>3. Exclusive' /\ LeftListed' /\ Cleared'
    BY <1>0, <1>8, <2>2 DEF SinksChanged, Goto, Exclusive, LeftListed, Cleared, Holding
  <2>4. ListedAlive'
    BY <1>0, <1>8, <2>1 DEF SinksChanged, Goto, ListedAlive
  <2> QED BY <2>1, <2>3, <2>4
<1> QED BY <1>1, <1>2, <1>3, <1>4, <1>5, <1>6, <1>7, <1>8

\* SetSinks and Close: the list is empty while the LoopbackSender goes away.
LEMMA CloseStepHolds ==
  ASSUME IInv, NEW a \in Threads,
         \/ \E l \in Lists : SetSinks(a, l)
         \/ SetSinksJoined(a) \/ Close(a) \/ CloseJoined(a) \/ CloseOrigin(a)
  PROVE  IInv'
<1> USE DEF IInv, TypeOK
<1>0. /\ a \in Actors /\ Threads \subseteq Actors /\ Senders \subseteq Actors
      /\ Lists \subseteq Seq(Sinks) /\ \A s \in Senders : s \notin Threads
  BY LoggerAssumption DEF Actors
<1>r. StoppedSender \in [Senders -> BOOLEAN]
  BY Zenon DEF StoppedSender
<1>e. ToSet(<<>>) = {}
  BY DEF ToSet
<1>k. loopback \notin Sinks /\ loopback # a
  BY <1>0, LoggerAssumption
<1>g. \A b \in Threads : ToSet(arg[b]) \subseteq Sinks
  BY DEF ToSet
<1>1. ASSUME NEW l \in Lists, SetSinks(a, l) PROVE IInv'
  <2>1. TypeOK'
    BY <1>0, <1>r, <1>1 DEF SetSinks, Goto
  <2>2. Exclusive' /\ LeftListed' /\ Cleared'
    BY <1>0, <1>1, OnlyHolder DEF SetSinks, Goto, Exclusive, LeftListed, Cleared, Holding
  <2>3. ListedAlive'
    BY <1>0, <1>e, <1>1 DEF SetSinks, Goto, ListedAlive
  <2> QED BY <2>1, <2>2, <2>3
<1>2. CASE SetSinksJoined(a)
  <2>1. arg[a] \in Seq(Sinks) /\ sinks' = arg[a] /\ ToSet(sinks') \subseteq alive'
    BY <1>k, <1>g, <1>2 DEF SetSinksJoined, ListedAlive
  <2>2. TypeOK'
    <3>1. sinks' \in Seq(Sinks \cup Senders)
      BY <2>1
    <3>2. pc' \in [Actors -> {"none", "idle", "lock", "log", "relock", "open", "add", "remove",
                              "set", "close", "closed", "done"}]
      BY <1>2 DEF SetSinksJoined
    <3>3. arg' \in [Threads -> Seq(Sinks)] /\ alive' \subseteq Sinks \cup Senders
      BY <1>2 DEF SetSinksJoined
    <3>4. mtx' = None /\ loopback' = None /\ origin' = origin /\ left' = left /\ run' = run
      BY <1>2 DEF SetSinksJoined
    <3> QED BY <3>1, <3>2, <3>3, <3>4
  <2>3. \A b \in Actors : pc'[b] \notin Holding
    BY <1>0, <1>2, OnlyHolder DEF SetSinksJoined, Holding
  <2>4. Exclusive' /\ LeftListed' /\ Cleared'
    BY <1>0, <2>3 DEF Exclusive, LeftListed, Cleared, Holding
  <2>5. \A b \in Threads : ToSet(arg'[b]) \subseteq alive'
    <3>1. \A b \in Threads : b # a => pc[b] # "remove"
      BY <1>0, <1>2, OnlyHolder DEF SetSinksJoined, Holding
    <3> QED BY <1>e, <1>k, <1>g, <1>2, <3>1 DEF SetSinksJoined, ListedAlive
  <2> QED BY <2>1, <2>2, <2>4, <2>5 DEF ListedAlive
<1>3. CASE Close(a)
  <2>1. TypeOK'
    BY <1>0, <1>r, <1>3 DEF Close, Goto
  <2>2. Exclusive' /\ LeftListed' /\ Cleared'
    BY <1>0, <1>3, OnlyHolder DEF Close, Goto, Exclusive, LeftListed, Cleared, Holding
  <2>3. ListedAlive'
    BY <1>0, <1>e, <1>3 DEF Close, Goto, ListedAlive
  <2> QED BY <2>1, <2>2, <2>3
<1>4. CASE CloseJoined(a)
  <2>1. TypeOK'
    <3>1. pc' \in [Actors -> {"none", "idle", "lock", "log", "relock", "open", "add", "remove",
                              "set", "close", "closed", "done"}]
      BY <1>4 DEF CloseJoined
    <3>2. /\ mtx' = None /\ loopback' = None /\ alive' \subseteq Sinks \cup Senders
          /\ origin' = origin /\ sinks' = sinks /\ arg' = arg /\ left' = left /\ run' = run
      BY <1>4 DEF CloseJoined
    <3> QED BY <3>1, <3>2
  <2>2. \A b \in Actors : pc'[b] \notin Holding
    BY <1>0, <1>4, OnlyHolder DEF CloseJoined, Holding
  <2>3. Exclusive' /\ LeftListed' /\ Cleared'
    BY <1>0, <2>2 DEF Exclusive, LeftListed, Cleared, Holding
  <2>4. sinks' = <<>>
    BY <1>4 DEF CloseJoined, Cleared
  <2>5. \A b \in Threads : ToSet(arg'[b]) \subseteq alive'
    <3>1. \A b \in Threads : pc[b] # "remove"
      BY <1>0, <1>4, OnlyHolder DEF CloseJoined, Holding
    <3> QED BY <1>k, <1>g, <1>4, <3>1 DEF CloseJoined, ListedAlive
  <2> QED BY <1>e, <2>1, <2>3, <2>4, <2>5 DEF ListedAlive
<1>5. CASE CloseOrigin(a)
  <2>1. TypeOK'
    BY <1>0, <1>5 DEF CloseOrigin, Goto
  <2>2. Exclusive' /\ LeftListed' /\ Cleared' /\ ListedAlive'
    BY <1>0, <1>5 DEF CloseOrigin, Goto, Exclusive, LeftListed, Cleared, ListedAlive, Holding
  <2> QED BY <2>1, <2>2
<1> QED BY <1>1, <1>2, <1>3, <1>4, <1>5

\* The end of a sender's thread, and sinks that the program destroys and makes.
LEMMA OtherStepHolds ==
  ASSUME IInv,
         \/ \E s \in Senders : SenderDone(s)
         \/ \E k \in Sinks : DestroySink(k) \/ CreateSink(k)
  PROVE  IInv'
<1> USE DEF IInv, TypeOK
<1>1. ASSUME NEW s \in Senders, SenderDone(s) PROVE IInv'
  <2>0. Threads \subseteq Actors /\ s \in Actors /\ s \notin Threads
    BY LoggerAssumption DEF Actors
  <2>1. TypeOK'
    BY <1>1, <2>0 DEF SenderDone, Goto
  <2>2. Exclusive' /\ LeftListed' /\ Cleared' /\ ListedAlive'
    BY <1>1, <2>0 DEF SenderDone, Goto, Exclusive, LeftListed, Cleared, ListedAlive, Holding
  <2> QED BY <2>1, <2>2
<1>2. ASSUME NEW k \in Sinks, DestroySink(k) PROVE IInv'
  BY <1>2 DEF DestroySink, Exclusive, LeftListed, Cleared, ListedAlive
<1>3. ASSUME NEW k \in Sinks, CreateSink(k) PROVE IInv'
  BY <1>3 DEF CreateSink, Exclusive, LeftListed, Cleared, ListedAlive
<1> QED BY <1>1, <1>2, <1>3

\* The invariant is inductive.
LEMMA NextHolds == IInv /\ [Next]_vars => IInv'
<1> SUFFICES ASSUME IInv, [Next]_vars PROVE IInv'
  OBVIOUS
<1>1. CASE UNCHANGED vars
  BY <1>1 DEF vars, IInv, TypeOK, Exclusive, ListedAlive, LeftListed, Cleared
<1>2. CASE Next
  BY <1>2, LogStepHolds, ListStepHolds, CloseStepHolds, OtherStepHolds DEF Next
<1> QED BY <1>1, <1>2

\* Log calls only sinks that exist, in every interleaving of logging, adding,
\* removing, setting and closing, for any number of threads and sinks.
THEOREM CallsLiveSinks == Spec => []NoCallToDestroyed
<1>1. IInv => NoCallToDestroyed
  BY DEF IInv, LeftListed, ListedAlive, NoCallToDestroyed
<1> QED BY <1>1, InitHolds, NextHolds, PTL DEF Spec
=============================================================================
