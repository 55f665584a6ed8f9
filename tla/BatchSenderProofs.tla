-------------------------- MODULE BatchSenderProofs --------------------------
(***************************************************************************)
(* The senders implement LossyFifo and lose a message only when they say   *)
(* so, for every capacity, size, queue length and number of messages.  The *)
(* argument: what was sent, the packet, the message that did not fit and   *)
(* the queue hold, in this order, ascending numbers.                       *)
(***************************************************************************)
EXTENDS BatchSender, SequenceTheorems, TLAPS

\* The number of a message, if it is tracked.
No(m) == {m.no} \ {0}

Before(A, B) == \A a \in A, b \in B : a < b

Sorted(s) == \A i, j \in DOMAIN s : i < j => s[i] < s[j]

QueueSorted ==
  \A i, j \in DOMAIN queue :
    i < j /\ queue[i].no # 0 /\ queue[j].no # 0 => queue[i].no < queue[j].no

Order ==
  /\ Sorted(sent)
  /\ Sorted(pkt)
  /\ QueueSorted
  /\ Before(Range(sent), Range(pkt) \cup No(msg) \cup Numbers(queue))
  /\ Before(Range(pkt), No(msg) \cup Numbers(queue))
  /\ Before(No(msg), Numbers(queue))
  /\ Range(sent) \cup Range(pkt) \cup No(msg) \cup Numbers(queue) \subseteq 1..accepted

\* An empty payload has no messages, msg is in use only while the packet is
\* full, and a stopped sender has no thread.
Idle ==
  /\ payloadLength = 0 => pkt = <<>>
  /\ spc # "full" => msg.no = 0
  /\ mpc = "stopped" => spc = "none"

IInv == TypeOK /\ Order /\ Idle

-----------------------------------------------------------------------------
(* Sequences                                                               *)

\* The elements of a concatenation.
LEMMA RangeFacts ==
  ASSUME NEW S, NEW s \in Seq(S), NEW t \in Seq(S)
  PROVE  /\ s \o t \in Seq(S)
         /\ Range(s \o t) = Range(s) \cup Range(t)
         /\ Range(s) \subseteq S
<1>1. /\ s \o t \in Seq(S) /\ Len(s \o t) = Len(s) + Len(t)
      /\ \A i \in 1..(Len(s) + Len(t)) :
           (s \o t)[i] = IF i <= Len(s) THEN s[i] ELSE t[i - Len(s)]
  BY ConcatProperties, Zenon
<1> DEFINE r == s \o t
<1>2. /\ r \in Seq(S) /\ Len(r) = Len(s) + Len(t)
      /\ \A i \in 1..(Len(s) + Len(t)) : r[i] = IF i <= Len(s) THEN s[i] ELSE t[i - Len(s)]
  BY <1>1
<1> HIDE DEF r
<1>3. /\ DOMAIN r = 1..(Len(s) + Len(t)) /\ DOMAIN s = 1..Len(s) /\ DOMAIN t = 1..Len(t)
      /\ Len(s) \in Nat /\ Len(t) \in Nat
  BY <1>2
<1>4. ASSUME NEW x \in Range(r) PROVE x \in Range(s) \cup Range(t)
  <2>1. PICK i \in 1..(Len(s) + Len(t)) : x = r[i]
    BY <1>3, <1>4 DEF Range
  <2>2. CASE i <= Len(s)
    BY <1>2, <1>3, <2>1, <2>2 DEF Range
  <2>3. CASE ~(i <= Len(s))
    <3>1. i - Len(s) \in 1..Len(t) /\ x = t[i - Len(s)]
      BY <1>2, <1>3, <2>1, <2>3
    <3> QED BY <1>3, <3>1 DEF Range
  <2> QED BY <2>2, <2>3
<1>5. ASSUME NEW x \in Range(s) PROVE x \in Range(r)
  <2>1. PICK i \in 1..Len(s) : x = s[i]
    BY <1>3, <1>5 DEF Range
  <2>2. i \in 1..(Len(s) + Len(t)) /\ r[i] = s[i]
    BY <1>2, <1>3, <2>1
  <2> QED BY <1>3, <2>1, <2>2 DEF Range
<1>6. ASSUME NEW x \in Range(t) PROVE x \in Range(r)
  <2>1. PICK i \in 1..Len(t) : x = t[i]
    BY <1>3, <1>6 DEF Range
  <2>2. i + Len(s) \in 1..(Len(s) + Len(t)) /\ ~(i + Len(s) <= Len(s)) /\ i + Len(s) - Len(s) = i
    BY <1>3, <2>1
  <2>3. r[i + Len(s)] = t[i]
    BY <1>2, <2>2
  <2> QED BY <1>3, <2>1, <2>2, <2>3 DEF Range
<1>7. Range(r) = Range(s) \cup Range(t)
  BY <1>4, <1>5, <1>6
<1>8. Range(s) \subseteq S
  BY DEF Range
<1> QED BY <1>1, <1>7, <1>8 DEF r

\* Ascending numbers followed by larger ascending numbers are ascending.
LEMMA SortedConcat ==
  ASSUME NEW s \in Seq(Nat), NEW t \in Seq(Nat), Sorted(s), Sorted(t), Before(Range(s), Range(t))
  PROVE  /\ Sorted(s \o t)
         /\ \A i \in DOMAIN s : i \in DOMAIN (s \o t) /\ (s \o t)[i] = s[i]
         /\ Len(s \o t) = Len(s) + Len(t)
<1>1. /\ s \o t \in Seq(Nat) /\ Len(s \o t) = Len(s) + Len(t)
      /\ \A i \in 1..(Len(s) + Len(t)) :
           (s \o t)[i] = IF i <= Len(s) THEN s[i] ELSE t[i - Len(s)]
  BY ConcatProperties, Zenon
<1> DEFINE r == s \o t
<1>2. /\ r \in Seq(Nat) /\ Len(r) = Len(s) + Len(t)
      /\ \A i \in 1..(Len(s) + Len(t)) : r[i] = IF i <= Len(s) THEN s[i] ELSE t[i - Len(s)]
  BY <1>1
<1> HIDE DEF r
<1>3. /\ DOMAIN r = 1..(Len(s) + Len(t)) /\ DOMAIN s = 1..Len(s) /\ DOMAIN t = 1..Len(t)
      /\ Len(s) \in Nat /\ Len(t) \in Nat
  BY <1>2
<1>4. ASSUME NEW i \in DOMAIN r, NEW j \in DOMAIN r, i < j PROVE r[i] < r[j]
  <2>1. CASE j <= Len(s)
    <3>1. i \in DOMAIN s /\ j \in DOMAIN s /\ r[i] = s[i] /\ r[j] = s[j]
      BY <1>2, <1>3, <1>4, <2>1
    <3> QED BY <1>4, <3>1 DEF Sorted
  <2>2. CASE ~(i <= Len(s))
    <3>i. /\ i \in Nat /\ j \in Nat /\ i < j /\ i \in 1..(Len(s) + Len(t))
          /\ j \in 1..(Len(s) + Len(t))
      BY <1>3, <1>4
    <3>3. ~(j <= Len(s))
      BY <1>3, <2>2, <3>i
    <3>1. i - Len(s) \in DOMAIN t /\ j - Len(s) \in DOMAIN t /\ i - Len(s) < j - Len(s)
      BY <1>3, <2>2, <3>3, <3>i
    <3>2. r[i] = t[i - Len(s)]
      BY <1>2, <2>2, <3>i
    <3>4. r[j] = t[j - Len(s)]
      BY <1>2, <1>3, <3>3
    <3>5. t[i - Len(s)] < t[j - Len(s)]
      BY <3>1 DEF Sorted
    <3> QED BY <3>2, <3>4, <3>5
  <2>3. CASE i <= Len(s) /\ ~(j <= Len(s))
    <3>i. i \in 1..(Len(s) + Len(t)) /\ j \in 1..(Len(s) + Len(t))
      BY <1>3
    <3>p. i \in DOMAIN s /\ j - Len(s) \in DOMAIN t
      BY <1>3, <2>3, <3>i
    <3>1. i \in DOMAIN s /\ j - Len(s) \in DOMAIN t /\ r[i] = s[i] /\ r[j] = t[j - Len(s)]
      BY <1>2, <2>3, <3>i, <3>p
    <3>2. s[i] \in Range(s) /\ t[j - Len(s)] \in Range(t)
      BY <3>1 DEF Range
    <3> QED BY <3>1, <3>2 DEF Before
  <2> QED BY <1>3, <1>4, <2>1, <2>2, <2>3
<1>5. \A i \in DOMAIN s : i \in DOMAIN r /\ r[i] = s[i]
  BY <1>2, <1>3
<1>6. Sorted(r)
  BY <1>4 DEF Sorted
<1> QED BY <1>1, <1>5, <1>6 DEF r

\* The packet's view of a message.
LEMMA TrackedFacts ==
  ASSUME NEW m \in Message
  PROVE  /\ Tracked(m) \in Seq(1..MaxTracked)
         /\ Range(Tracked(m)) = No(m)
         /\ Sorted(Tracked(m))
         /\ Numbers(<<m>>) = No(m)
         /\ No(m) \subseteq 1..MaxTracked
<1>1. m.no \in 0..MaxTracked /\ MaxTracked \in Nat
  BY BatchSenderAssumption DEF Message
<1>2. CASE m.no = 0
  BY <1>1, <1>2 DEF Tracked, Range, No, Sorted, Numbers
<1>3. CASE m.no # 0
  BY <1>1, <1>3 DEF Tracked, Range, No, Sorted, Numbers
<1> QED BY <1>2, <1>3

\* A message at the end of the queue.
LEMMA QueueAppend ==
  ASSUME NEW q \in Seq(Message), NEW m \in Message
  PROVE  /\ Append(q, m) \in Seq(Message) /\ Len(Append(q, m)) = Len(q) + 1
         /\ Numbers(Append(q, m)) = Numbers(q) \cup No(m)
         /\ \A i \in DOMAIN Append(q, m) :
              \/ i \in DOMAIN q /\ Append(q, m)[i] = q[i]
              \/ i = Len(q) + 1 /\ Append(q, m)[i] = m
<1> DEFINE r == Append(q, m)
<1>1. /\ r \in Seq(Message) /\ Len(r) = Len(q) + 1 /\ DOMAIN r = 1..(Len(q) + 1)
      /\ DOMAIN q = 1..Len(q) /\ Len(q) \in Nat
  OBVIOUS
<1>2. \A i \in 1..Len(q) : r[i] = q[i]
  OBVIOUS
<1>3. r[Len(q) + 1] = m
  OBVIOUS
<1> HIDE DEF r
<1>4. Numbers(r) = Numbers(q) \cup No(m)
  BY <1>1, <1>2, <1>3 DEF Numbers, No
<1>5. \A i \in DOMAIN r : (i \in DOMAIN q /\ r[i] = q[i]) \/ (i = Len(q) + 1 /\ r[i] = m)
  BY <1>1, <1>2, <1>3
<1> QED BY <1>1, <1>4, <1>5 DEF r

\* The message at its front is taken.
LEMMA QueueTail ==
  ASSUME NEW q \in Seq(Message), q # <<>>
  PROVE  /\ Head(q) \in Message /\ Tail(q) \in Seq(Message) /\ Len(Tail(q)) = Len(q) - 1
         /\ Len(q) \in Nat \ {0} /\ 1 \in DOMAIN q /\ Head(q) = q[1]
         /\ Numbers(q) = No(Head(q)) \cup Numbers(Tail(q))
         /\ \A i \in DOMAIN Tail(q) : i + 1 \in DOMAIN q /\ Tail(q)[i] = q[i + 1] /\ i \in Nat
<1> DEFINE r == Tail(q)
<1>1. /\ r \in Seq(Message) /\ Len(r) = Len(q) - 1 /\ DOMAIN r = 1..(Len(q) - 1)
      /\ DOMAIN q = 1..Len(q) /\ Len(q) \in Nat \ {0}
  OBVIOUS
<1>2. \A i \in 1..(Len(q) - 1) : r[i] = q[i + 1]
  OBVIOUS
<1>3. Head(q) = q[1] /\ Head(q) \in Message
  OBVIOUS
<1> HIDE DEF r
<1>4. \A i \in 1..Len(q) : i = 1 \/ (i - 1 \in 1..(Len(q) - 1) /\ q[i] = r[i - 1])
  <2>1. ASSUME NEW i \in 1..Len(q), i # 1 PROVE i - 1 \in 1..(Len(q) - 1) /\ q[i] = r[i - 1]
    <3>1. i - 1 \in 1..(Len(q) - 1) /\ (i - 1) + 1 = i
      BY <1>1, <2>1
    <3> QED BY <1>2, <3>1
  <2> QED BY <2>1
<1>5. \A i \in 1..(Len(q) - 1) : i + 1 \in 1..Len(q) /\ i \in Nat
  BY <1>1
<1>6. Numbers(q) \subseteq No(Head(q)) \cup Numbers(r)
  <2> SUFFICES ASSUME NEW x \in Numbers(q) PROVE x \in No(Head(q)) \cup Numbers(r)
    OBVIOUS
  <2>1. PICK i \in 1..Len(q) : x = q[i].no /\ x # 0
    BY <1>1 DEF Numbers
  <2>2. CASE i = 1
    BY <1>3, <2>1, <2>2 DEF No
  <2>3. CASE i # 1
    <3>1. i - 1 \in DOMAIN r /\ x = r[i - 1].no
      BY <1>1, <1>4, <2>1, <2>3
    <3> QED BY <2>1, <3>1 DEF Numbers
  <2> QED BY <2>2, <2>3
<1>7. No(Head(q)) \cup Numbers(r) \subseteq Numbers(q)
  <2>1. No(Head(q)) \subseteq Numbers(q)
    BY <1>1, <1>3 DEF Numbers, No
  <2>2. ASSUME NEW x \in Numbers(r) PROVE x \in Numbers(q)
    <3>1. PICK i \in 1..(Len(q) - 1) : x = r[i].no /\ x # 0
      BY <1>1, <2>2 DEF Numbers
    <3>2. i + 1 \in DOMAIN q /\ x = q[i + 1].no
      BY <1>1, <1>2, <1>5, <3>1
    <3> QED BY <3>1, <3>2 DEF Numbers
  <2> QED BY <2>1, <2>2
<1>8. 1 \in DOMAIN q
  BY <1>1
<1> QED BY <1>1, <1>2, <1>3, <1>5, <1>6, <1>7, <1>8 DEF r

-----------------------------------------------------------------------------
(* The invariant                                                           *)

\* The types the sequence lemmas need.
LEMMA Types ==
  ASSUME IInv
  PROVE  /\ queue \in Seq(Message) /\ msg \in Message
         /\ pkt \in Seq(1..MaxTracked) /\ sent \in Seq(1..MaxTracked)
         /\ pkt \in Seq(Nat) /\ sent \in Seq(Nat)
         /\ accepted \in 0..MaxTracked /\ MaxTracked \in Nat
         /\ payloadLength \in 0..Capacity /\ Capacity \in Nat \ {0}
<1>1. /\ queue \in Seq(Message) /\ msg \in Message
      /\ pkt \in Seq(1..MaxTracked) /\ sent \in Seq(1..MaxTracked)
      /\ accepted \in 0..MaxTracked /\ payloadLength \in 0..Capacity
  BY DEF IInv, TypeOK
<1>2. \A t \in Seq(1..MaxTracked) : t \in Seq(Nat)
  BY BatchSenderAssumption
<1> QED BY <1>1, <1>2, BatchSenderAssumption

\* An unused msg has no number.
LEMMA NoMessageFacts == NoMessage \in Message /\ NoMessage.no = 0 /\ No(NoMessage) = {}
  BY BatchSenderAssumption DEF NoMessage, Message, No

\* Nothing has been accepted, so the order holds.
LEMMA InitOK == Init => IInv
<1> SUFFICES ASSUME Init PROVE IInv
  OBVIOUS
<1>1. TypeOK
  <2>1. /\ queue \in Seq(Message) /\ Len(queue) <= MaxLength
        /\ pkt \in Seq(1..MaxTracked) /\ sent \in Seq(1..MaxTracked)
    BY BatchSenderAssumption DEF Init
  <2>2. accepted \in 0..MaxTracked /\ payloadLength \in 0..Capacity
    BY BatchSenderAssumption DEF Init
  <2>3. msg \in Message /\ run \in BOOLEAN
    BY NoMessageFacts DEF Init
  <2>4. /\ mpc = "stopped" /\ spc = "none" /\ sender \in {"loopback", "multicast"}
        /\ refused = {}
    BY DEF Init
  <2> QED BY <2>1, <2>2, <2>3, <2>4 DEF TypeOK
<1>2. Range(sent) = {} /\ Range(pkt) = {} /\ Numbers(queue) = {} /\ No(msg) = {}
  BY NoMessageFacts DEF Init, Range, Numbers
<1>3. Order
  BY <1>2 DEF Init, Order, Sorted, QueueSorted, Before
<1>4. Idle
  BY NoMessageFacts DEF Init, Idle
<1> QED BY <1>1, <1>3, <1>4 DEF IInv

\* The steps that leave the messages where they are.
Silent == UNCHANGED <<queue, msg, pkt, payloadLength, accepted, sent, refused>>

\* Such a step keeps the order.
LEMMA SilentOrder == ASSUME IInv, Silent PROVE Order'
  BY DEF IInv, Order, Silent, QueueSorted

\* Neither does the end of a LoopbackSender disturb it, which frees the queue.
LEMMA StopJoinOrder ==
  ASSUME IInv, StopJoin
  PROVE  /\ Order'
         /\ \/ Numbers(queue') = Numbers(queue)
            \/ sender = "loopback" /\ Numbers(queue') = {}
<1>1. /\ UNCHANGED <<msg, pkt, accepted, sent>>
      /\ queue' = IF sender = "loopback" THEN <<>> ELSE queue
  BY DEF StopJoin, packet
<1>2. CASE sender # "loopback"
  <2>1. queue' = queue
    BY <1>1, <1>2
  <2> QED BY <1>1, <2>1 DEF IInv, Order, QueueSorted
<1>3. CASE sender = "loopback"
  <2>1. queue' = <<>> /\ Numbers(queue') = {}
    BY <1>1, <1>3 DEF Numbers
  <2>2. QueueSorted'
    BY <2>1 DEF QueueSorted
  <2>3. Order'
    BY <1>1, <2>1, <2>2 DEF IInv, Order, Before
  <2> QED BY <1>3, <2>1, <2>3
<1> QED BY <1>2, <1>3

\* Sending a packet, or failing to, and starting the next one with at most the
\* message that did not fit.
Sending ==
  /\ sent' = sent \/ sent' = sent \o pkt
  /\ pkt' = <<>> \/ pkt' = Tracked(msg)
  /\ No(msg') = {}
  /\ UNCHANGED <<queue, accepted>>

\* It keeps the order as well.
LEMMA SendingOrder ==
  ASSUME IInv, Sending
  PROVE  /\ sent' \in Seq(1..MaxTracked)
         /\ pkt' \in Seq(1..MaxTracked)
         /\ Order'
<1>1. /\ sent' \in Seq(1..MaxTracked) /\ Sorted(sent')
      /\ Range(sent') \subseteq Range(sent) \cup Range(pkt)
  <2>1. CASE sent' = sent
    BY <2>1, Types DEF IInv, Order
  <2>2. CASE sent' = sent \o pkt
    <3>0. sent \in Seq(1..MaxTracked) /\ pkt \in Seq(1..MaxTracked)
      BY Types
    <3>1. sent \o pkt \in Seq(1..MaxTracked) /\ Range(sent \o pkt) = Range(sent) \cup Range(pkt)
      <4> DEFINE T == 1..MaxTracked
      <4>1. sent \in Seq(T) /\ pkt \in Seq(T)
        BY <3>0
      <4> HIDE DEF T
      <4>2. sent \o pkt \in Seq(T) /\ Range(sent \o pkt) = Range(sent) \cup Range(pkt)
        BY <4>1, RangeFacts
      <4> QED BY <4>2 DEF T
    <3>2. Sorted(sent) /\ Sorted(pkt) /\ Before(Range(sent), Range(pkt))
      BY DEF IInv, Order, Before
    <3>3. Sorted(sent \o pkt)
      BY <3>2, Types, SortedConcat, Zenon
    <3> QED BY <2>2, <3>1, <3>3, Zenon
  <2> QED BY <2>1, <2>2 DEF Sending
<1>2. pkt' \in Seq(1..MaxTracked) /\ Sorted(pkt') /\ Range(pkt') \subseteq No(msg)
  <2>1. CASE pkt' = <<>>
    BY <2>1 DEF Sorted, Range
  <2>2. CASE pkt' = Tracked(msg)
    BY <2>2, Types, TrackedFacts, Zenon
  <2> QED BY <2>1, <2>2 DEF Sending
<1>3. /\ QueueSorted' /\ Numbers(queue') = Numbers(queue) /\ No(msg') = {}
      /\ accepted' = accepted
  BY DEF IInv, Order, Sending, QueueSorted
<1> HIDE DEF Numbers, No, Sorted, Range
<1>4. Order'
  BY <1>1, <1>2, <1>3 DEF IInv, Order, Before
<1> QED BY <1>1, <1>2, <1>4

\* A message is accepted at the end of the queue.
LEMMA ProcessOrder ==
  ASSUME IInv, NEW size \in 1..MaxSize, NEW tracked \in BOOLEAN, Process(size, tracked)
  PROVE  /\ queue' \in Seq(Message) /\ Len(queue') <= MaxLength
         /\ accepted' \in 0..MaxTracked
         /\ Numbers(queue') = Numbers(queue) \cup ((accepted + 1)..accepted')
         /\ tracked => accepted' = accepted + 1
         /\ ~tracked => accepted' = accepted
         /\ Order'
<1> DEFINE m == [no |-> IF tracked THEN accepted + 1 ELSE 0, size |-> size]
<1>1. /\ tracked => accepted < MaxTracked /\ accepted' = accepted + 1
      /\ ~tracked => accepted' = accepted
      /\ accepted' \in 0..MaxTracked
      /\ queue' = Append(queue, m)
      /\ Len(queue) < MaxLength
      /\ UNCHANGED <<msg, pkt, sent>>
  BY Types DEF Process, PushBack, packet
<1>2. /\ m \in Message
      /\ tracked => m.no = accepted + 1
      /\ ~tracked => m.no = 0
  BY <1>1, Types DEF Message
<1> HIDE DEF m
<1>3. No(m) = (accepted + 1)..accepted'
  BY <1>1, <1>2, Types DEF No
<1>4. /\ queue' \in Seq(Message) /\ Len(queue') = Len(queue) + 1
      /\ Numbers(queue') = Numbers(queue) \cup No(m)
      /\ \A i \in DOMAIN queue' :
           \/ i \in DOMAIN queue /\ queue'[i] = queue[i]
           \/ i = Len(queue) + 1 /\ queue'[i] = m
  BY <1>1, <1>2, Types, QueueAppend
<1>5. Len(queue') <= MaxLength
  BY <1>1, <1>4, Types, BatchSenderAssumption
<1>6. QueueSorted'
  <2> SUFFICES ASSUME NEW i \in DOMAIN queue', NEW j \in DOMAIN queue', i < j,
                      queue'[i].no # 0, queue'[j].no # 0
               PROVE  queue'[i].no < queue'[j].no
    BY DEF QueueSorted
  <2>1. DOMAIN queue = 1..Len(queue) /\ Len(queue) \in Nat
    BY Types
  <2>2. i \in DOMAIN queue /\ queue'[i] = queue[i]
    BY <1>4, <2>1
  <2>3. CASE j \in DOMAIN queue /\ queue'[j] = queue[j]
    BY <2>2, <2>3 DEF IInv, Order, QueueSorted
  <2>4. CASE queue'[j] = m
    <3>1. m.no = accepted + 1
      BY <1>2, <2>4
    <3>2. queue[i].no \in Numbers(queue)
      BY <2>2 DEF Numbers
    <3>3. queue[i].no \in 1..accepted
      BY <3>2 DEF IInv, Order
    <3> QED BY <2>2, <2>4, <3>1, <3>3, Types
  <2> QED BY <1>4, <2>3, <2>4
<1>7. Order'
  <2> DEFINE A == Range(sent)
             B == Range(pkt)
             C == No(msg)
             Q == Numbers(queue)
             R == Numbers(queue')
  <2>1. /\ A \cup B \cup C \cup Q \subseteq 1..accepted
        /\ Before(A, B \cup C \cup Q) /\ Before(B, C \cup Q) /\ Before(C, Q)
        /\ R = Q \cup ((accepted + 1)..accepted')
    BY <1>3, <1>4 DEF IInv, Order
  <2> HIDE DEF A, B, C, Q, R
  <2>2. \A a \in 1..accepted, b \in (accepted + 1)..accepted' : a < b
    BY Types, <1>1
  <2>3. Before(A, B \cup C \cup R) /\ Before(B, C \cup R) /\ Before(C, R)
    BY <2>1, <2>2 DEF Before
  <2>4. A \cup B \cup C \cup R \subseteq 1..accepted'
    BY <2>1, <1>1, Types
  <2>5. Sorted(sent)' /\ Sorted(pkt)'
    BY <1>1 DEF IInv, Order
  <2> QED BY <1>1, <1>6, <2>3, <2>4, <2>5 DEF Order, A, B, C, R
<1> QED BY <1>1, <1>3, <1>4, <1>5, <1>7

\* The message at the front moves to the packet, or to msg.
LEMMA PopOrder ==
  ASSUME IInv, PopFront
  PROVE  /\ queue' \in Seq(Message) /\ Len(queue') <= MaxLength
         /\ Head(queue) \in Message /\ msg' \in Message
         /\ pkt' \in Seq(1..MaxTracked)
         /\ Numbers(queue) = No(Head(queue)) \cup Numbers(queue')
         /\ No(msg) = {}
         /\ \/ Range(pkt') = Range(pkt) \cup No(Head(queue)) /\ msg' = msg
            \/ pkt' = pkt /\ msg' = Head(queue)
         /\ Order'
<1>1. /\ queue \in Seq(Message) /\ queue # <<>> /\ queue' = Tail(queue)
      /\ UNCHANGED <<accepted, sent>> /\ spc = "pop"
      /\ \/ pkt' = pkt \o Tracked(Head(queue)) /\ msg' = msg
         \/ pkt' = pkt /\ msg' = Head(queue)
  BY Types DEF PopFront, packet
<1> DEFINE h == Head(queue)
<1>2. /\ h \in Message /\ queue' \in Seq(Message) /\ Len(queue') = Len(queue) - 1
      /\ Len(queue) \in Nat \ {0} /\ 1 \in DOMAIN queue /\ h = queue[1]
      /\ Numbers(queue) = No(h) \cup Numbers(queue')
      /\ \A i \in DOMAIN queue' : i + 1 \in DOMAIN queue /\ queue'[i] = queue[i + 1] /\ i \in Nat
  BY <1>1, QueueTail
<1>3. Len(queue') <= MaxLength
  BY <1>2, BatchSenderAssumption DEF IInv, TypeOK
<1>4. QueueSorted'
  <2> SUFFICES ASSUME NEW i \in DOMAIN queue', NEW j \in DOMAIN queue', i < j,
                      queue'[i].no # 0, queue'[j].no # 0
               PROVE  queue'[i].no < queue'[j].no
    BY DEF QueueSorted
  <2>1. /\ i + 1 \in DOMAIN queue /\ j + 1 \in DOMAIN queue /\ i + 1 < j + 1
        /\ queue'[i] = queue[i + 1] /\ queue'[j] = queue[j + 1]
    BY <1>2
  <2> QED BY <2>1 DEF IInv, Order, QueueSorted
<1>5. Before(No(h), Numbers(queue'))
  <2> SUFFICES ASSUME NEW a \in No(h), NEW b \in Numbers(queue') PROVE a < b
    BY DEF Before
  <2>1. a = queue[1].no /\ a # 0
    BY <1>2 DEF No
  <2>2. PICK j \in DOMAIN queue' : b = queue'[j].no /\ b # 0
    BY DEF Numbers
  <2>3. j + 1 \in DOMAIN queue /\ b = queue[j + 1].no /\ j + 1 > 1
    <3>1. DOMAIN queue' = 1..Len(queue')
      BY <1>2
    <3> QED BY <1>2, <2>2, <3>1
  <2> QED BY <1>2, <2>1, <2>2, <2>3 DEF IInv, Order, QueueSorted
<1>6. No(msg) = {}
  BY <1>1 DEF IInv, Idle, No
<1>7. Tracked(h) \in Seq(1..MaxTracked) /\ Range(Tracked(h)) = No(h) /\ Sorted(Tracked(h))
  BY <1>2, TrackedFacts, Zenon
<1> HIDE DEF h
<1>8. /\ Sorted(sent) /\ Sorted(pkt)
      /\ Before(Range(sent), Range(pkt) \cup No(h) \cup Numbers(queue'))
      /\ Before(Range(pkt), No(h) \cup Numbers(queue'))
      /\ Range(sent) \cup Range(pkt) \cup No(h) \cup Numbers(queue') \subseteq 1..accepted
  BY <1>2 DEF IInv, Order, Before
<1>9. CASE pkt' = pkt \o Tracked(h) /\ msg' = msg
  <2>1. pkt' \in Seq(1..MaxTracked) /\ Range(pkt') = Range(pkt) \cup No(h)
    <3> DEFINE T == 1..MaxTracked
               t == Tracked(h)
    <3>1. pkt \in Seq(T) /\ t \in Seq(T) /\ Range(t) = No(h)
      BY <1>7, Types
    <3> HIDE DEF T, t
    <3>2. pkt \o t \in Seq(T) /\ Range(pkt \o t) = Range(pkt) \cup Range(t)
      BY <3>1, RangeFacts
    <3> QED BY <1>9, <3>1, <3>2 DEF T, t
  <2>2. Sorted(pkt')
    <3> DEFINE t == Tracked(h)
    <3>1. pkt \in Seq(Nat) /\ t \in Seq(Nat)
      BY <1>7, Types
    <3>2. Sorted(pkt) /\ Sorted(t) /\ Before(Range(pkt), Range(t))
      BY <1>7, <1>8 DEF Before
    <3> HIDE DEF t
    <3>3. Sorted(pkt \o t)
      BY <3>1, <3>2, SortedConcat, Zenon
    <3> QED BY <1>9, <3>3 DEF t
  <2>3. Order'
    BY <1>1, <1>4, <1>5, <1>6, <1>8, <1>9, <2>1, <2>2 DEF Order, Before
  <2> QED BY <1>2, <1>3, <1>6, <1>9, <2>1, <2>3, Types DEF h
<1>10. CASE pkt' = pkt /\ msg' = h
  <2>1. Order'
    BY <1>1, <1>4, <1>5, <1>8, <1>10 DEF Order, Before
  <2> QED BY <1>2, <1>3, <1>6, <1>10, <2>1, Types DEF h
<1> QED BY <1>1, <1>9, <1>10 DEF h

\* What happens to a packet that is sent, or that sendto() refuses.
LEMMA SendPacketEffect ==
  ASSUME IInv, NEW ok \in BOOLEAN, SendPacket(ok)
  PROVE  /\ sent' = sent \/ sent' = sent \o pkt
         /\ refused' \in SUBSET (1..MaxTracked)
         /\ refused' \cup Range(sent') = refused \cup Range(sent) \cup Range(pkt)
<1> DEFINE T == 1..MaxTracked
<1>1. sent \in Seq(T) /\ pkt \in Seq(T) /\ refused \in SUBSET T
  BY Types DEF IInv, TypeOK
<1> HIDE DEF T
<1>2. Range(sent \o pkt) = Range(sent) \cup Range(pkt) /\ Range(pkt) \subseteq T
  BY <1>1, RangeFacts
<1>3. CASE ok
  BY <1>1, <1>2, <1>3 DEF SendPacket, T
<1>4. CASE ~ok
  BY <1>1, <1>2, <1>4 DEF SendPacket, T
<1> QED BY <1>3, <1>4

\* An empty packet has no messages.
LEMMA EmptyRange == Range(<<>>) = {}
  BY DEF Range

\* Flush and Exit: the packet is sent, refused, or was empty; or it is left, by
\* the multicast sender's Exit.
LEMMA FlushEffect ==
  ASSUME IInv, NEW ok \in BOOLEAN, Flush(ok) \/ Exit(ok)
  PROVE  /\ Sending /\ pkt' = <<>> /\ msg' = msg
         /\ refused' \in SUBSET (1..MaxTracked)
         /\ \/ refused' \cup Range(sent') = refused \cup Range(sent) \cup Range(pkt)
            \/ spc = "exit" /\ sender = "multicast" /\ UNCHANGED <<sent, refused>>
<1>1. /\ pkt' = <<>> /\ msg' = msg /\ UNCHANGED <<queue, accepted>>
      /\ spc # "full"
  BY DEF Flush, Exit, Reset
<1>2. No(msg') = {}
  BY <1>1 DEF IInv, Idle, No
<1>3. \/ SendPacket(ok)
      \/ UNCHANGED <<sent, refused>> /\ payloadLength = 0
      \/ UNCHANGED <<sent, refused>> /\ spc = "exit" /\ sender = "multicast"
  <2>1. sender \in {"loopback", "multicast"}
    BY DEF IInv, TypeOK
  <2> QED BY <2>1 DEF Flush, Exit
<1>4. CASE SendPacket(ok)
  BY <1>1, <1>2, <1>4, SendPacketEffect DEF Sending
<1>5. CASE UNCHANGED <<sent, refused>> /\ payloadLength = 0
  <2>1. Range(pkt) = {}
    BY <1>5, EmptyRange DEF IInv, Idle
  <2> QED BY <1>1, <1>2, <1>5, <2>1 DEF Sending, IInv, TypeOK
<1>6. CASE UNCHANGED <<sent, refused>> /\ spc = "exit" /\ sender = "multicast"
  BY <1>1, <1>2, <1>6 DEF Sending, IInv, TypeOK
<1> QED BY <1>3, <1>4, <1>5, <1>6

\* SendFull: the message that did not fit is in the new packet or too large.
LEMMA SendFullEffect ==
  ASSUME IInv, NEW ok \in BOOLEAN, SendFull(ok)
  PROVE  /\ Sending /\ msg' = NoMessage
         /\ refused' \in SUBSET (1..MaxTracked)
         /\ payloadLength' \in 0..Capacity
         /\ payloadLength' = 0 => pkt' = <<>>
         /\ refused' \cup Range(sent') \cup Range(pkt') =
              refused \cup Range(sent) \cup Range(pkt) \cup No(msg)
<1>1. msg' = NoMessage /\ No(msg') = {} /\ UNCHANGED <<queue, accepted>>
  BY NoMessageFacts DEF SendFull
<1>2. /\ Range(Tracked(msg)) = No(msg) /\ Numbers(<<msg>>) = No(msg)
      /\ No(msg) \subseteq 1..MaxTracked
  BY Types, TrackedFacts
<1>3. CASE Fits(0, msg)
  <2>1. SendPacket(ok) /\ pkt' = Tracked(msg) /\ payloadLength' = msg.size
    BY <1>3 DEF SendFull
  <2>2. msg.size \in 1..MaxSize /\ msg.size <= Capacity
    BY <1>3, Types, BatchSenderAssumption DEF Fits, Message
  <2>3. payloadLength' \in 0..Capacity /\ payloadLength' # 0
    BY <2>1, <2>2, BatchSenderAssumption
  <2> QED BY <1>1, <1>2, <2>1, <2>3, SendPacketEffect DEF Sending
<1>4. CASE ~Fits(0, msg)
  <2>1. /\ sent' = IF ok THEN sent \o pkt ELSE sent
        /\ refused' = refused \cup No(msg) \cup (IF ok THEN {} ELSE Range(pkt))
        /\ pkt' = <<>> /\ payloadLength' = 0
    BY <1>2, <1>4 DEF SendFull, Reset
  <2>2. payloadLength' \in 0..Capacity /\ Range(pkt') = {}
    BY <2>1, EmptyRange, BatchSenderAssumption
  <2> DEFINE T == 1..MaxTracked
  <2>3. sent \in Seq(T) /\ pkt \in Seq(T) /\ refused \in SUBSET T
    BY Types DEF IInv, TypeOK
  <2>4. No(msg) \subseteq T
    BY <1>2
  <2> HIDE DEF T
  <2>5. Range(sent \o pkt) = Range(sent) \cup Range(pkt) /\ Range(pkt) \subseteq T
    BY <2>3, RangeFacts
  <2>6. /\ sent' = sent \/ sent' = sent \o pkt
        /\ refused' \in SUBSET T
        /\ refused' \cup Range(sent') = refused \cup Range(sent) \cup Range(pkt) \cup No(msg)
    <3>1. CASE ok
      BY <2>1, <2>3, <2>4, <2>5, <3>1
    <3>2. CASE ~ok
      BY <2>1, <2>3, <2>4, <2>5, <3>2
    <3> QED BY <3>1, <3>2
  <2> QED BY <1>1, <2>1, <2>2, <2>6 DEF Sending, T
<1> QED BY <1>3, <1>4

\* Every step keeps the invariant.
LEMMA StepOK == IInv /\ [Next]_vars => IInv'
<1> SUFFICES ASSUME IInv, [Next]_vars PROVE IInv'
  OBVIOUS
<1>1. ASSUME NEW size \in 1..MaxSize, NEW tracked \in BOOLEAN, Process(size, tracked) PROVE IInv'
  <2>1. TypeOK'
    BY <1>1, ProcessOrder DEF Process, PushBack, Woken, packet, IInv, TypeOK
  <2>2. Idle'
    BY <1>1 DEF Process, PushBack, Woken, packet, IInv, Idle
  <2> QED BY <1>1, <2>1, <2>2, ProcessOrder DEF IInv
<1>2. ASSUME NEW ok \in BOOLEAN, Start(ok) PROVE IInv'
  <2>1. Order'
    BY <1>2, SilentOrder DEF Start, packet, Silent
  <2>2. TypeOK'
    BY <1>2 DEF Start, packet, IInv, TypeOK
  <2>3. Idle'
    BY <1>2 DEF Start, packet, IInv, Idle
  <2> QED BY <2>1, <2>2, <2>3 DEF IInv
<1>3. CASE Stop \/ StopSignal
  <2>1. Order'
    BY <1>3, SilentOrder DEF Stop, StopSignal, packet, Silent
  <2>2. TypeOK'
    BY <1>3 DEF Stop, StopSignal, Woken, packet, IInv, TypeOK
  <2>3. Idle'
    BY <1>3 DEF Stop, StopSignal, Woken, packet, IInv, Idle
  <2> QED BY <2>1, <2>2, <2>3 DEF IInv
<1>9. CASE StopJoin
  <2>1. Order'
    BY <1>9, StopJoinOrder
  <2>2. /\ mpc' = "stopped" /\ spc' = "none" /\ queue' \in {<<>>, queue}
        /\ UNCHANGED <<sender, run, msg, pkt, payloadLength, accepted, sent, refused>>
    BY <1>9 DEF StopJoin, packet
  <2>3. queue' \in Seq(Message) /\ Len(queue') <= MaxLength
    <3>1. queue \in Seq(Message) /\ Len(queue) <= MaxLength
      BY DEF IInv, TypeOK
    <3>2. <<>> \in Seq(Message) /\ Len(<<>>) <= MaxLength
      BY BatchSenderAssumption
    <3> QED BY <2>2, <3>1, <3>2, Zenon
  <2>4. TypeOK'
    BY <2>2, <2>3 DEF IInv, TypeOK
  <2>5. Idle'
    BY <1>9, <2>2 DEF StopJoin, IInv, Idle
  <2> QED BY <2>1, <2>4, <2>5 DEF IInv
<1>4. CASE RunCheck \/ ConditionTimedWait \/ Timeout \/ PopNothing
  <2>1. Order'
    BY <1>4, SilentOrder DEF RunCheck, ConditionTimedWait, Timeout, PopNothing, packet, Silent
  <2>2. TypeOK'
    BY <1>4 DEF RunCheck, ConditionTimedWait, Timeout, PopNothing, packet, IInv, TypeOK
  <2>3. Idle'
    BY <1>4 DEF RunCheck, ConditionTimedWait, Timeout, PopNothing, packet, IInv, Idle
  <2> QED BY <2>1, <2>2, <2>3 DEF IInv
<1>5. CASE PopFront
  <2>1. /\ UNCHANGED <<sender, mpc, run, accepted, sent, refused>> /\ spc = "pop"
        /\ \/ /\ payloadLength + Head(queue).size <= Capacity
              /\ payloadLength' = payloadLength + Head(queue).size /\ UNCHANGED <<spc, msg>>
           \/ spc' = "full" /\ UNCHANGED <<pkt, payloadLength>>
    BY <1>5 DEF PopFront, packet, Fits
  <2>2. Head(queue).size \in 1..MaxSize
    BY <1>5, PopOrder DEF Message
  <2>3. payloadLength' \in 0..Capacity /\ (payloadLength' = 0 => pkt' = pkt /\ payloadLength = 0)
    BY <2>1, <2>2, Types, BatchSenderAssumption
  <2>4. TypeOK'
    BY <1>5, <2>1, <2>3, PopOrder DEF IInv, TypeOK
  <2>5. Idle'
    BY <2>1, <2>3 DEF IInv, Idle
  <2> QED BY <1>5, <2>4, <2>5, PopOrder DEF IInv
<1>6. ASSUME NEW ok \in BOOLEAN, SendFull(ok) PROVE IInv'
  <2>1. Sending /\ sent' \in Seq(1..MaxTracked) /\ pkt' \in Seq(1..MaxTracked) /\ Order'
    BY <1>6, SendFullEffect, SendingOrder
  <2>2. UNCHANGED <<sender, mpc, run, queue, accepted>> /\ spc' = "pop" /\ spc = "full"
    BY <1>6 DEF SendFull
  <2>3. TypeOK'
    BY <1>6, <2>1, <2>2, SendFullEffect, NoMessageFacts DEF IInv, TypeOK
  <2>4. Idle'
    BY <1>6, <2>2, SendFullEffect, NoMessageFacts DEF IInv, Idle
  <2> QED BY <2>1, <2>3, <2>4 DEF IInv
<1>7. ASSUME NEW ok \in BOOLEAN, Flush(ok) \/ Exit(ok) PROVE IInv'
  <2>1. Sending /\ sent' \in Seq(1..MaxTracked) /\ pkt' \in Seq(1..MaxTracked) /\ Order'
    BY <1>7, FlushEffect, SendingOrder
  <2>2. /\ UNCHANGED <<sender, mpc, run, queue, accepted>> /\ spc' \in {"check", "done"}
        /\ spc \in {"flush", "exit"} /\ payloadLength' = 0
    BY <1>7 DEF Flush, Exit, Reset
  <2>3. payloadLength' \in 0..Capacity
    BY <2>2, BatchSenderAssumption
  <2>4. TypeOK'
    BY <1>7, <2>1, <2>2, <2>3, FlushEffect DEF IInv, TypeOK
  <2>5. Idle'
    BY <1>7, <2>2, FlushEffect DEF IInv, Idle
  <2> QED BY <2>1, <2>4, <2>5 DEF IInv
<1>8. CASE UNCHANGED vars
  <2>1. Silent /\ UNCHANGED <<sender, mpc, run, spc>>
    BY <1>8 DEF vars, packet, Silent
  <2>2. TypeOK' /\ Idle'
    BY <2>1 DEF Silent, IInv, TypeOK, Idle
  <2> QED BY <2>1, <2>2, SilentOrder DEF IInv
<1> QED
  BY <1>1, <1>2, <1>3, <1>4, <1>5, <1>6, <1>7, <1>8, <1>9 DEF Next, StopStep, RunStep

\* The messages are in order wherever they are.
LEMMA Invariance == Spec => []IInv
  BY InitOK, StepOK, PTL DEF Spec

\* Every variable keeps its type; the queue never has more than MaxLength
\* messages and the packet never more than Capacity bytes.
THEOREM TypeCorrect == Spec => []TypeOK
<1>1. IInv => TypeOK
  BY DEF IInv
<1> QED BY <1>1, Invariance, PTL

-----------------------------------------------------------------------------
(* The promises                                                            *)

\* What is sent follows what was sent before.
LEMMA SendingEmits ==
  ASSUME IInv, Sending
  PROVE  [Fifo!Next]_<<accepted, sent>>
<1>1. CASE sent' = sent
  BY <1>1 DEF Sending
<1>2. CASE sent' = sent \o pkt /\ sent' # sent
  <2>1. sent \in Seq(Nat) /\ pkt \in Seq(Nat) /\ Sorted(sent) /\ Sorted(pkt)
    BY Types DEF IInv, Order
  <2>2. Before(Range(sent), Range(pkt))
    BY DEF IInv, Order, Before
  <2>3. /\ Sorted(sent')
        /\ \A i \in DOMAIN sent : i \in DOMAIN sent' /\ sent'[i] = sent[i]
        /\ Len(sent') = Len(sent) + Len(pkt)
    BY <1>2, <2>1, <2>2, SortedConcat, Zenon
  <2>4. Len(pkt) \in Nat /\ Len(pkt) # 0 /\ Len(sent) \in Nat
    <3>1. Len(pkt) \in Nat /\ Len(sent) \in Nat
      BY <2>1
    <3>2. Len(pkt) # 0
      <4>1. SUFFICES ASSUME Len(pkt) = 0 PROVE FALSE
        OBVIOUS
      <4>2. pkt = <<>>
        BY <2>1, <4>1
      <4>3. sent \o <<>> = sent
        BY <2>1, ConcatEmptySeq, Zenon
      <4> QED BY <1>2, <4>2, <4>3, Zenon
    <3> QED BY <3>1, <3>2
  <2>5. Len(sent') > Len(sent)
    BY <2>3, <2>4
  <2>6. \A i \in DOMAIN sent' : sent'[i] \in 1..accepted
    <3>1. Range(sent') \subseteq 1..accepted'
      BY SendingOrder DEF Order
    <3> QED BY <3>1 DEF Range, Sending
  <2>7. Fifo!Increasing(sent')
    BY <2>3 DEF Fifo!Increasing, Sorted
  <2> QED
    BY <2>3, <2>5, <2>6, <2>7 DEF Fifo!Next, Fifo!Emit, Sending
<1> QED BY <1>1, <1>2 DEF Sending

\* The senders implement LossyFifo: messages leave the host in the order in which
\* Process accepted them and none leaves twice, whatever sendto() refuses and
\* however often the sender is stopped and started.
THEOREM Implements == Spec => SentInOrder
<1>1. Init => Fifo!Init
  BY DEF Init, Fifo!Init
<1>2. IInv /\ [Next]_vars => [Fifo!Next]_<<accepted, sent>>
  <2> SUFFICES ASSUME IInv, [Next]_vars PROVE [Fifo!Next]_<<accepted, sent>>
    OBVIOUS
  <2>1. ASSUME NEW size \in 1..MaxSize, NEW tracked \in BOOLEAN, Process(size, tracked)
        PROVE  [Fifo!Next]_<<accepted, sent>>
    BY <2>1 DEF Process, Fifo!Next, Fifo!Accept
  <2>2. ASSUME NEW ok \in BOOLEAN, SendFull(ok) \/ Flush(ok) \/ Exit(ok)
        PROVE  [Fifo!Next]_<<accepted, sent>>
    BY <2>2, SendFullEffect, FlushEffect, SendingEmits
  <2>3. CASE UNCHANGED <<accepted, sent>>
    BY <2>3
  <2>4. \/ \E size \in 1..MaxSize, tracked \in BOOLEAN : Process(size, tracked)
        \/ \E ok \in BOOLEAN : SendFull(ok) \/ Flush(ok) \/ Exit(ok)
        \/ UNCHANGED <<accepted, sent>>
    BY DEF Next, StopStep, RunStep, Start, Stop, StopSignal, StopJoin, RunCheck,
           ConditionTimedWait, Timeout, PopFront, PopNothing, vars
  <2> QED BY <2>1, <2>2, <2>3, <2>4
<1> QED
  BY <1>1, <1>2, Invariance, PTL DEF Spec, SentInOrder, Fifo!Spec

\* The messages whose whereabouts are known.
Accounted == Held \cup refused \cup Range(sent)

\* Where they are.
LEMMA AccountedFor ==
  ASSUME IInv
  PROVE  Accounted = Numbers(queue) \cup Range(pkt) \cup No(msg) \cup refused \cup Range(sent)
  BY Types, TrackedFacts DEF Accounted, Held

\* A message that was not sent, refused or too large is lost only when the sender is
\* stopped, and then is one that MulticastSender had in its packet, or one that was
\* left in the queue of a LoopbackSender.
THEOREM LosesOnlyWhenStopped == Spec => LostOnlyWhenStopped
<1> DEFINE Goal ==
      \/ Vanished' = Vanished
      \/ /\ sender = "multicast" /\ spc = "exit"
         /\ Vanished' \subseteq Vanished \cup Range(pkt)
      \/ /\ sender = "loopback" /\ mpc = "join" /\ mpc' = "stopped"
         /\ Vanished' \subseteq Vanished \cup Numbers(queue)
<1>1. IInv /\ IInv' /\ [Next]_vars => [Goal]_vars
  <2> SUFFICES ASSUME IInv, IInv', [Next]_vars PROVE Goal
    OBVIOUS
  <2>1. ASSUME accepted' = accepted, Accounted' = Accounted PROVE Vanished' = Vanished
    BY <2>1 DEF Vanished, Accounted
  <2>a. ASSUME accepted' = accepted, NEW S, Accounted \subseteq Accounted' \cup S
        PROVE  Vanished' \subseteq Vanished \cup S
    BY <2>a DEF Vanished, Accounted
  <2>2. /\ Accounted = Numbers(queue) \cup Range(pkt) \cup No(msg) \cup refused \cup Range(sent)
        /\ Accounted' =
             Numbers(queue') \cup Range(pkt') \cup No(msg') \cup refused' \cup Range(sent')
    <3>1. msg' \in Message
      BY DEF IInv, TypeOK
    <3>2. Numbers(<<msg'>>) = No(msg')
      BY <3>1, TrackedFacts
    <3>3. Accounted' =
            Numbers(queue') \cup Range(pkt') \cup No(msg') \cup refused' \cup Range(sent')
      BY <3>2 DEF Accounted, Held
    <3> QED BY <3>3, AccountedFor
  <2>3. ASSUME NEW size \in 1..MaxSize, NEW tracked \in BOOLEAN, Process(size, tracked)
        PROVE  Vanished' = Vanished
    <3>1. Numbers(queue') = Numbers(queue) \cup ((accepted + 1)..accepted')
      BY <2>3, ProcessOrder
    <3>2. accepted' = accepted \/ accepted' = accepted + 1
      BY <2>3, ProcessOrder
    <3>3. UNCHANGED <<pkt, msg, refused, sent>>
      BY <2>3 DEF Process, packet
    <3>4. Accounted' = Accounted \cup ((accepted + 1)..accepted')
      BY <2>2, <3>1, <3>3
    <3>5. 1..accepted' = (1..accepted) \cup ((accepted + 1)..accepted')
      BY <3>2, Types
    <3>6. (1..accepted) \cap ((accepted + 1)..accepted') = {}
      BY <3>2, Types
    <3>7. Vanished = (1..accepted) \ Accounted /\ Vanished' = (1..accepted') \ Accounted'
      BY DEF Vanished, Accounted
    <3> QED BY <3>4, <3>5, <3>6, <3>7
  <2>4. CASE PopFront
    <3>1. accepted' = accepted /\ UNCHANGED <<sent, refused>>
      BY <2>4 DEF PopFront
    <3>2. Accounted' = Accounted
      BY <2>2, <2>4, <3>1, PopOrder
    <3> QED BY <2>1, <3>1, <3>2
  <2>5. ASSUME NEW ok \in BOOLEAN, SendFull(ok) PROVE Vanished' = Vanished
    <3>1. accepted' = accepted /\ queue' = queue /\ No(msg') = {}
      BY <2>5, SendFullEffect DEF Sending
    <3>2. Accounted' = Accounted
      BY <2>2, <2>5, <3>1, SendFullEffect
    <3> QED BY <2>1, <3>1, <3>2
  <2>6. ASSUME NEW ok \in BOOLEAN, Flush(ok) \/ Exit(ok) PROVE Goal
    <3>1. accepted' = accepted /\ queue' = queue /\ msg' = msg /\ Range(pkt') = {}
      BY <2>6, FlushEffect, EmptyRange DEF Sending
    <3>2. CASE refused' \cup Range(sent') = refused \cup Range(sent) \cup Range(pkt)
      <4>1. Accounted' = Accounted
        BY <2>2, <3>1, <3>2
      <4> QED BY <2>1, <3>1, <4>1
    <3>3. CASE sender = "multicast" /\ spc = "exit" /\ UNCHANGED <<refused, sent>>
      <4> DEFINE S == Range(pkt)
      <4>1. Accounted \subseteq Accounted' \cup S
        BY <2>2, <3>1, <3>3
      <4> HIDE DEF S
      <4>2. Vanished' \subseteq Vanished \cup S
        BY <2>a, <3>1, <4>1
      <4> QED BY <3>3, <4>2 DEF S
    <3> QED BY <2>6, <3>2, <3>3, FlushEffect
  <2>7. CASE Silent
    <3>1. accepted' = accepted /\ Accounted' = Accounted
      BY <2>7 DEF Silent, Accounted, Held
    <3> QED BY <2>1, <3>1
  <2>9. CASE StopJoin
    <3>1. /\ UNCHANGED <<sender, msg, pkt, accepted, sent, refused>>
          /\ mpc = "join" /\ mpc' = "stopped"
      BY <2>9 DEF StopJoin, packet
    <3>2. CASE Numbers(queue') = Numbers(queue)
      <4>1. Accounted' = Accounted
        BY <2>2, <3>1, <3>2
      <4> QED BY <2>1, <3>1, <4>1
    <3>3. CASE sender = "loopback" /\ Numbers(queue') = {}
      <4> DEFINE S == Numbers(queue)
      <4>1. Accounted \subseteq Accounted' \cup S
        BY <2>2, <3>1, <3>3
      <4> HIDE DEF S
      <4>2. Vanished' \subseteq Vanished \cup S
        BY <2>a, <3>1, <4>1
      <4> QED BY <3>1, <3>3, <4>2 DEF S
    <3> QED BY <2>9, <3>2, <3>3, StopJoinOrder
  <2>8. \/ \E size \in 1..MaxSize, tracked \in BOOLEAN : Process(size, tracked)
        \/ PopFront
        \/ \E ok \in BOOLEAN : SendFull(ok) \/ Flush(ok) \/ Exit(ok)
        \/ StopJoin
        \/ Silent
    BY DEF Next, StopStep, RunStep, Start, Stop, StopSignal, RunCheck,
           ConditionTimedWait, Timeout, PopNothing, vars, packet, Silent
  <2> QED BY <2>3, <2>4, <2>5, <2>6, <2>7, <2>8, <2>9
<1> QED
  BY <1>1, Invariance, PTL DEF Spec, LostOnlyWhenStopped
=============================================================================
