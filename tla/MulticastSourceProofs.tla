------------------------ MODULE MulticastSourceProofs ------------------------
(***************************************************************************)
(* What TLAPS proves of MulticastSource, for every number of keys, every   *)
(* number of tracked packets, every backlog length and every time limit.   *)
(***************************************************************************)
EXTENDS MulticastSource, TLAPS

-----------------------------------------------------------------------------
(* The inductive invariant                                                 *)

\* _queryDone mirrors the query thread, and a destroyed source has none.
QueryThreadInv ==
  /\ queryDone <=> qpc = "none"
  /\ rpc = "absent" => queryDone /\ backlog = <<>>

\* The backlog is sorted by age, the oldest entry in front.
AgesInv ==
  \A i, j \in 1..Len(backlog) : i < j => backlog[i].age >= backlog[j].age

\* Steps in which the packet in hand is neither delivered nor on the backlog.
InHand == rpc \in {"park", "backlog?", "backlog", "rekey"}

\* A tracked packet is in one place only, and its number was given out.
PlaceInv ==
  /\ hand.no <= received
  /\ \A i \in 1..Len(backlog) : backlog[i].no <= received
  /\ \A i \in 1..Len(delivered) : delivered[i] <= received
  /\ \A i, j \in 1..Len(backlog) :
       i # j /\ backlog[i].no = backlog[j].no => backlog[i].no = 0
  /\ \A i \in 1..Len(backlog), j \in 1..Len(delivered) : backlog[i].no # delivered[j]
  /\ InHand /\ hand.no # 0 =>
       /\ \A i \in 1..Len(backlog) : backlog[i].no # hand.no
       /\ \A i \in 1..Len(delivered) : delivered[i] # hand.no

\* While no query was started over an existing key: a query thread that has
\* not stored its result means that there is no key, so a key that
\* ProcessPacket has copied does not go away before ProcessBacklog copies it.
KeyInv ==
  /\ QueryOnlyWithoutKey
  /\ rpc \in {"backlog?", "backlog"} =>
       /\ snap # NoKey
       /\ qpc \in {"none", "writing", "published"}
       /\ qpc = "writing" => qresult # NoKey
       /\ qpc # "writing" => key # NoKey
  /\ rpc = "backlog" => bkey # NoKey
  /\ rpc = "rekey" => backlog = <<>>

\* ... hence the backlog holds younger packets than those delivered, in order,
\* and the packet in hand is younger still.
OrderInv ==
  /\ Increasing(delivered)
  /\ \A i, j \in 1..Len(backlog) :
       i < j /\ backlog[i].no # 0 /\ backlog[j].no # 0 => backlog[i].no < backlog[j].no
  /\ \A i \in 1..Len(backlog), j \in 1..Len(delivered) :
       backlog[i].no # 0 => delivered[j] < backlog[i].no
  /\ InHand /\ hand.no # 0 =>
       /\ \A i \in 1..Len(backlog) : backlog[i].no < hand.no
       /\ \A i \in 1..Len(delivered) : delivered[i] < hand.no

\* ... and only the packet a decryption was just tried on is spoiled.
SpoiledInv ==
  /\ \A i \in 2..Len(backlog) : ~backlog[i].spoiled
  /\ rpc \in {"park", "backlog?", "backlog"} => ~hand.spoiled

IInv ==
  /\ TypeOK
  /\ QueryThreadInv
  /\ AgesInv
  /\ PlaceInv
  /\ ~requeried => KeyInv /\ OrderInv /\ SpoiledInv

-----------------------------------------------------------------------------
(* Sequences                                                               *)

\* What Head and Tail, the two halves of PopFront, return.
LEMMA TailFacts ==
  ASSUME NEW S, NEW s \in Seq(S), s # <<>>
  PROVE  /\ Tail(s) \in Seq(S)
         /\ Len(s) \in Nat \ {0}
         /\ Len(Tail(s)) = Len(s) - 1
         /\ Head(s) = s[1]
         /\ s[1] \in S
         /\ \A i \in 1..Len(Tail(s)) : i + 1 \in 1..Len(s) /\ Tail(s)[i] = s[i + 1]
  OBVIOUS

\* What appending to a sequence does to its elements.
LEMMA AppendFacts ==
  ASSUME NEW S, NEW s \in Seq(S), NEW e \in S
  PROVE  /\ Append(s, e) \in Seq(S)
         /\ Len(s) \in Nat
         /\ Len(Append(s, e)) = Len(s) + 1
         /\ Append(s, e)[Len(s) + 1] = e
         /\ \A i \in 1..Len(s) : Append(s, e)[i] = s[i]
  OBVIOUS

\* PushBack keeps the queue within MaxLength, and either refuses the entry or
\* puts it last.
LEMMA PushBackFacts ==
  ASSUME NEW q \in Seq(Entry), Len(q) <= MaxLength, NEW e \in Entry
  PROVE  /\ PushBack(q, e) \in Seq(Entry)
         /\ Len(PushBack(q, e)) <= MaxLength
         /\ Len(PushBack(q, e)) \in {Len(q), Len(q) + 1}
         /\ \A i \in 1..Len(PushBack(q, e)) :
              \/ i \in 1..Len(q) /\ PushBack(q, e)[i] = q[i]
              \/ i = Len(q) + 1 /\ PushBack(q, e)[i] = e
  <1>1. MaxLength \in Nat /\ Len(q) \in Nat
    BY ConstantsAssumption
  <1>2. CASE Len(q) < MaxLength
    BY <1>1, <1>2, AppendFacts DEF PushBack
  <1>3. CASE ~(Len(q) < MaxLength)
    BY <1>1, <1>3 DEF PushBack
  <1> QED BY <1>2, <1>3

\* The entries of a backlog are entries.
LEMMA BacklogFacts ==
  ASSUME NEW q \in Seq(Entry), NEW i \in 1..Len(q)
  PROVE  q[i].no \in 0..MaxTracked /\ q[i].age \in 0..BacklogTTL /\ q[i].spoiled \in BOOLEAN
  <1>1. q[i] \in Entry
    OBVIOUS
  <1> QED BY <1>1 DEF Entry

\* An entry made from a packet is an entry of age 0.
LEMMA EntryOfFacts ==
  ASSUME NEW pkt \in Packet
  PROVE  /\ EntryOf(pkt) \in Entry
         /\ EntryOf(pkt).no = pkt.no
         /\ EntryOf(pkt).spoiled = pkt.spoiled
         /\ EntryOf(pkt).age = 0
  BY ConstantsAssumption DEF EntryOf, Packet, Entry

\* Ageing stays within the limit and keeps the order of two ages.
LEMMA OlderFacts ==
  ASSUME NEW limit \in Nat, NEW a \in 0..limit, NEW b \in 0..limit
  PROVE  /\ Older(a, limit) \in 0..limit
         /\ a >= b => Older(a, limit) >= Older(b, limit)
  BY DEF Older

-----------------------------------------------------------------------------
(* Type correctness                                                        *)

\* The value of a copied key is always a key, nothing, or junk.
LEMMA KeyReadType ==
  ASSUME TypeOK, NEW e \in KeyValues, NEW v \in KeyRead(e)
  PROVE  v \in KeyValues
  BY DEF KeyRead, TypeOK, KeyValues

\* What Tick does to the backlog: same entries, older.
LEMMA TickFacts ==
  ASSUME TypeOK, Tick
  PROVE  /\ backlog' \in Seq(Entry)
         /\ Len(backlog') = Len(backlog)
         /\ \A i \in 1..Len(backlog) :
              /\ backlog'[i].no = backlog[i].no
              /\ backlog'[i].spoiled = backlog[i].spoiled
              /\ backlog'[i].age = Older(backlog[i].age, BacklogTTL)
  <1> DEFINE Aged(i) == [backlog[i] EXCEPT !.age = Older(@, BacklogTTL)]
  <1>1. backlog \in Seq(Entry) /\ Len(backlog) \in Nat /\ DOMAIN backlog = 1..Len(backlog)
    BY DEF TypeOK
  <1>2. backlog' = [i \in 1..Len(backlog) |-> Aged(i)]
    BY <1>1 DEF Tick
  <1>3. \A i \in 1..Len(backlog) :
          /\ Aged(i) \in Entry
          /\ Aged(i).no = backlog[i].no
          /\ Aged(i).spoiled = backlog[i].spoiled
          /\ Aged(i).age = Older(backlog[i].age, BacklogTTL)
    <2> TAKE i \in 1..Len(backlog)
    <2>1. backlog[i] \in Entry
      BY <1>1
    <2>2. BacklogTTL \in Nat
      BY ConstantsAssumption
    <2>3. Older(backlog[i].age, BacklogTTL) \in 0..BacklogTTL
      BY <2>1, <2>2, OlderFacts DEF Entry
    <2> QED BY <2>1, <2>3 DEF Entry
  <1> QED
    <2> HIDE DEF Aged
    <2>1. backlog' \in [1..Len(backlog) -> Entry]
      BY <1>2, <1>3
    <2>2. backlog' \in Seq(Entry) /\ Len(backlog') = Len(backlog)
      BY <2>1, <1>1
    <2> QED BY <1>2, <1>3, <2>2

\* Every step of the code keeps the types.
LEMMA TypeStep == TypeOK /\ [Next]_vars => TypeOK'
  <1> SUFFICES ASSUME TypeOK, [Next]_vars PROVE TypeOK'
    OBVIOUS
  <1> USE ConstantsAssumption
  <1>h. hand \in Packet /\ EntryOf(hand) \in Entry
    BY EntryOfFacts DEF TypeOK
  <1>t. backlog # <<>> => /\ Tail(backlog) \in Seq(Entry)
                          /\ Len(Tail(backlog)) <= MaxLength
                          /\ Head(backlog) \in Entry
    BY TailFacts DEF TypeOK
  <1>d. ASSUME NEW p, p.no \in 0..MaxTracked, Deliver(p)
        PROVE  delivered' \in Seq(1..MaxTracked)
    <2>1. delivered \in Seq(1..MaxTracked)
      BY DEF TypeOK
    <2>2. p.no # 0 => p.no \in 1..MaxTracked
      BY <1>d
    <2> QED BY <1>d, <2>1, <2>2, AppendFacts DEF Deliver
  <1>1. ASSUME NEW k \in Keys, NEW tracked \in BOOLEAN, ReceivePacket(k, tracked)
        PROVE  TypeOK'
    <2>1. snap' \in KeyValues /\ rpc' \in ReceiverSteps
      BY <1>1, KeyReadType DEF ReceivePacket, ReceiverSteps, KeyValues
    <2>2. received' \in 0..MaxTracked /\ hand' \in Packet
      BY <1>1 DEF ReceivePacket, TypeOK, Packet
    <2>3. silence' \in 0..SourceTTL
      BY <1>1 DEF ReceivePacket
    <2> QED BY <1>1, <2>1, <2>2, <2>3 DEF ReceivePacket, TypeOK, queryVars
  <1>2. CASE ProcessBacklogKey
    <2>1. bkey' \in KeyValues
      BY <1>2, KeyReadType DEF ProcessBacklogKey, TypeOK
    <2> QED BY <1>2, <2>1 DEF ProcessBacklogKey, TypeOK, queryVars, ReceiverSteps
  <1>3. CASE ProcessBacklogEntry
    <2>1. delivered' \in Seq(1..MaxTracked)
      BY <1>3, <1>t, <1>d DEF ProcessBacklogEntry, TypeOK, Entry
    <2> QED BY <1>3, <1>t, <2>1 DEF ProcessBacklogEntry, TypeOK, queryVars
  <1>4. CASE DecryptPacket
    <2>1. delivered' \in Seq(1..MaxTracked)
      BY <1>4, <1>h, <1>d DEF DecryptPacket, TypeOK, Packet
    <2>2. hand' \in Packet /\ rpc' \in ReceiverSteps
      BY <1>4, <1>h DEF DecryptPacket, Packet, ReceiverSteps
    <2> QED BY <1>4, <2>1, <2>2 DEF DecryptPacket, TypeOK, queryVars
  <1>5. CASE DropKey
    <2>1. backlog' \in Seq(Entry) /\ Len(backlog') <= MaxLength
      BY <1>5, <1>h, PushBackFacts DEF DropKey, TypeOK
    <2> QED BY <1>5, <2>1 DEF DropKey, TypeOK, queryVars, ReceiverSteps
  <1>6. CASE ParkPacket
    <2>1. backlog' \in Seq(Entry) /\ Len(backlog') <= MaxLength
      BY <1>6, <1>h, PushBackFacts DEF ParkPacket, TypeOK
    <2> QED BY <1>6, <2>1 DEF ParkPacket, TypeOK, queryVars, ReceiverSteps
  <1>7. CASE StartQuery
    <2>1. requeried' \in BOOLEAN /\ queryDone' \in BOOLEAN
      BY <1>7 DEF StartQuery, TypeOK
    <2> QED BY <1>7, <2>1 DEF StartQuery, TypeOK, ReceiverSteps, QuerySteps
  <1>8. CASE ClearOldBacklogEntry
    BY <1>8, <1>t DEF ClearOldBacklogEntry, TypeOK, queryVars
  <1>9. CASE ProcessPacketReturn
    BY <1>9 DEF ProcessPacketReturn, TypeOK, queryVars, ReceiverSteps, NoPacket, Packet, Keys, KeyValues
  <1>10. CASE ClearOld
    BY <1>10 DEF ClearOld, TypeOK, queryVars, ReceiverSteps
  <1>11. CASE Destroy
    BY <1>11 DEF Destroy, TypeOK, queryVars, ReceiverSteps
  <1>12. ASSUME NEW k \in {NoKey, senderKey}, QueryAnswered(k)
         PROVE  TypeOK'
    BY <1>12 DEF QueryAnswered, TypeOK, receiverVars, QuerySteps
  <1>13. CASE QueryAssign
    BY <1>13 DEF QueryAssign, TypeOK, receiverVars, QuerySteps
  <1>14. CASE QueryAssigned
    BY <1>14 DEF QueryAssigned, TypeOK, receiverVars, QuerySteps
  <1>15. CASE QueryFinish
    BY <1>15 DEF QueryFinish, TypeOK, receiverVars, QuerySteps
  <1>16. CASE SenderRestart
    BY <1>16 DEF SenderRestart, TypeOK, Keys
  <1>17. CASE Tick
    <2>1. silence' \in 0..SourceTTL
      BY <1>17, OlderFacts DEF Tick, TypeOK
    <2> QED BY <1>17, <2>1, TickFacts DEF Tick, TypeOK
  <1>18. CASE UNCHANGED vars
    BY <1>18 DEF vars, TypeOK
  <1> QED
    BY <1>1, <1>2, <1>3, <1>4, <1>5, <1>6, <1>7, <1>8, <1>9, <1>10, <1>11, <1>12,
       <1>13, <1>14, <1>15, <1>16, <1>17, <1>18
    DEF Next, ReceiverStep, QueryStep

-----------------------------------------------------------------------------
(* The query thread                                                        *)

\* Every step keeps _queryDone in step with the query thread; the destructor's
\* wait is what makes it hold for a destroyed source.
LEMMA QueryThreadStep == TypeOK /\ QueryThreadInv /\ [Next]_vars => QueryThreadInv'
  <1> SUFFICES ASSUME TypeOK, QueryThreadInv, [Next]_vars PROVE QueryThreadInv'
    OBVIOUS
  <1> USE DEF QueryThreadInv
  <1>1. ASSUME NEW k \in Keys, NEW tracked \in BOOLEAN, ReceivePacket(k, tracked)
        PROVE  QueryThreadInv'
    BY <1>1 DEF ReceivePacket, queryVars
  <1>2. CASE ReceiverStep
    <2>1. CASE StartQuery
      BY <2>1 DEF StartQuery
    <2>2. CASE Destroy
      BY <2>2 DEF Destroy, queryVars
    <2>3. CASE ~StartQuery /\ ~Destroy
      BY <1>2, <2>3 DEF ReceiverStep, ProcessBacklogKey, ProcessBacklogEntry, DecryptPacket,
           DropKey, ParkPacket, ClearOldBacklogEntry, ProcessPacketReturn, queryVars
    <2> QED BY <2>1, <2>2, <2>3
  <1>3. CASE ClearOld
    BY <1>3 DEF ClearOld, queryVars
  <1>4. CASE QueryStep
    BY <1>4 DEF QueryStep, QueryAnswered, QueryAssign, QueryAssigned, QueryFinish, receiverVars
  <1>5. CASE SenderRestart
    BY <1>5 DEF SenderRestart
  <1>6. CASE Tick
    BY <1>6 DEF Tick
  <1>7. CASE UNCHANGED vars
    BY <1>7 DEF vars
  <1> QED BY <1>1, <1>2, <1>3, <1>4, <1>5, <1>6, <1>7 DEF Next

-----------------------------------------------------------------------------
(* The order of ages                                                       *)

\* Entries are stamped when they are pushed at the back, so the backlog stays
\* sorted by age.
LEMMA AgesStep == TypeOK /\ AgesInv /\ [Next]_vars => AgesInv'
  <1> SUFFICES ASSUME TypeOK, AgesInv, [Next]_vars PROVE AgesInv'
    OBVIOUS
  <1>b. backlog \in Seq(Entry) /\ Len(backlog) \in Nat /\ Len(backlog) <= MaxLength
    BY DEF TypeOK
  <1>a. \A i \in 1..Len(backlog) : backlog[i].age \in 0..BacklogTTL
    BY <1>b, BacklogFacts
  <1>h. EntryOf(hand) \in Entry /\ EntryOf(hand).age = 0
    BY EntryOfFacts DEF TypeOK
  <1>push. ASSUME backlog' = PushBack(backlog, EntryOf(hand)) PROVE AgesInv'
    <2>1. \A i \in 1..Len(backlog') :
            \/ i \in 1..Len(backlog) /\ backlog'[i] = backlog[i]
            \/ i = Len(backlog) + 1 /\ backlog'[i].age = 0
      BY <1>push, <1>b, <1>h, PushBackFacts
    <2>2. Len(backlog') \in Nat
      BY <1>push, <1>b, <1>h, PushBackFacts
    <2> SUFFICES ASSUME NEW i \in 1..Len(backlog'), NEW j \in 1..Len(backlog'), i < j
                 PROVE  backlog'[i].age >= backlog'[j].age
      BY DEF AgesInv
    <2>3. i \in 1..Len(backlog) /\ backlog'[i] = backlog[i]
      BY <2>1, <2>2, <1>b
    <2>4. CASE j \in 1..Len(backlog) /\ backlog'[j] = backlog[j]
      BY <2>3, <2>4 DEF AgesInv
    <2>5. CASE backlog'[j].age = 0
      BY <2>3, <2>5, <1>a
    <2> QED BY <2>1, <2>4, <2>5
  <1>pop. ASSUME backlog # <<>>, backlog' = Tail(backlog) PROVE AgesInv'
    <2>1. /\ Len(backlog') \in Nat
          /\ \A i \in 1..Len(backlog') : i + 1 \in 1..Len(backlog) /\ backlog'[i] = backlog[i + 1]
      BY <1>pop, <1>b, TailFacts
    <2> SUFFICES ASSUME NEW i \in 1..Len(backlog'), NEW j \in 1..Len(backlog'), i < j
                 PROVE  backlog'[i].age >= backlog'[j].age
      BY DEF AgesInv
    <2>2. i + 1 < j + 1
      BY <2>1
    <2> QED BY <2>1, <2>2 DEF AgesInv
  <1>same. ASSUME backlog' = backlog PROVE AgesInv'
    BY <1>same DEF AgesInv
  <1>1. ASSUME NEW k \in Keys, NEW tracked \in BOOLEAN, ReceivePacket(k, tracked)
        PROVE  AgesInv'
    BY <1>1, <1>same DEF ReceivePacket
  <1>2. CASE ReceiverStep
    <2>1. CASE ProcessBacklogEntry \/ ClearOldBacklogEntry
      BY <2>1, <1>pop DEF ProcessBacklogEntry, ClearOldBacklogEntry
    <2>2. CASE DropKey \/ ParkPacket
      BY <2>2, <1>push DEF DropKey, ParkPacket
    <2>3. CASE Destroy
      BY <2>3 DEF Destroy, AgesInv
    <2>4. CASE ProcessBacklogKey \/ DecryptPacket \/ StartQuery \/ ProcessPacketReturn
      BY <2>4, <1>same DEF ProcessBacklogKey, DecryptPacket, StartQuery, ProcessPacketReturn
    <2> QED BY <1>2, <2>1, <2>2, <2>3, <2>4 DEF ReceiverStep
  <1>3. CASE ClearOld \/ QueryStep \/ SenderRestart
    BY <1>3, <1>same DEF ClearOld, QueryStep, QueryAnswered, QueryAssign, QueryAssigned,
         QueryFinish, SenderRestart, receiverVars
  <1>4. CASE Tick
    <2>1. \A i, j \in 1..Len(backlog) :
            backlog[i].age >= backlog[j].age
              => Older(backlog[i].age, BacklogTTL) >= Older(backlog[j].age, BacklogTTL)
      BY <1>a, OlderFacts, ConstantsAssumption
    <2> QED BY <1>4, <1>b, <2>1, TickFacts DEF AgesInv
  <1>5. CASE UNCHANGED vars
    BY <1>5, <1>same DEF vars
  <1> QED BY <1>1, <1>2, <1>3, <1>4, <1>5 DEF Next

-----------------------------------------------------------------------------
(* Where a packet is                                                       *)

\* A step moves the packet in hand to the backlog or to the sinks, or a backlog
\* entry to the sinks, and never copies one.
LEMMA PlaceStep == TypeOK /\ PlaceInv /\ [Next]_vars => PlaceInv'
  <1> SUFFICES ASSUME TypeOK, PlaceInv, [Next]_vars PROVE PlaceInv'
    OBVIOUS
  <1>b. /\ backlog \in Seq(Entry) /\ Len(backlog) \in Nat /\ Len(backlog) <= MaxLength
        /\ delivered \in Seq(1..MaxTracked) /\ Len(delivered) \in Nat
        /\ received \in Nat /\ MaxTracked \in Nat /\ received <= MaxTracked
    BY ConstantsAssumption DEF TypeOK
  <1>n. /\ \A i \in 1..Len(backlog) : backlog[i].no \in 0..MaxTracked
        /\ \A i \in 1..Len(delivered) : delivered[i] \in 1..MaxTracked
        /\ hand.no \in 0..MaxTracked
    BY <1>b, BacklogFacts DEF Packet, TypeOK
  <1>h. EntryOf(hand) \in Entry /\ EntryOf(hand).no = hand.no
    BY EntryOfFacts DEF TypeOK
  \* the packet in hand goes to the backlog
  <1>push. ASSUME InHand, ~InHand', backlog' = PushBack(backlog, EntryOf(hand)),
                  hand' = hand, received' = received, delivered' = delivered
           PROVE  PlaceInv'
    <2>1. \A i \in 1..Len(backlog') :
            \/ i \in 1..Len(backlog) /\ backlog'[i] = backlog[i]
            \/ i = Len(backlog) + 1 /\ backlog'[i].no = hand.no
      BY <1>push, <1>b, <1>h, PushBackFacts
    <2>2. /\ \A i \in 1..Len(backlog) : hand.no # 0 => backlog[i].no # hand.no
          /\ \A i \in 1..Len(delivered) : delivered[i] # hand.no
      BY <1>push, <1>n DEF PlaceInv
    <2>3. \A i \in 1..Len(backlog') : backlog'[i].no <= received'
      BY <1>push, <2>1 DEF PlaceInv
    <2>4. \A i, j \in 1..Len(backlog') :
            i # j /\ backlog'[i].no = backlog'[j].no => backlog'[i].no = 0
      BY <2>1, <2>2 DEF PlaceInv
    <2>5. \A i \in 1..Len(backlog'), j \in 1..Len(delivered') : backlog'[i].no # delivered'[j]
      BY <1>push, <2>1, <2>2 DEF PlaceInv
    <2> QED BY <1>push, <2>3, <2>4, <2>5 DEF PlaceInv
  \* the front of the backlog is dropped
  <1>drop. ASSUME backlog # <<>>, backlog' = Tail(backlog), hand' = hand, InHand' => InHand,
                  received' = received, delivered' = delivered
           PROVE  PlaceInv'
    <2>1. \A i \in 1..Len(backlog') : i + 1 \in 1..Len(backlog) /\ backlog'[i] = backlog[i + 1]
      BY <1>drop, <1>b, TailFacts
    <2>2. Len(backlog') \in Nat
      BY <1>drop, <1>b, TailFacts
    <2> QED BY <1>drop, <2>1, <2>2, <1>b, <1>n DEF PlaceInv
  \* nothing moves
  <1>same. ASSUME backlog' = backlog, hand'.no = hand.no, InHand' => InHand,
                  received' = received, delivered' = delivered
           PROVE  PlaceInv'
    BY <1>same DEF PlaceInv
  <1>1. ASSUME NEW k \in Keys, NEW tracked \in BOOLEAN, ReceivePacket(k, tracked)
        PROVE  PlaceInv'
    <2>1. /\ received' \in Nat /\ received' >= received
          /\ hand'.no <= received'
          /\ hand'.no # 0 => hand'.no > received
          /\ backlog' = backlog /\ delivered' = delivered
      BY <1>1, <1>b DEF ReceivePacket
    <2>2. hand'.no \in Nat
      BY <1>1, <1>b DEF ReceivePacket
    <2> QED BY <2>1, <2>2, <1>b, <1>n DEF PlaceInv
  <1>2. CASE ProcessBacklogKey \/ StartQuery
    BY <1>2, <1>same DEF ProcessBacklogKey, StartQuery, InHand
  <1>3. CASE ProcessBacklogEntry
    <2>1. backlog # <<>> /\ backlog' = Tail(backlog) /\ hand' = hand
          /\ received' = received /\ rpc' = rpc /\ rpc = "backlog"
      BY <1>3 DEF ProcessBacklogEntry
    <2>2. CASE delivered' = delivered
      BY <2>1, <2>2, <1>drop DEF InHand
    <2>3. CASE Head(backlog).no # 0 /\ delivered' = Append(delivered, Head(backlog).no)
      <3>1. /\ Head(backlog) = backlog[1] /\ 1 \in 1..Len(backlog) /\ Len(backlog') \in Nat
            /\ \A i \in 1..Len(backlog') :
                 i + 1 \in 1..Len(backlog) /\ backlog'[i] = backlog[i + 1] /\ i + 1 # 1
        BY <2>1, <1>b, TailFacts
      <3>2. backlog[1].no \in 1..MaxTracked
        BY <3>1, <2>3, <1>n, <1>b
      <3>3. \A i \in 1..Len(delivered') :
              \/ i \in 1..Len(delivered) /\ delivered'[i] = delivered[i]
              \/ delivered'[i] = backlog[1].no
        BY <3>1, <3>2, <2>3, <1>b, AppendFacts
      <3>4. \A i \in 1..Len(backlog') : backlog'[i].no # backlog[1].no
        <4> SUFFICES ASSUME NEW i \in 1..Len(backlog') PROVE backlog[i + 1].no # backlog[1].no
          BY <3>1
        <4>1. backlog[1].no # 0
          BY <3>2, <1>b
        <4> QED BY <4>1, <3>1 DEF PlaceInv
      <3>5. hand.no # 0 => backlog[1].no # hand.no
        BY <2>1, <3>1 DEF PlaceInv, InHand
      <3>6. \A i \in 1..Len(delivered') : delivered'[i] <= received'
        BY <2>1, <3>1, <3>3 DEF PlaceInv
      <3>7. \A i \in 1..Len(backlog') : backlog'[i].no <= received'
        BY <2>1, <3>1 DEF PlaceInv
      <3>8. \A i, j \in 1..Len(backlog') :
              i # j /\ backlog'[i].no = backlog'[j].no => backlog'[i].no = 0
        <4> SUFFICES ASSUME NEW i \in 1..Len(backlog'), NEW j \in 1..Len(backlog'), i # j,
                            backlog'[i].no = backlog'[j].no
                     PROVE  backlog'[i].no = 0
          OBVIOUS
        <4>1. i + 1 # j + 1
          BY <3>1
        <4> QED BY <4>1, <3>1 DEF PlaceInv
      <3>9. \A i \in 1..Len(backlog'), j \in 1..Len(delivered') : backlog'[i].no # delivered'[j]
        BY <3>1, <3>3, <3>4 DEF PlaceInv
      <3>10. InHand' /\ hand'.no # 0 =>
               /\ \A i \in 1..Len(backlog') : backlog'[i].no # hand'.no
               /\ \A i \in 1..Len(delivered') : delivered'[i] # hand'.no
        BY <2>1, <3>1, <3>3, <3>5 DEF PlaceInv, InHand
      <3> QED BY <2>1, <3>6, <3>7, <3>8, <3>9, <3>10 DEF PlaceInv
    <2> QED BY <1>3, <2>2, <2>3 DEF ProcessBacklogEntry, Deliver
  <1>4. CASE DecryptPacket
    <2>1. backlog' = backlog /\ hand'.no = hand.no /\ received' = received
      BY <1>4, <1>b DEF DecryptPacket, TypeOK, Packet
    <2>2. CASE delivered' = delivered
      BY <1>4, <2>1, <2>2, <1>same DEF DecryptPacket, InHand
    <2>3. CASE hand.no # 0 /\ delivered' = Append(delivered, hand.no) /\ rpc' = "clear"
      <3>1. hand.no \in 1..MaxTracked /\ InHand /\ ~InHand'
        BY <1>4, <2>3, <1>n, <1>b DEF DecryptPacket, InHand
      <3>2. \A i \in 1..Len(delivered') :
              \/ i \in 1..Len(delivered) /\ delivered'[i] = delivered[i]
              \/ delivered'[i] = hand.no
        BY <3>1, <2>3, <1>b, AppendFacts
      <3>3. \A i \in 1..Len(delivered') : delivered'[i] <= received'
        BY <2>1, <3>2 DEF PlaceInv
      <3>4. \A i \in 1..Len(backlog'), j \in 1..Len(delivered') : backlog'[i].no # delivered'[j]
        BY <2>1, <2>3, <3>1, <3>2 DEF PlaceInv
      <3> QED BY <2>1, <3>1, <3>3, <3>4 DEF PlaceInv
    <2> QED BY <1>4, <2>2, <2>3 DEF DecryptPacket, Deliver
  <1>5. CASE DropKey \/ ParkPacket
    BY <1>5, <1>push DEF DropKey, ParkPacket, InHand
  <1>6. CASE ClearOldBacklogEntry
    BY <1>6, <1>drop DEF ClearOldBacklogEntry, InHand
  <1>7. CASE ProcessPacketReturn
    <2>1. hand'.no = 0 /\ ~InHand'
      BY <1>7 DEF ProcessPacketReturn, NoPacket, InHand
    <2> QED BY <1>7, <2>1, <1>b DEF ProcessPacketReturn, PlaceInv
  <1>8. CASE Destroy
    <2>1. backlog' = <<>> /\ ~InHand' /\ hand' = hand /\ received' = received /\ delivered' = delivered
      BY <1>8 DEF Destroy, InHand
    <2>2. Len(backlog') = 0
      BY <2>1
    <2> QED BY <2>1, <2>2, <1>b DEF PlaceInv
  <1>9. CASE ClearOld \/ QueryStep \/ SenderRestart
    BY <1>9, <1>same DEF ClearOld, QueryStep, QueryAnswered, QueryAssign, QueryAssigned,
         QueryFinish, SenderRestart, receiverVars, InHand
  <1>10. CASE Tick
    BY <1>10, <1>b, TickFacts DEF PlaceInv, Tick, InHand
  <1>11. CASE UNCHANGED vars
    BY <1>11, <1>same DEF vars, InHand
  <1> QED BY <1>1, <1>2, <1>3, <1>4, <1>5, <1>6, <1>7, <1>8, <1>9, <1>10, <1>11
          DEF Next, ReceiverStep

-----------------------------------------------------------------------------
(* The key, while no query was started over an existing one                *)

\* The history only records: it is never reset.
LEMMA RequeriedStays == [Next]_vars /\ ~requeried' => ~requeried
  BY DEF Next, ReceivePacket, ReceiverStep, ProcessBacklogKey, ProcessBacklogEntry,
     DecryptPacket, DropKey, ParkPacket, StartQuery, ClearOldBacklogEntry,
     ProcessPacketReturn, Destroy, ClearOld, QueryStep, QueryAnswered, QueryAssign,
     QueryAssigned, QueryFinish, SenderRestart, Tick, queryVars, vars

\* Between the two copies of the key that ProcessPacket and ProcessBacklog make,
\* the key does not go away.
LEMMA KeyStep ==
  TypeOK /\ QueryThreadInv /\ KeyInv /\ [Next]_vars /\ ~requeried' => KeyInv'
  <1> SUFFICES ASSUME TypeOK, QueryThreadInv, KeyInv, [Next]_vars, ~requeried' PROVE KeyInv'
    OBVIOUS
  <1>j. Junk # NoKey /\ qpc \in QuerySteps
    BY ConstantsAssumption DEF Junk, NoKey, TypeOK
  <1> USE DEF KeyInv, QueryOnlyWithoutKey
  <1>1. ASSUME NEW k \in Keys, NEW tracked \in BOOLEAN, ReceivePacket(k, tracked)
        PROVE  KeyInv'
    <2>1. PICK v \in KeyRead(NoKey) : snap' = v /\ rpc' = IF v = NoKey THEN "park" ELSE "backlog?"
      BY <1>1 DEF ReceivePacket
    <2>2. UNCHANGED <<key, qpc, qresult>>
      BY <1>1 DEF ReceivePacket, queryVars
    <2>3. CASE qpc = "writing" /\ qresult # key
      BY <2>1, <2>2, <2>3, <1>j
    <2>4. CASE ~(qpc = "writing" /\ qresult # key)
      <3>1. v = key
        BY <2>4 DEF KeyRead
      <3> QED BY <2>1, <2>2, <3>1, <1>j DEF QuerySteps
    <2> QED BY <2>3, <2>4
  <1>2. CASE ProcessBacklogKey
    <2>1. bkey' \in KeyRead(snap) /\ rpc' = "backlog" /\ rpc = "backlog?"
          /\ UNCHANGED <<snap, key, qpc, qresult>>
      BY <1>2 DEF ProcessBacklogKey, queryVars
    <2>2. bkey' # NoKey
      <3>1. CASE qpc = "writing" /\ qresult # key
        BY <2>1, <3>1, <1>j DEF KeyRead
      <3>2. CASE ~(qpc = "writing" /\ qresult # key)
        BY <2>1, <3>2 DEF KeyRead
      <3> QED BY <3>1, <3>2
    <2> QED BY <2>1, <2>2
  <1>3. CASE ProcessBacklogEntry
    BY <1>3 DEF ProcessBacklogEntry, queryVars
  <1>4. CASE DecryptPacket
    BY <1>4 DEF DecryptPacket, queryVars
  <1>5. CASE DropKey \/ ParkPacket \/ ClearOldBacklogEntry \/ ProcessPacketReturn
    BY <1>5 DEF DropKey, ParkPacket, ClearOldBacklogEntry, ProcessPacketReturn, queryVars
  <1>6. CASE StartQuery
    BY <1>6 DEF StartQuery
  <1>7. CASE ClearOld \/ Destroy
    BY <1>7 DEF ClearOld, Destroy, queryVars
  <1>8. CASE QueryStep
    BY <1>8 DEF QueryStep, QueryAnswered, QueryAssign, QueryAssigned, QueryFinish, receiverVars
  <1>9. CASE SenderRestart
    BY <1>9 DEF SenderRestart
  <1>10. CASE Tick
    <2>1. backlog = <<>> => backlog' = <<>>
      BY <1>10, TickFacts DEF TypeOK
    <2> QED BY <1>10, <2>1 DEF Tick
  <1>11. CASE UNCHANGED vars
    BY <1>11 DEF vars
  <1> QED BY <1>1, <1>2, <1>3, <1>4, <1>5, <1>6, <1>7, <1>8, <1>9, <1>10, <1>11
          DEF Next, ReceiverStep

-----------------------------------------------------------------------------
(* The order of packets                                                    *)

\* As the backlog is empty when the packet in hand is decrypted, what is
\* delivered is always younger than what was delivered before.
LEMMA OrderStep ==
  TypeOK /\ PlaceInv /\ KeyInv /\ OrderInv /\ [Next]_vars => OrderInv'
  <1> SUFFICES ASSUME TypeOK, PlaceInv, KeyInv, OrderInv, [Next]_vars PROVE OrderInv'
    OBVIOUS
  <1>b. /\ backlog \in Seq(Entry) /\ Len(backlog) \in Nat /\ Len(backlog) <= MaxLength
        /\ delivered \in Seq(1..MaxTracked) /\ Len(delivered) \in Nat
        /\ DOMAIN delivered = 1..Len(delivered)
        /\ received \in Nat /\ MaxTracked \in Nat /\ received <= MaxTracked
    BY ConstantsAssumption DEF TypeOK
  <1>n. /\ \A i \in 1..Len(backlog) : backlog[i].no \in Nat
        /\ \A i \in 1..Len(delivered) : delivered[i] \in 1..MaxTracked
        /\ hand.no \in 0..MaxTracked
    BY <1>b, BacklogFacts DEF Packet, TypeOK
  <1>h. EntryOf(hand) \in Entry /\ EntryOf(hand).no = hand.no
    BY EntryOfFacts DEF TypeOK
  \* appending something younger than everything delivered keeps the order
  <1>inc. ASSUME NEW n \in 1..MaxTracked, \A i \in 1..Len(delivered) : delivered[i] < n,
                 delivered' = Append(delivered, n)
          PROVE  /\ Increasing(delivered')
                 /\ \A i \in 1..Len(delivered') :
                      \/ i \in 1..Len(delivered) /\ delivered'[i] = delivered[i]
                      \/ i = Len(delivered) + 1 /\ delivered'[i] = n
    <2>1. /\ DOMAIN delivered' = 1..(Len(delivered) + 1) /\ Len(delivered') = Len(delivered) + 1
          /\ \A i \in 1..Len(delivered') :
               \/ i \in 1..Len(delivered) /\ delivered'[i] = delivered[i]
               \/ i = Len(delivered) + 1 /\ delivered'[i] = n
      <3> DEFINE d == Append(delivered, n)
      <3>1. /\ d \in Seq(1..MaxTracked) /\ Len(d) = Len(delivered) + 1
            /\ d[Len(delivered) + 1] = n
            /\ \A i \in 1..Len(delivered) : d[i] = delivered[i]
        BY <1>inc, <1>b, AppendFacts
      <3> HIDE DEF d
      <3>2. DOMAIN d = 1..Len(d)
        BY <3>1
      <3>3. \A i \in 1..Len(d) : i \in 1..Len(delivered) \/ i = Len(delivered) + 1
        BY <3>1, <1>b
      <3>4. delivered' = d
        BY <1>inc DEF d
      <3> QED BY <3>1, <3>2, <3>3, <3>4
    <2>2. ASSUME NEW i \in DOMAIN delivered', NEW j \in DOMAIN delivered', i < j
          PROVE  delivered'[i] < delivered'[j]
      <3>1. i \in 1..Len(delivered) /\ delivered'[i] = delivered[i]
        BY <2>1, <2>2, <1>b
      <3>2. CASE j \in 1..Len(delivered) /\ delivered'[j] = delivered[j]
        BY <3>1, <3>2, <2>2, <1>b DEF OrderInv, Increasing
      <3>3. CASE delivered'[j] = n
        BY <3>1, <3>3, <1>inc
      <3> QED BY <2>1, <3>2, <3>3
    <2> QED BY <2>1, <2>2 DEF Increasing
  <1>push. ASSUME InHand, ~InHand', backlog' = PushBack(backlog, EntryOf(hand)),
                  hand' = hand, delivered' = delivered
           PROVE  OrderInv'
    <2>1. \A i \in 1..Len(backlog') :
            \/ i \in 1..Len(backlog) /\ backlog'[i] = backlog[i]
            \/ i = Len(backlog) + 1 /\ backlog'[i].no = hand.no
      BY <1>push, <1>b, <1>h, PushBackFacts
    <2>2. Len(backlog') \in Nat
      BY <1>push, <1>b, <1>h, PushBackFacts
    <2>3. ASSUME NEW i \in 1..Len(backlog'), NEW j \in 1..Len(backlog'), i < j,
                 backlog'[i].no # 0, backlog'[j].no # 0
          PROVE  backlog'[i].no < backlog'[j].no
      <3>1. i \in 1..Len(backlog) /\ backlog'[i] = backlog[i]
        BY <2>1, <2>2, <2>3, <1>b
      <3>2. CASE j \in 1..Len(backlog) /\ backlog'[j] = backlog[j]
        BY <3>1, <3>2, <2>3 DEF OrderInv
      <3>3. CASE backlog'[j].no = hand.no
        BY <3>1, <3>3, <2>3, <1>push DEF OrderInv
      <3> QED BY <2>1, <3>2, <3>3
    <2>4. \A i \in 1..Len(backlog'), j \in 1..Len(delivered') :
            backlog'[i].no # 0 => delivered'[j] < backlog'[i].no
      BY <1>push, <2>1 DEF OrderInv
    <2> QED BY <1>push, <2>3, <2>4 DEF OrderInv
  \* popping keeps the order of the rest
  <1>pop. ASSUME backlog # <<>>, backlog' = Tail(backlog)
          PROVE  /\ Len(backlog') \in Nat
                 /\ \A i \in 1..Len(backlog') :
                      i + 1 \in 1..Len(backlog) /\ backlog'[i] = backlog[i + 1] /\ 1 < i + 1
                 /\ \A i, j \in 1..Len(backlog') :
                      i < j /\ backlog'[i].no # 0 /\ backlog'[j].no # 0
                        => backlog'[i].no < backlog'[j].no
    <2>1. /\ Len(backlog') \in Nat
          /\ \A i \in 1..Len(backlog') :
               i + 1 \in 1..Len(backlog) /\ backlog'[i] = backlog[i + 1] /\ 1 < i + 1
      BY <1>pop, <1>b, TailFacts
    <2>2. ASSUME NEW i \in 1..Len(backlog'), NEW j \in 1..Len(backlog'), i < j,
                 backlog'[i].no # 0, backlog'[j].no # 0
          PROVE  backlog'[i].no < backlog'[j].no
      <3>1. i + 1 < j + 1
        BY <2>2
      <3> QED BY <2>1, <2>2, <3>1 DEF OrderInv
    <2> QED BY <2>1, <2>2
  <1>drop. ASSUME backlog # <<>>, backlog' = Tail(backlog), hand' = hand, InHand' => InHand,
                  delivered' = delivered
           PROVE  OrderInv'
    BY <1>drop, <1>pop DEF OrderInv
  <1>same. ASSUME backlog' = backlog, hand'.no = hand.no, InHand' => InHand,
                  delivered' = delivered
           PROVE  OrderInv'
    BY <1>same DEF OrderInv
  <1>1. ASSUME NEW k \in Keys, NEW tracked \in BOOLEAN, ReceivePacket(k, tracked)
        PROVE  OrderInv'
    <2>1. hand'.no \in Nat /\ (hand'.no # 0 => hand'.no > received)
          /\ backlog' = backlog /\ delivered' = delivered
      BY <1>1, <1>b DEF ReceivePacket
    <2>2. /\ \A i \in 1..Len(backlog) : hand'.no # 0 => backlog[i].no < hand'.no
          /\ \A i \in 1..Len(delivered) : hand'.no # 0 => delivered[i] < hand'.no
      <3>1. /\ \A i \in 1..Len(backlog) : backlog[i].no <= received
            /\ \A i \in 1..Len(delivered) : delivered[i] <= received
        BY DEF PlaceInv
      <3>2. hand'.no # 0 => hand'.no > received
        BY <2>1
      <3>3. hand'.no \in Nat /\ received \in Nat
        BY <2>1, <1>b
      <3>4. \A x \in Nat : x <= received /\ hand'.no # 0 => x < hand'.no
        BY <3>2, <3>3
      <3>5. \A i \in 1..Len(delivered) : delivered[i] \in Nat
        BY <1>n
      <3> QED BY <1>n, <3>1, <3>4, <3>5
    <2> QED BY <2>1, <2>2 DEF OrderInv
  <1>2. CASE ProcessBacklogKey \/ StartQuery
    BY <1>2, <1>same DEF ProcessBacklogKey, StartQuery, InHand
  <1>3. CASE ProcessBacklogEntry
    <2>1. backlog # <<>> /\ backlog' = Tail(backlog) /\ hand' = hand
          /\ rpc' = rpc /\ rpc = "backlog"
      BY <1>3 DEF ProcessBacklogEntry
    <2>2. CASE delivered' = delivered
      BY <2>1, <2>2, <1>drop DEF InHand
    <2>3. CASE Head(backlog).no # 0 /\ delivered' = Append(delivered, Head(backlog).no)
      <3>1. Head(backlog) = backlog[1] /\ 1 \in 1..Len(backlog)
        BY <2>1, <1>b, TailFacts
      <3>2. backlog[1].no \in 1..MaxTracked
        <4>1. backlog[1].no \in 0..MaxTracked
          BY <3>1, <1>b, BacklogFacts
        <4>2. backlog[1].no # 0
          BY <3>1, <2>3
        <4> QED BY <4>1, <4>2, <1>b
      <3>3. \A i \in 1..Len(delivered) : delivered[i] < backlog[1].no
        BY <3>1, <2>3 DEF OrderInv
      <3>4. /\ Increasing(delivered')
            /\ \A i \in 1..Len(delivered') :
                 \/ i \in 1..Len(delivered) /\ delivered'[i] = delivered[i]
                 \/ i = Len(delivered) + 1 /\ delivered'[i] = backlog[1].no
        BY <3>1, <3>2, <3>3, <2>3, <1>inc
      <3>5. \A i \in 1..Len(backlog') : backlog'[i].no # 0 => backlog[1].no < backlog'[i].no
        BY <2>1, <2>3, <3>1, <1>pop DEF OrderInv
      <3>6. \A i \in 1..Len(backlog'), j \in 1..Len(delivered') :
              backlog'[i].no # 0 => delivered'[j] < backlog'[i].no
        <4> SUFFICES ASSUME NEW i \in 1..Len(backlog'), NEW j \in 1..Len(delivered'),
                            backlog'[i].no # 0
                     PROVE  delivered'[j] < backlog'[i].no
          OBVIOUS
        <4>1. CASE j \in 1..Len(delivered) /\ delivered'[j] = delivered[j]
          <5>1. i + 1 \in 1..Len(backlog) /\ backlog'[i] = backlog[i + 1]
            BY <2>1, <1>pop
          <5> QED BY <4>1, <5>1 DEF OrderInv
        <4>2. CASE delivered'[j] = backlog[1].no
          BY <3>5, <4>2
        <4> QED BY <3>4, <4>1, <4>2
      <3>7. InHand' /\ hand'.no # 0 =>
              /\ \A i \in 1..Len(backlog') : backlog'[i].no < hand'.no
              /\ \A i \in 1..Len(delivered') : delivered'[i] < hand'.no
        BY <2>1, <1>pop, <3>1, <3>4 DEF OrderInv, InHand
      <3> QED BY <2>1, <1>pop, <3>4, <3>6, <3>7 DEF OrderInv
    <2> QED BY <1>3, <2>2, <2>3 DEF ProcessBacklogEntry, Deliver
  <1>4. CASE DecryptPacket
    <2>1. backlog' = backlog /\ hand'.no = hand.no /\ backlog = <<>>
      BY <1>4, <1>b DEF DecryptPacket, TypeOK, Packet, KeyInv
    <2>2. CASE delivered' = delivered
      BY <1>4, <2>1, <2>2, <1>same DEF DecryptPacket, InHand
    <2>3. CASE hand.no # 0 /\ delivered' = Append(delivered, hand.no) /\ rpc' = "clear"
      <3>1. hand.no \in 1..MaxTracked /\ InHand /\ ~InHand'
        BY <1>4, <2>3, <1>n, <1>b DEF DecryptPacket, InHand
      <3>2. \A i \in 1..Len(delivered) : delivered[i] < hand.no
        BY <3>1, <2>3 DEF OrderInv
      <3>3. Increasing(delivered')
        BY <3>1, <3>2, <2>3, <1>inc
      <3>4. Len(backlog') = 0
        BY <2>1
      <3> QED BY <3>1, <3>3, <3>4 DEF OrderInv
    <2> QED BY <1>4, <2>2, <2>3 DEF DecryptPacket, Deliver
  <1>5. CASE DropKey \/ ParkPacket
    BY <1>5, <1>push DEF DropKey, ParkPacket, InHand
  <1>6. CASE ClearOldBacklogEntry
    BY <1>6, <1>drop DEF ClearOldBacklogEntry, InHand
  <1>7. CASE ProcessPacketReturn
    <2>1. ~InHand'
      BY <1>7 DEF ProcessPacketReturn, InHand
    <2> QED BY <1>7, <2>1 DEF ProcessPacketReturn, OrderInv
  <1>8. CASE Destroy
    <2>1. backlog' = <<>> /\ ~InHand' /\ delivered' = delivered
      BY <1>8 DEF Destroy, InHand
    <2>2. Len(backlog') = 0
      BY <2>1
    <2> QED BY <2>1, <2>2 DEF OrderInv
  <1>9. CASE ClearOld \/ QueryStep \/ SenderRestart
    BY <1>9, <1>same DEF ClearOld, QueryStep, QueryAnswered, QueryAssign, QueryAssigned,
         QueryFinish, SenderRestart, receiverVars, InHand
  <1>10. CASE Tick
    BY <1>10, <1>b, TickFacts DEF OrderInv, Tick, InHand
  <1>11. CASE UNCHANGED vars
    BY <1>11, <1>same DEF vars, InHand
  <1> QED BY <1>1, <1>2, <1>3, <1>4, <1>5, <1>6, <1>7, <1>8, <1>9, <1>10, <1>11
          DEF Next, ReceiverStep

-----------------------------------------------------------------------------
(* Spoiled packets                                                         *)

\* A packet is spoiled after the backlog was emptied, so it is pushed in front.
LEMMA SpoiledStep ==
  TypeOK /\ KeyInv /\ SpoiledInv /\ [Next]_vars => SpoiledInv'
  <1> SUFFICES ASSUME TypeOK, KeyInv, SpoiledInv, [Next]_vars PROVE SpoiledInv'
    OBVIOUS
  <1>b. /\ backlog \in Seq(Entry) /\ Len(backlog) \in Nat /\ Len(backlog) <= MaxLength
    BY DEF TypeOK
  <1>h. EntryOf(hand) \in Entry /\ EntryOf(hand).spoiled = hand.spoiled
    BY EntryOfFacts DEF TypeOK
  <1>pop. ASSUME backlog # <<>>, backlog' = Tail(backlog)
          PROVE  \A i \in 2..Len(backlog') : ~backlog'[i].spoiled
    <2>1. /\ Len(backlog') \in Nat /\ Len(backlog) = Len(backlog') + 1
          /\ \A i \in 1..Len(backlog') : backlog'[i] = backlog[i + 1]
      BY <1>pop, <1>b, TailFacts
    <2> SUFFICES ASSUME NEW i \in 2..Len(backlog') PROVE ~backlog'[i].spoiled
      OBVIOUS
    <2>2. i + 1 \in 2..Len(backlog) /\ backlog'[i] = backlog[i + 1]
      BY <2>1
    <2> QED BY <2>2 DEF SpoiledInv
  <1>push. ASSUME backlog' = PushBack(backlog, EntryOf(hand)),
                  backlog = <<>> \/ ~hand.spoiled
           PROVE  \A i \in 2..Len(backlog') : ~backlog'[i].spoiled
    <2>1. /\ Len(backlog') \in {Len(backlog), Len(backlog) + 1}
          /\ \A i \in 1..Len(backlog') :
            \/ i \in 1..Len(backlog) /\ backlog'[i] = backlog[i]
            \/ i = Len(backlog) + 1 /\ backlog'[i].spoiled = hand.spoiled
      BY <1>push, <1>b, <1>h, PushBackFacts
    <2>2. CASE backlog = <<>>
      <3>1. Len(backlog') \in {0, 1}
        BY <2>1, <2>2
      <3> QED BY <3>1
    <2>3. CASE ~hand.spoiled
      BY <2>1, <2>3, <1>b DEF SpoiledInv
    <2> QED BY <1>push, <2>2, <2>3
  <1>1. ASSUME NEW k \in Keys, NEW tracked \in BOOLEAN, ReceivePacket(k, tracked)
        PROVE  SpoiledInv'
    BY <1>1 DEF ReceivePacket, SpoiledInv
  <1>2. CASE ProcessBacklogKey \/ StartQuery \/ ProcessPacketReturn \/ ClearOld
    BY <1>2 DEF ProcessBacklogKey, StartQuery, ProcessPacketReturn, ClearOld, SpoiledInv
  <1>3. CASE ProcessBacklogEntry \/ ClearOldBacklogEntry
    <2>1. hand' = hand /\ rpc' = rpc /\ backlog # <<>> /\ backlog' = Tail(backlog)
      BY <1>3 DEF ProcessBacklogEntry, ClearOldBacklogEntry
    <2> QED BY <2>1, <1>pop DEF SpoiledInv
  <1>4. CASE DecryptPacket
    BY <1>4 DEF DecryptPacket, SpoiledInv
  <1>5. CASE DropKey \/ ParkPacket
    <2>1. backlog' = PushBack(backlog, EntryOf(hand)) /\ rpc' = "query"
      BY <1>5 DEF DropKey, ParkPacket
    <2>2. backlog = <<>> \/ ~hand.spoiled
      BY <1>5 DEF DropKey, ParkPacket, KeyInv, SpoiledInv
    <2> QED BY <2>1, <2>2, <1>push DEF SpoiledInv
  <1>6. CASE Destroy
    <2>1. Len(backlog') = 0 /\ rpc' = "absent"
      BY <1>6 DEF Destroy
    <2> QED BY <2>1 DEF SpoiledInv
  <1>7. CASE QueryStep \/ SenderRestart
    BY <1>7 DEF QueryStep, QueryAnswered, QueryAssign, QueryAssigned,
         QueryFinish, SenderRestart, receiverVars, SpoiledInv
  <1>8. CASE Tick
    <2>1. \A i \in 2..Len(backlog) : i \in 1..Len(backlog)
      BY <1>b
    <2> QED BY <1>8, <2>1, TickFacts DEF SpoiledInv, Tick
  <1>9. CASE UNCHANGED vars
    BY <1>9 DEF vars, SpoiledInv
  <1> QED BY <1>1, <1>2, <1>3, <1>4, <1>5, <1>6, <1>7, <1>8, <1>9 DEF Next, ReceiverStep

-----------------------------------------------------------------------------
(* The theorems                                                            *)

\* Before the first packet the invariant holds trivially.
LEMMA InitInv == Init => IInv
  <1> SUFFICES ASSUME Init PROVE IInv
    OBVIOUS
  <1>1. TypeOK
    <2>1. hand \in Packet /\ senderKey \in Keys
      BY ConstantsAssumption DEF Init, NoPacket, Packet, Keys
    <2>2. backlog \in Seq(Entry) /\ Len(backlog) <= MaxLength /\ delivered \in Seq(1..MaxTracked)
      BY ConstantsAssumption DEF Init
    <2>3. rpc \in ReceiverSteps /\ qpc \in QuerySteps /\ queryDone \in BOOLEAN
          /\ requeried \in BOOLEAN
      BY DEF Init, ReceiverSteps, QuerySteps
    <2>4. silence \in 0..SourceTTL /\ received \in 0..MaxTracked
      BY ConstantsAssumption DEF Init
    <2>5. /\ snap \in KeyValues /\ bkey \in KeyValues
          /\ key \in {NoKey} \cup Keys /\ qresult \in {NoKey} \cup Keys
      BY DEF Init, KeyValues
    <2> QED BY <2>1, <2>2, <2>3, <2>4, <2>5 DEF TypeOK
  <1>2. Len(backlog) = 0 /\ Len(delivered) = 0 /\ DOMAIN delivered = {} /\ hand.no = 0
    BY DEF Init, NoPacket
  <1>3. QueryThreadInv
    BY DEF Init, QueryThreadInv
  <1>4. AgesInv /\ PlaceInv /\ OrderInv
    BY <1>2 DEF Init, AgesInv, PlaceInv, OrderInv, Increasing, InHand
  <1>5. KeyInv /\ SpoiledInv
    BY <1>2 DEF Init, KeyInv, SpoiledInv, QueryOnlyWithoutKey
  <1> QED BY <1>1, <1>3, <1>4, <1>5 DEF IInv

\* The whole invariant is inductive.
LEMMA StepInv == IInv /\ [Next]_vars => IInv'
  BY TypeStep, QueryThreadStep, AgesStep, PlaceStep, RequeriedStays, KeyStep, OrderStep,
     SpoiledStep DEF IInv

\* IInv is an invariant of the specification.
THEOREM Invariance == Spec => []IInv
  BY InitInv, StepInv, PTL DEF Spec

\* Every variable of MulticastSource always has its type, and the backlog never
\* holds more than MaxLength packets.
THEOREM TypeCorrect == Spec => []TypeOK
  <1>1. IInv => TypeOK
    BY DEF IInv
  <1> QED BY <1>1, Invariance, PTL

\* ProcessPacket and ProcessBacklog deliver in order of receipt, unless a query
\* was started while a key was there.
THEOREM InOrder == Spec => []InOrderUnlessRequeried
  <1>1. IInv => InOrderUnlessRequeried
    BY DEF IInv, OrderInv, InOrderUnlessRequeried
  <1> QED BY <1>1, Invariance, PTL

\* A failed decryption costs at most the packet it was tried on, under the same
\* condition.
THEOREM SpoiledInFront == Spec => []OnlyFrontSpoiled
  <1>1. IInv => OnlyFrontSpoiled
    BY DEF IInv, SpoiledInv, OnlyFrontSpoiled
  <1> QED BY <1>1, Invariance, PTL

\* When MulticastSources has erased a source, its query thread has ended.
THEOREM QueryThreadEnded == Spec => []NoOrphanQuery
  <1>1. IInv => NoOrphanQuery
    BY DEF IInv, QueryThreadInv, NoOrphanQuery
  <1> QED BY <1>1, Invariance, PTL

\* ClearOldBacklog leaves no entry that has reached the limit.
THEOREM OldEntriesCleared == Spec => ClearLeavesNoOldEntry
  <1>1. IInv /\ [Next]_vars =>
          [rpc = "clear" /\ rpc' = "idle"
             => \A i \in DOMAIN backlog' : backlog'[i].age < BacklogTTL]_vars
    <2> SUFFICES ASSUME IInv, Next, rpc = "clear", rpc' = "idle", NEW i \in DOMAIN backlog'
                 PROVE  backlog'[i].age < BacklogTTL
      BY DEF vars
    <2>1. ProcessPacketReturn
      BY DEF Next, ReceivePacket, ReceiverStep, ProcessBacklogKey, ProcessBacklogEntry,
         DecryptPacket, DropKey, ParkPacket, StartQuery, ClearOldBacklogEntry,
         ProcessPacketReturn, Destroy, ClearOld, QueryStep, QueryAnswered, QueryAssign,
         QueryAssigned, QueryFinish, SenderRestart, Tick, receiverVars
    <2>2. backlog' = backlog /\ (backlog # <<>> => Head(backlog).age < BacklogTTL)
      BY <2>1 DEF ProcessPacketReturn
    <2>3. backlog \in Seq(Entry) /\ i \in 1..Len(backlog) /\ Len(backlog) \in Nat
      BY <2>2 DEF IInv, TypeOK
    <2>4. backlog # <<>> /\ Head(backlog) = backlog[1] /\ 1 \in 1..Len(backlog)
      BY <2>3, TailFacts
    <2>5. /\ backlog[1].age \in 0..BacklogTTL /\ backlog[i].age \in 0..BacklogTTL
          /\ BacklogTTL \in Nat
      BY <2>3, <2>4, BacklogFacts, ConstantsAssumption
    <2>6. i = 1 \/ backlog[1].age >= backlog[i].age
      BY <2>3, <2>4 DEF IInv, AgesInv
    <2> QED BY <2>2, <2>4, <2>5, <2>6
  <1> QED BY <1>1, Invariance, PTL DEF Spec, ClearLeavesNoOldEntry

\* MulticastSource implements LossyDelivery: a packet is delivered at most once,
\* and only if it was received, whatever the two threads do.
THEOREM Implements == Spec => AtMostOnce
  <1>1. Init => Transport!Init
    BY DEF Init, Transport!Init
  <1>2. IInv /\ IInv' /\ [Next]_vars => [Transport!Next]_(Transport!deliveryVars)
    <2> SUFFICES ASSUME IInv, [Next]_vars
                 PROVE  \/ Transport!Accept \/ Transport!Emit
                        \/ UNCHANGED <<received, delivered>>
      BY DEF Transport!Next, Transport!deliveryVars
    <2>b. /\ backlog \in Seq(Entry) /\ Len(backlog) \in Nat
          /\ delivered \in Seq(1..MaxTracked) /\ DOMAIN delivered = 1..Len(delivered)
          /\ received \in Nat
      BY ConstantsAssumption DEF IInv, TypeOK
    <2>1. ASSUME NEW k \in Keys, NEW tracked \in BOOLEAN, ReceivePacket(k, tracked)
          PROVE  Transport!Accept \/ UNCHANGED <<received, delivered>>
      BY <2>1 DEF ReceivePacket, Transport!Accept
    <2>2. CASE ProcessBacklogEntry
      <3>1. backlog # <<>> /\ received' = received
        BY <2>2 DEF ProcessBacklogEntry
      <3>2. CASE Head(backlog).no # 0 /\ delivered' = Append(delivered, Head(backlog).no)
        <4>1. Head(backlog) = backlog[1] /\ 1 \in 1..Len(backlog)
          BY <3>1, <2>b, TailFacts
        <4>2. backlog[1].no \in Nat /\ backlog[1].no <= received
          BY <4>1, <2>b, BacklogFacts DEF IInv, PlaceInv
        <4>3. backlog[1].no \notin Transport!Emitted
          BY <4>1, <2>b DEF Transport!Emitted, IInv, PlaceInv
        <4>4. Head(backlog).no \in (1..received) \ Transport!Emitted
          BY <4>1, <4>2, <4>3, <3>2, <2>b
        <4> QED BY <3>1, <3>2, <4>4 DEF Transport!Emit
      <3> QED BY <2>2, <3>1, <3>2 DEF ProcessBacklogEntry, Deliver
    <2>3. CASE DecryptPacket
      <3>1. received' = received /\ InHand
        BY <2>3 DEF DecryptPacket, InHand
      <3>2. CASE hand.no # 0 /\ delivered' = Append(delivered, hand.no)
        <4>1. hand.no \in Nat /\ hand.no <= received
          BY ConstantsAssumption DEF IInv, TypeOK, Packet, PlaceInv
        <4>2. hand.no \notin Transport!Emitted
          BY <3>1, <3>2, <2>b DEF Transport!Emitted, IInv, PlaceInv
        <4>3. hand.no \in (1..received) \ Transport!Emitted
          BY <4>1, <4>2, <3>2, <2>b
        <4> QED BY <3>1, <3>2, <4>3 DEF Transport!Emit
      <3> QED BY <2>3, <3>1, <3>2 DEF DecryptPacket, Deliver
    <2>4. CASE UNCHANGED <<received, delivered>>
      BY <2>4
    <2> QED BY <2>1, <2>2, <2>3, <2>4 DEF Next, ReceiverStep, ProcessBacklogKey, DropKey,
         ParkPacket, StartQuery, ClearOldBacklogEntry, ProcessPacketReturn, Destroy, ClearOld,
         QueryStep, QueryAnswered, QueryAssign, QueryAssigned, QueryFinish, SenderRestart,
         Tick, receiverVars, vars
  <1> QED BY <1>1, <1>2, Invariance, PTL DEF Spec, AtMostOnce, Transport!Spec
=============================================================================
