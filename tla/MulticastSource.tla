--------------------------- MODULE MulticastSource ---------------------------
(***************************************************************************)
(* One multicast log source as mclogd's receive thread sees it (class      *)
(* MulticastSource, owned by MulticastSources).  Packets from the source   *)
(* are encrypted under a key the receiver must fetch with a query thread;  *)
(* until it has it, packets wait on a bounded backlog.                     *)
(*                                                                         *)
(* Two threads run here.  The receive thread (rpc) executes ProcessPacket, *)
(* ProcessBacklog, StartQuery, ClearOldBacklog and, when the source is     *)
(* expired, the destructor.  The query thread (qpc) executes QueryForKey.  *)
(* They share _key, a std::string with no lock around its copies, and the  *)
(* atomic _queryDone.                                                      *)
(*                                                                         *)
(* A packet's payload is abstracted to the key it was encrypted under and  *)
(* a number.  Packets numbered 1, 2, ... are tracked, in order of receipt; *)
(* any packet may instead be untracked (number 0), so a run receives       *)
(* packets for ever while the tracked ones stay within MaxTracked.         *)
(* Time is kept as ages, in ticks, that stop counting at the largest value *)
(* the code tells apart.                                                   *)
(***************************************************************************)
EXTENDS Naturals, Sequences

CONSTANTS
  MaxKeys,      \* bound: keys the sender goes through (one per process start)
  MaxTracked,   \* bound: packets that carry a number
  MaxLength,    \* _backlog.MaxLength(): 100 in the code
  BacklogTTL,   \* ticks a backlog entry is kept: 5 seconds in the code
  SourceTTL,    \* ticks after which a silent source is expired: 20 seconds
  TornReads     \* whether an unlocked copy of a key may mix two values

ASSUME ConstantsAssumption ==
  /\ MaxKeys \in Nat \ {0}
  /\ MaxTracked \in Nat
  /\ MaxLength \in Nat \ {0}
  /\ BacklogTTL \in Nat \ {0}
  /\ SourceTTL \in Nat \ {0}
  /\ TornReads \in BOOLEAN

VARIABLES
  senderKey,   \* key of the remote MulticastSender (environment)
  rpc,         \* where the receive thread is, for this source
  hand,        \* the packet being processed
  snap,        \* ProcessPacket's local copy of the key
  bkey,        \* ProcessBacklog's local copy of the key
  key,         \* _key
  backlog,     \* _backlog
  silence,     \* age of _lastReceiveTime
  qpc,         \* where the query thread is
  qresult,     \* what KeyRequester::GetKey() returned
  queryDone,   \* _queryDone
  requeried,   \* history: a query was started although a key had arrived
  received,    \* history: tracked packets received so far
  delivered    \* history: tracked packets handed to the sinks, in order

vars == <<senderKey, rpc, hand, snap, bkey, key, backlog, silence, qpc,
          qresult, queryDone, requeried, received, delivered>>

receiverVars == <<rpc, hand, snap, bkey, backlog, silence, received, delivered>>
queryVars    == <<qpc, qresult, queryDone, requeried>>

NoKey == 0                 \* the empty string: no key
Keys  == 1..MaxKeys        \* the sender's keys, in the order it draws them
Junk  == MaxKeys + 1       \* a torn copy of a key: decrypts nothing
KeyValues == {NoKey} \cup Keys \cup {Junk}

\* A packet: its number, the key it was sent under, and whether its bytes
\* were destroyed by a failed in-place decryption.
Packet  == [no : 0..MaxTracked, key : Keys, spoiled : BOOLEAN]
Entry   == [no : 0..MaxTracked, key : Keys, spoiled : BOOLEAN, age : 0..BacklogTTL]

NoPacket == [no |-> 0, key |-> 1, spoiled |-> FALSE]   \* no packet in hand

EntryOf(pkt) == [no |-> pkt.no, key |-> pkt.key, spoiled |-> pkt.spoiled, age |-> 0]

Older(age, limit) == IF age < limit THEN age + 1 ELSE age

-----------------------------------------------------------------------------
(* Primitives                                                              *)

\* MessagePacket::Decrypt authenticates: only the sender's key opens a packet
\* and only if the bytes are the ones that were sent.
Decrypts(pkt, k) == k = pkt.key /\ ~pkt.spoiled

\* MulticastSourceKey::Value() of a copy of _key.  The copy takes no lock, so
\* while the query thread assigns a different key the reader may see the old
\* value, the new one, or a mixture of both.  A thread that has already seen
\* the length of a new key does not see the old empty string again.
KeyRead(earlier) ==
  IF qpc = "writing" /\ qresult # key
  THEN {v \in {key, qresult, Junk} :
          /\ v = Junk => TornReads
          /\ v = NoKey /\ qresult # NoKey => earlier = NoKey}
  ELSE {key}

\* Thread::Queue::PushBack: refuses the entry when the queue is full.
PushBack(q, e) == IF Len(q) < MaxLength THEN Append(q, e) ELSE q

\* The sinks get every message of the packet.
Deliver(pkt) ==
  delivered' = IF pkt.no = 0 THEN delivered ELSE Append(delivered, pkt.no)

-----------------------------------------------------------------------------
(* The receive thread                                                      *)

\* Entry to ProcessPacket.  A packet of a source that does not exist, or no
\* longer exists, first creates it.  Packets of an earlier key may still be
\* under way when the sender already uses a new one.
ReceivePacket(k, tracked) ==
  /\ rpc \in {"absent", "idle"}
  /\ k <= senderKey
  /\ tracked => received < MaxTracked
  /\ received' = IF tracked THEN received + 1 ELSE received
  /\ hand' = [no |-> IF tracked THEN received + 1 ELSE 0, key |-> k, spoiled |-> FALSE]
  /\ silence' = 0
  /\ \E v \in KeyRead(NoKey) :
       /\ snap' = v
       /\ rpc' = IF v = NoKey THEN "park" ELSE "backlog?"
  /\ UNCHANGED <<senderKey, bkey, key, backlog, delivered>>
  /\ UNCHANGED queryVars

\* ProcessBacklog reads the key again.
ProcessBacklogKey ==
  /\ rpc = "backlog?"
  /\ bkey' \in KeyRead(snap)
  /\ rpc' = "backlog"
  /\ UNCHANGED <<senderKey, hand, snap, key, backlog, silence, received, delivered>>
  /\ UNCHANGED queryVars

\* Mutant: the entry is read but not popped.
ProcessBacklogEntryPeek ==
  /\ rpc = "backlog"
  /\ bkey # NoKey
  /\ backlog # <<>>
  /\ IF Decrypts(Head(backlog), bkey) THEN Deliver(Head(backlog)) ELSE UNCHANGED delivered
  /\ UNCHANGED <<senderKey, rpc, hand, snap, bkey, key, backlog, silence, received>>
  /\ UNCHANGED queryVars

\* One iteration of ProcessBacklog: the entry is gone whether it decrypts or not.
ProcessBacklogEntry ==
  /\ rpc = "backlog"
  /\ bkey # NoKey
  /\ backlog # <<>>
  /\ backlog' = Tail(backlog)
  /\ IF Decrypts(Head(backlog), bkey) THEN Deliver(Head(backlog)) ELSE UNCHANGED delivered
  /\ UNCHANGED <<senderKey, rpc, hand, snap, bkey, key, silence, received>>
  /\ UNCHANGED queryVars

\* Mutant: the new packet is decrypted without waiting for the backlog.
DecryptPacketFirst ==
  /\ rpc = "backlog"
  /\ IF Decrypts(hand, snap)
     THEN Deliver(hand) /\ rpc' = "clear" /\ UNCHANGED hand
     ELSE hand' = [hand EXCEPT !.spoiled = TRUE] /\ rpc' = "rekey" /\ UNCHANGED delivered
  /\ UNCHANGED <<senderKey, snap, bkey, key, backlog, silence, received>>
  /\ UNCHANGED queryVars

\* ProcessPacket decrypts the new packet in place with the copy it made first.
\* A failure leaves the buffer spoiled.
DecryptPacket ==
  /\ rpc = "backlog"
  /\ bkey = NoKey \/ backlog = <<>>
  /\ IF Decrypts(hand, snap)
     THEN /\ Deliver(hand)
          /\ rpc' = "clear"
          /\ UNCHANGED hand
     ELSE /\ hand' = [hand EXCEPT !.spoiled = TRUE]
          /\ rpc' = "rekey"
          /\ UNCHANGED delivered
  /\ UNCHANGED <<senderKey, snap, bkey, key, backlog, silence, received>>
  /\ UNCHANGED queryVars

\* Mutant: the copy that failed is stored back, not an empty key.
DropKeyNot ==
  /\ rpc = "rekey"
  /\ key' = snap
  /\ backlog' = PushBack(backlog, EntryOf(hand))
  /\ rpc' = "query"
  /\ UNCHANGED <<senderKey, hand, snap, bkey, silence, received, delivered>>
  /\ UNCHANGED queryVars

\* Decryption failed: forget the key and keep the packet for the next one.
\* LastUpdated() of the copy is always the epoch, so StartQuery is called.
DropKey ==
  /\ rpc = "rekey"
  /\ key' = NoKey
  /\ backlog' = PushBack(backlog, EntryOf(hand))
  /\ rpc' = "query"
  /\ UNCHANGED <<senderKey, hand, snap, bkey, silence, received, delivered>>
  /\ UNCHANGED queryVars

\* There was no key: keep the packet.
ParkPacket ==
  /\ rpc = "park"
  /\ backlog' = PushBack(backlog, EntryOf(hand))
  /\ rpc' = "query"
  /\ UNCHANGED <<senderKey, hand, snap, bkey, key, silence, received, delivered>>
  /\ UNCHANGED queryVars

\* Start a query thread unless one is running.
StartQuery ==
  /\ rpc = "query"
  /\ rpc' = "clear"
  /\ IF queryDone
     THEN /\ queryDone' = FALSE
          /\ qpc' = "asking"
          /\ requeried' = (requeried \/ key # NoKey)
     ELSE UNCHANGED <<queryDone, qpc, requeried>>
  /\ UNCHANGED <<senderKey, hand, snap, bkey, key, backlog, silence, qresult,
                 received, delivered>>

\* ClearOldBacklog pops entries until it meets one that is young enough.
ClearOldBacklogEntry ==
  /\ rpc = "clear"
  /\ backlog # <<>>
  /\ Head(backlog).age >= BacklogTTL
  /\ backlog' = Tail(backlog)
  /\ UNCHANGED <<senderKey, rpc, hand, snap, bkey, key, silence, received, delivered>>
  /\ UNCHANGED queryVars

\* Mutant: ProcessPacket returns without clearing the old entries.
ProcessPacketReturnEarly ==
  /\ rpc = "clear"
  /\ rpc' = "idle"
  /\ hand' = NoPacket
  /\ snap' = NoKey
  /\ bkey' = NoKey
  /\ UNCHANGED <<senderKey, key, backlog, silence, received, delivered>>
  /\ UNCHANGED queryVars

\* ... puts that one back, and ProcessPacket returns.
ProcessPacketReturn ==
  /\ rpc = "clear"
  /\ backlog # <<>> => Head(backlog).age < BacklogTTL
  /\ rpc' = "idle"
  /\ hand' = NoPacket
  /\ snap' = NoKey
  /\ bkey' = NoKey
  /\ UNCHANGED <<senderKey, key, backlog, silence, received, delivered>>
  /\ UNCHANGED queryVars

\* MulticastSources::ClearOld erases a silent source (when another source sends
\* its first packet) and the destructor spins until the query thread is done.
ClearOld ==
  /\ rpc = "idle"
  /\ silence >= SourceTTL
  /\ rpc' = "destroy"
  /\ UNCHANGED <<senderKey, hand, snap, bkey, key, backlog, silence, received, delivered>>
  /\ UNCHANGED queryVars

\* Mutant: the destructor does not wait for the query thread.
DestroyAtOnce ==
  /\ rpc = "destroy"
  /\ rpc' = "absent"
  /\ key' = NoKey
  /\ backlog' = <<>>
  /\ silence' = 0
  /\ UNCHANGED <<senderKey, hand, snap, bkey, received, delivered>>
  /\ UNCHANGED queryVars

\* The destructor: the query thread is done and joined, the members go away.
Destroy ==
  /\ rpc = "destroy"
  /\ queryDone
  /\ rpc' = "absent"
  /\ key' = NoKey
  /\ backlog' = <<>>
  /\ silence' = 0
  /\ UNCHANGED <<senderKey, hand, snap, bkey, received, delivered>>
  /\ UNCHANGED queryVars

-----------------------------------------------------------------------------
(* The query thread: QueryForKey                                           *)

\* GetKey() returns the key the sender had when it answered, or nothing.
QueryAnswered(k) ==
  /\ qpc = "asking"
  /\ qresult' = k
  /\ qpc' = "answered"
  /\ UNCHANGED <<senderKey, key, queryDone, requeried>>
  /\ UNCHANGED receiverVars

\* Key(result): the assignment starts ...
QueryAssign ==
  /\ qpc = "answered"
  /\ qpc' = "writing"
  /\ UNCHANGED <<senderKey, key, qresult, queryDone, requeried>>
  /\ UNCHANGED receiverVars

\* ... and is complete.
QueryAssigned ==
  /\ qpc = "writing"
  /\ key' = qresult
  /\ qpc' = "published"
  /\ UNCHANGED <<senderKey, qresult, queryDone, requeried>>
  /\ UNCHANGED receiverVars

\* Mutant: the thread ends and _queryDone stays false.
QueryFinishSilently ==
  /\ qpc = "published"
  /\ qpc' = "none"
  /\ qresult' = NoKey
  /\ UNCHANGED <<senderKey, key, queryDone, requeried>>
  /\ UNCHANGED receiverVars

\* QueryForKey reports that it is done, and ends.
QueryFinish ==
  /\ qpc = "published"
  /\ queryDone' = TRUE
  /\ qpc' = "none"
  /\ qresult' = NoKey
  /\ UNCHANGED <<senderKey, key, requeried>>
  /\ UNCHANGED receiverVars

-----------------------------------------------------------------------------
(* The environment                                                         *)

\* The remote mclogd is restarted: its MulticastSender draws a new key.
SenderRestart ==
  /\ senderKey < MaxKeys
  /\ senderKey' = senderKey + 1
  /\ UNCHANGED <<rpc, hand, snap, bkey, key, backlog, silence, qpc, qresult,
                 queryDone, requeried, received, delivered>>

\* Time passes.  ClearOldBacklog reads the clock once, so no time passes in it.
Tick ==
  /\ rpc \notin {"clear", "absent"}
  /\ silence' = Older(silence, SourceTTL)
  /\ backlog' = [i \in DOMAIN backlog |->
                   [backlog[i] EXCEPT !.age = Older(@, BacklogTTL)]]
  /\ UNCHANGED <<senderKey, rpc, hand, snap, bkey, key, qpc, qresult, queryDone,
                 requeried, received, delivered>>

-----------------------------------------------------------------------------
Init ==
  /\ senderKey = 1
  /\ rpc = "absent"
  /\ hand = NoPacket
  /\ snap = NoKey
  /\ bkey = NoKey
  /\ key = NoKey
  /\ backlog = <<>>
  /\ silence = 0
  /\ qpc = "none"
  /\ qresult = NoKey
  /\ queryDone = TRUE
  /\ requeried = FALSE
  /\ received = 0
  /\ delivered = <<>>

\* The steps of ProcessPacket and of the destructor after they have begun.
ReceiverStep ==
  \/ ProcessBacklogKey
  \/ ProcessBacklogEntry
  \/ DecryptPacket
  \/ DropKey
  \/ ParkPacket
  \/ StartQuery
  \/ ClearOldBacklogEntry
  \/ ProcessPacketReturn
  \/ Destroy

QueryStep ==
  \/ \E k \in {NoKey, senderKey} : QueryAnswered(k)
  \/ QueryAssign
  \/ QueryAssigned
  \/ QueryFinish

Next ==
  \/ \E k \in Keys, tracked \in BOOLEAN : ReceivePacket(k, tracked)
  \/ ReceiverStep
  \/ ClearOld
  \/ QueryStep
  \/ SenderRestart
  \/ Tick

Spec == Init /\ [][Next]_vars

\* Both threads keep running and time passes; the source keeps sending and,
\* asked again and again, some day answers.
Fairness ==
  /\ WF_vars(ReceiverStep)
  /\ WF_vars(QueryStep)
  /\ SF_vars(Tick)
  /\ SF_vars(QueryAnswered(senderKey))
  /\ SF_vars(ReceivePacket(senderKey, FALSE))

FairSpec == Spec /\ Fairness

-----------------------------------------------------------------------------
(* Properties                                                              *)

ReceiverSteps == {"absent", "idle", "park", "backlog?", "backlog", "rekey", "query",
                  "clear", "destroy"}
QuerySteps    == {"none", "asking", "answered", "writing", "published"}

\* Every variable holds a value of its type; the backlog never exceeds
\* MaxLength entries.
TypeOK ==
  /\ senderKey \in Keys
  /\ rpc \in ReceiverSteps
  /\ hand \in Packet
  /\ snap \in KeyValues
  /\ bkey \in KeyValues
  /\ key \in {NoKey} \cup Keys
  /\ backlog \in Seq(Entry)
  /\ Len(backlog) <= MaxLength
  /\ silence \in 0..SourceTTL
  /\ qpc \in QuerySteps
  /\ qresult \in {NoKey} \cup Keys
  /\ queryDone \in BOOLEAN
  /\ requeried \in BOOLEAN
  /\ received \in 0..MaxTracked
  /\ delivered \in Seq(1..MaxTracked)

\* A query is started only when there is no key, as the class comment says, so
\* its answer never replaces a key in use.  The code does not ensure it: the key
\* may arrive after ProcessPacket has looked and before it calls StartQuery.
QueryOnlyWithoutKey ==
  qpc \in {"asking", "answered", "writing"} => key = NoKey

\* Unless that happens, the sinks get the packets in the order of receipt:
\* ProcessBacklog, run before each decryption, never lets a packet overtake.
Increasing(s) == \A i, j \in DOMAIN s : i < j => s[i] < s[j]
InOrderUnlessRequeried == requeried \/ Increasing(delivered)

\* ... and a failed decryption destroys at most the packet it was tried on:
\* behind the front of the backlog every entry holds what the sender sent.
OnlyFrontSpoiled ==
  requeried \/ \A i \in 2..Len(backlog) : ~backlog[i].spoiled

\* No query thread outlives its MulticastSource: once MulticastSources has
\* erased the source, nothing runs that would write to its _key.
NoOrphanQuery ==
  rpc = "absent" => qpc = "none" /\ queryDone

\* When ProcessPacket returns, no entry of 5 seconds or more is left on the
\* backlog, although ClearOldBacklog stops at the first young entry.
ClearLeavesNoOldEntry ==
  [][rpc = "clear" /\ rpc' = "idle"
       => \A i \in DOMAIN backlog' : backlog'[i].age < BacklogTTL]_vars

\* Whatever the threads do, a packet reaches the sinks at most once, and only
\* if it was received.
Transport == INSTANCE LossyDelivery WITH accepted <- received, output <- delivered
AtMostOnce == Transport!Spec

\* A source that keeps sending is readable again and again: after a restart of
\* the sender, failed queries and stale answers, the receiver gets its key.
KeyRecovered == []<>(key = senderKey)

\* No packet waits on the backlog for ever, even if the key never comes.
Waiting(n) == \E i \in DOMAIN backlog : backlog[i].no = n
BacklogDrains == \A n \in 1..MaxTracked : Waiting(n) ~> ~Waiting(n)

\* The destructor's busy wait, which blocks the receive thread, ends.
DestructorEnds == rpc = "destroy" ~> rpc = "absent"
=============================================================================
