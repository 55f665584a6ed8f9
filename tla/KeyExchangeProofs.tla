------------------------- MODULE KeyExchangeProofs -------------------------
(***************************************************************************)
(* A successful key request returns a key of its own time, for any number  *)
(* of ports, requests and restarts, over a network that keeps every packet *)
(* for ever.  The argument: what is signed for a request was signed after  *)
(* that request began, because before that nobody had its exchange key.    *)
(***************************************************************************)
EXTENDS KeyExchange, TLAPS

\* No exchange key of a request that has not begun is known to anybody, ...
KeysKnown ==
  /\ \A m \in net : m.to = "listener" /\ m.type = "kx" => m.kx <= request
  /\ \A p \in Ports : clients[p].theirKX <= request /\ clients[p].state # "Initial"

\* ... so an answer is for a request that has begun, and an answer for the current
\* one holds a key the sender had since then.
AnswersFresh ==
  \A m \in net : m.to = "requester" /\ m.type = "id" =>
    /\ m.signed <= request
    /\ m.signed = request => keyBefore <= m.key
    /\ m.key <= mcastKey

IInv == TypeOK /\ KeysKnown /\ AnswersFresh /\ FreshKey /\ keyBefore <= mcastKey

\* The fields of a packet.
LEMMA PacketFields ==
  ASSUME NEW m \in Packet
  PROVE  /\ m.port \in Ports
         /\ m.to \in {"listener", "requester"}
         /\ m.type \in {"kx", "id"}
         /\ m.to = "listener" /\ m.type = "kx" => m.kx \in 1..MaxRequests
         /\ m.to = "requester" /\ m.type = "kx" => m.kx \in 1..MaxPairs
         /\ m.to = "requester" /\ m.type = "id" =>
              m.signed \in 0..MaxRequests /\ m.key \in 1..MaxKeys
BY DEF Packet, KXToListener, KXToRequester, IDToListener, IDToRequester

\* What a client state may become: its peer's key is the one it had, none, or the
\* one in the packet, and an answer is signed for that key.
LEMMA OutcomeFacts ==
  ASSUME NEW c \in ClientState, NEW m \in Packet, m.to = "listener",
         mcastKey \in 1..MaxKeys, c.state = "Initial" => c.pair \in 1..MaxPairs,
         KeyExchangeAssumption,
         NEW o \in ProcessPacket(c, m)
  PROVE  /\ o.client \in ClientState
         /\ o.client.state # "Initial"
         /\ \/ o.client.theirKX \in {0, c.theirKX}
            \/ m.type = "kx" /\ o.client.theirKX = m.kx
         /\ \A r \in o.send :
              \/ r \in KXToRequester
              \/ r \in IDToRequester /\ r.signed = c.theirKX /\ r.key = mcastKey
<1> USE PacketFields DEF KeyExchangeAssumption
<1>1. NoClient \in ClientState /\ NoClient.theirKX = 0 /\ NoClient.state = "none"
  BY DEF NoClient, ClientState
<1>2. ASSUME NEW s \in {"KXKeySent", "Failure"}, NEW k \in 0..MaxRequests
      PROVE  /\ To(c, s) \in ClientState
             /\ To(c, s).theirKX = c.theirKX
             /\ To(c, s).state # "Initial"
             /\ [To(c, s) EXCEPT !.theirKX = k] \in ClientState
             /\ [To(c, s) EXCEPT !.theirKX = k].theirKX = k
             /\ [To(c, s) EXCEPT !.theirKX = k].state # "Initial"
  <2>1. /\ c.pair \in 0..MaxPairs
        /\ c.theirKX \in 0..MaxRequests
    BY DEF ClientState
  <2>2. To(c, s) = [state |-> s, pair |-> c.pair, theirKX |-> c.theirKX, age |-> 0]
    BY DEF To
  <2>3. [To(c, s) EXCEPT !.theirKX = k]
          = [state |-> s, pair |-> c.pair, theirKX |-> k, age |-> 0]
    BY <2>2
  <2>4. 0 \in 0..(Expiry + 1)
    OBVIOUS
  <2> QED
    BY <2>1, <2>2, <2>3, <2>4 DEF ClientState
<1>3. CASE c.state = "Initial"
  <2>1. o \in ClientInitial(c, m)
    BY <1>3 DEF ProcessPacket
  <2>2. CASE m.type = "kx"
    <3>1. m.kx \in 0..MaxRequests
      BY <2>2
    <3>2. \/ /\ o.client = [To(c, "KXKeySent") EXCEPT !.theirKX = m.kx]
             /\ o.send = {KX("requester", m.port, c.pair)}
          \/ /\ o.client = [To(c, "Failure") EXCEPT !.theirKX = m.kx]
             /\ o.send = {}
      BY <2>1, <2>2 DEF ClientInitial
    <3>3. KX("requester", m.port, c.pair) \in KXToRequester
      BY <1>3 DEF KX, KXToRequester
    <3>4. /\ m.kx \in 0..MaxRequests
          /\ o.client = [To(c, "KXKeySent") EXCEPT !.theirKX = m.kx]
             \/ o.client = [To(c, "Failure") EXCEPT !.theirKX = m.kx]
      BY <3>1, <3>2
    <3>5. /\ o.client \in ClientState
          /\ o.client.state # "Initial"
          /\ o.client.theirKX = m.kx
      <4>1. \A st \in {"KXKeySent", "Failure"} :
               LET d == [To(c, st) EXCEPT !.theirKX = m.kx]
               IN  d \in ClientState /\ d.state # "Initial" /\ d.theirKX = m.kx
        BY <1>2, <3>4
      <4>2. CASE o.client = [To(c, "KXKeySent") EXCEPT !.theirKX = m.kx]
        BY <4>1, <4>2
      <4>3. CASE o.client = [To(c, "Failure") EXCEPT !.theirKX = m.kx]
        BY <4>1, <4>3
      <4> QED BY <3>4, <4>2, <4>3
    <3>6. \A r \in o.send : r \in KXToRequester
      BY <3>2, <3>3
    <3> QED
      BY <2>2, <3>5, <3>6
  <2>3. CASE m.type # "kx"
    <3>1. /\ o.client \in {To(c, "Failure"), To(c, "KXKeySent")}
          /\ o.send \in {{}, {KX("requester", m.port, c.pair)}}
      BY <2>1, <2>3 DEF ClientInitial
    <3>2. c.theirKX \in 0..MaxRequests
      BY DEF ClientState
    <3>3. KX("requester", m.port, c.pair) \in KXToRequester
      BY <1>3 DEF KX, KXToRequester
    <3> QED
      BY <1>2, <3>1, <3>2, <3>3
  <2> QED
    BY <2>2, <2>3
<1>4. CASE c.state = "KXKeySent"
  <2>1. o \in ClientKXKeySent(c, m)
    BY <1>4 DEF ProcessPacket
  <2>2. \/ o.client \in {To(c, "Failure"), c} /\ o.send = {}
        \/ /\ o.client = NoClient
           /\ o.send = {ID("requester", m.port, c.theirKX, c.pair, c.theirKX, mcastKey)}
    BY <2>1 DEF ClientKXKeySent
  <2>3. /\ ID("requester", m.port, c.theirKX, c.pair, c.theirKX, mcastKey) \in IDToRequester
        /\ ID("requester", m.port, c.theirKX, c.pair, c.theirKX, mcastKey).signed = c.theirKX
        /\ ID("requester", m.port, c.theirKX, c.pair, c.theirKX, mcastKey).key = mcastKey
    BY DEF ID, IDToRequester, ClientState
  <2>4. c.theirKX \in 0..MaxRequests
    BY DEF ClientState
  <2>5. To(c, "Failure") \in ClientState /\ To(c, "Failure").theirKX = c.theirKX
        /\ To(c, "Failure").state # "Initial"
    BY <1>2, <2>4
  <2> QED
    BY <1>1, <1>4, <2>2, <2>3, <2>5
<1>5. CASE c.state \notin {"Initial", "KXKeySent"}
  <2>1. o.client = c /\ o.send = {}
    BY <1>5 DEF ProcessPacket
  <2> QED
    BY <1>5, <2>1
<1> QED
  BY <1>3, <1>4, <1>5

\* ClearExpired removes clients and changes none.
LEMMA ClearFacts ==
  ASSUME NEW cs \in [Ports -> ClientState], KeyExchangeAssumption
  PROVE  /\ ClearExpired(cs) \in [Ports -> ClientState]
         /\ \A p \in Ports : ClearExpired(cs)[p] = cs[p]
                             \/ /\ ClearExpired(cs)[p].theirKX = 0
                                /\ ClearExpired(cs)[p].state = "none"
<1>1. NoClient \in ClientState /\ NoClient.theirKX = 0 /\ NoClient.state = "none"
  BY DEF NoClient, ClientState, KeyExchangeAssumption
<1> QED
  BY <1>1 DEF ClearExpired

LEMMA InitIInv == Init => IInv
<1> SUFFICES ASSUME Init PROVE IInv
  OBVIOUS
<1> USE KeyExchangeAssumption DEF Init
<1>1. NoClient \in ClientState /\ NoClient.theirKX = 0 /\ NoClient.state = "none"
  BY DEF NoClient, ClientState, KeyExchangeAssumption
<1>2. TypeOK
  <2>1. /\ 0 \in 0..MaxRequests /\ 0 \in 0..MaxPairs
        /\ 0 \in 0..MaxKeys /\ 1 \in 1..MaxKeys
    BY DEF KeyExchangeAssumption
  <2>2. clients \in [Ports -> ClientState]
    BY <1>1
  <2> QED
    BY <2>1, <2>2 DEF TypeOK, NoKey, Garbage
<1>3. KeysKnown /\ AnswersFresh /\ FreshKey /\ keyBefore <= mcastKey
  BY <1>1 DEF KeysKnown, AnswersFresh, FreshKey
<1> QED
  BY <1>2, <1>3 DEF IInv

LEMMA GetKeyIInv ==
  ASSUME IInv, NEW p \in Ports, GetKey(p)
  PROVE  IInv'
<1> USE KeyExchangeAssumption DEF IInv, TypeOK, GetKey, listenerVars, KeyExchangeAssumption
<1>1. /\ KX("listener", p, request + 1) \in KXToListener
      /\ KX("listener", p, request + 1).to = "listener"
      /\ KX("listener", p, request + 1).type = "kx"
      /\ KX("listener", p, request + 1).kx = request + 1
  BY DEF KX, KXToListener
<1>2. TypeOK'
  BY <1>1 DEF Packet, Garbage, NoKey
<1>3. KeysKnown'
  <2>1. ASSUME NEW m \in net', m.to = "listener", m.type = "kx"
        PROVE  m.kx <= request'
    <3>1. CASE m \in net
      <4>1. m.kx \in 1..MaxRequests /\ m.kx <= request
        BY <2>1, <3>1, PacketFields DEF KeysKnown
      <4> QED
        BY <4>1
    <3> QED
      BY <1>1, <3>1
  <2>2. ASSUME NEW q \in Ports
        PROVE  clients[q].theirKX <= request' /\ clients[q].state # "Initial"
    <3>1. clients[q].theirKX \in 0..MaxRequests /\ clients[q].theirKX <= request
      BY DEF KeysKnown, ClientState
    <3> QED
      BY <3>1 DEF KeysKnown
  <2> QED
    BY <2>1, <2>2 DEF KeysKnown
<1>4. AnswersFresh'
  <2> SUFFICES ASSUME NEW m \in net', m.to = "requester", m.type = "id"
               PROVE  m.signed <= request' /\ m.signed # request' /\ m.key <= mcastKey'
    BY DEF AnswersFresh
  <2>1. m \in net
    BY <1>1
  <2>2. m.signed \in 0..MaxRequests /\ m.signed <= request /\ m.key <= mcastKey
    BY <2>1, PacketFields DEF AnswersFresh
  <2> QED
    BY <2>2
<1>5. FreshKey' /\ keyBefore' <= mcastKey'
  BY DEF FreshKey
<1> QED
  BY <1>2, <1>3, <1>4, <1>5

LEMMA RequesterReceiveIInv ==
  ASSUME IInv, NEW m \in net, RequesterReceive(m)
  PROVE  IInv'
<1> USE KeyExchangeAssumption DEF IInv, TypeOK, RequesterReceive, listenerVars,
                                  KeyExchangeAssumption
<1>0. m \in Packet /\ m.to = "requester"
  OBVIOUS
<1>1. CASE RequesterKXKeySent(m)
  <2> USE <1>1 DEF RequesterKXKeySent
  <2>1. rtheirKX' \in 0..MaxPairs
    BY <1>0, PacketFields DEF Garbage
  <2>2. CASE RequesterFails
    BY <2>1, <2>2 DEF RequesterFails, KeysKnown, AnswersFresh, FreshKey
  <2>3. CASE ~RequesterFails
    <3> DEFINE r == ID("listener", port, request, rtheirKX', rtheirKX', NoKey)
    <3>1. r \in IDToListener /\ r.to = "listener" /\ r.type = "id"
      BY <2>1 DEF ID, IDToListener
    <3>2. net' = net \cup {r} /\ rstate' = "IDSent"
          /\ UNCHANGED <<waiting, result, aborted>>
      BY <2>3
    <3> HIDE DEF r
    <3>3. TypeOK'
      BY <2>1, <3>1, <3>2 DEF Packet
    <3>4. KeysKnown' /\ AnswersFresh' /\ FreshKey' /\ keyBefore' <= mcastKey'
      BY <3>1, <3>2 DEF KeysKnown, AnswersFresh, FreshKey
    <3> QED
      BY <3>3, <3>4
  <2> QED
    BY <2>2, <2>3
<1>2. CASE RequesterIDSent(m)
  <2> USE <1>2 DEF RequesterIDSent
  <2>1. CASE m.type = "kx"
    BY <2>1 DEF KeysKnown, AnswersFresh, FreshKey
  <2>2. CASE m.type = "id" /\ RequesterFails
    BY <2>2 DEF RequesterFails, KeysKnown, AnswersFresh, FreshKey
  <2>3. CASE m.type = "id" /\ ~RequesterFails
    <3>1. /\ m.signed = request
          /\ result' = m.key
          /\ rstate' = "Success"
          /\ waiting' = FALSE
          /\ UNCHANGED <<net, aborted>>
      BY <2>3
    <3>2. m.key \in 1..MaxKeys /\ keyBefore <= m.key /\ m.key <= mcastKey
      BY <1>0, <2>3, <3>1, PacketFields DEF AnswersFresh
    <3>3. TypeOK'
      <4>1. result' \in 0..MaxKeys
        BY <3>1, <3>2
      <4> QED
        BY <3>1, <4>1
    <3>4. FreshKey' /\ keyBefore' <= mcastKey'
      BY <3>1, <3>2 DEF FreshKey
    <3>5. KeysKnown' /\ AnswersFresh'
      BY <3>1 DEF KeysKnown, AnswersFresh
    <3> QED
      BY <3>3, <3>4, <3>5
  <2>4. m.type \in {"kx", "id"}
    BY <1>0, PacketFields
  <2> QED
    BY <2>1, <2>2, <2>3, <2>4
<1> QED
  BY <1>1, <1>2

LEMMA ListenerReceiveIInv ==
  ASSUME IInv, NEW m \in net, ListenerReceive(m)
  PROVE  IInv'
<1> USE KeyExchangeAssumption DEF IInv, TypeOK, requesterVars, KeyExchangeAssumption
<1>0. m \in Packet /\ m.to = "listener" /\ m.port \in Ports
  BY PacketFields DEF ListenerReceive
<1> DEFINE c == Client(m.port)
<1>1. /\ c \in ClientState
      /\ c.theirKX <= request
      /\ c.state = "Initial" => c.pair \in 1..MaxPairs
  <2>1. CASE clients[m.port] = NoClient
    <3>1. c = [state |-> "Initial", pair |-> pairs + 1, theirKX |-> 0, age |-> 0]
      BY <2>1 DEF Client, Garbage
    <3>2. pairs + 1 \in 1..MaxPairs
      BY <2>1 DEF ListenerReceive
    <3>3. 0 \in 0..(Expiry + 1) /\ 0 \in 0..MaxRequests
      OBVIOUS
    <3> HIDE DEF c
    <3> QED
      BY <3>1, <3>2, <3>3 DEF ClientState
  <2>2. CASE clients[m.port] # NoClient
    BY <1>0, <2>2 DEF Client, KeysKnown
  <2> QED
    BY <2>1, <2>2
<1> HIDE DEF c
<1>2. PICK o \in ProcessPacket(c, m) :
        /\ clients' = ClearExpired([clients EXCEPT ![m.port] = o.client])
        /\ net' = net \cup o.send
  BY DEF ListenerReceive, c
<1>3. /\ o.client \in ClientState
      /\ o.client.state # "Initial"
      /\ \/ o.client.theirKX \in {0, c.theirKX}
         \/ m.type = "kx" /\ o.client.theirKX = m.kx
      /\ \A r \in o.send :
           \/ r \in KXToRequester
           \/ r \in IDToRequester /\ r.signed = c.theirKX /\ r.key = mcastKey
  BY <1>0, <1>1, OutcomeFacts
<1>4. o.client.theirKX <= request
  BY <1>0, <1>1, <1>3 DEF KeysKnown
<1> DEFINE cs == [clients EXCEPT ![m.port] = o.client]
<1>5. /\ cs \in [Ports -> ClientState]
      /\ \A p \in Ports : cs[p].theirKX <= request /\ cs[p].state # "Initial"
  BY <1>0, <1>3, <1>4 DEF KeysKnown
<1>6. /\ clients' \in [Ports -> ClientState]
      /\ \A p \in Ports : clients'[p].theirKX <= request /\ clients'[p].state # "Initial"
  <2>1. clients' = ClearExpired(cs)
    BY <1>2
  <2> HIDE DEF cs
  <2> QED
    BY <1>5, <2>1, ClearFacts
<1>7. /\ pairs' \in 0..MaxPairs
      /\ UNCHANGED <<mcastKey, aborted>>
      /\ UNCHANGED requesterVars
  BY DEF ListenerReceive
<1>8. net' \subseteq Packet
  BY <1>2, <1>3 DEF Packet
<1>9. ASSUME NEW r \in o.send
      PROVE  /\ r.to = "requester"
             /\ r.type = "id" => r.signed = c.theirKX /\ r.key = mcastKey
  BY <1>3 DEF KXToRequester, IDToRequester
<1>10. TypeOK'
  BY <1>6, <1>7, <1>8
<1>11. KeysKnown'
  BY <1>2, <1>6, <1>7, <1>9 DEF KeysKnown
<1>12. AnswersFresh'
  <2> SUFFICES ASSUME NEW r \in net', r.to = "requester", r.type = "id"
               PROVE  /\ r.signed <= request
                      /\ r.signed = request => keyBefore <= r.key
                      /\ r.key <= mcastKey
    BY <1>7 DEF AnswersFresh
  <2>1. CASE r \in net
    BY <2>1 DEF AnswersFresh
  <2>2. CASE r \in o.send
    BY <1>1, <1>9, <2>2
  <2> QED
    BY <1>2, <2>1, <2>2
<1>13. FreshKey' /\ keyBefore' <= mcastKey'
  BY <1>7 DEF FreshKey
<1> QED
  BY <1>10, <1>11, <1>12, <1>13

LEMMA EnvironmentIInv ==
  ASSUME IInv, SenderRestart \/ Tick
  PROVE  IInv'
<1> USE KeyExchangeAssumption DEF IInv, TypeOK, requesterVars, KeyExchangeAssumption
<1>1. CASE SenderRestart
  <2> USE <1>1 DEF SenderRestart
  <2>1. NoClient \in ClientState /\ NoClient.theirKX = 0 /\ NoClient.state = "none"
    BY DEF NoClient, ClientState
  <2>2. TypeOK'
    BY <2>1
  <2>3. KeysKnown'
    BY <2>1 DEF KeysKnown
  <2>4. AnswersFresh'
    <3> SUFFICES ASSUME NEW m \in net, m.to = "requester", m.type = "id"
                 PROVE  /\ m.signed <= request
                        /\ m.signed = request => keyBefore <= m.key
                        /\ m.key <= mcastKey + 1
      BY DEF AnswersFresh
    <3>1. m.key \in 1..MaxKeys
      BY PacketFields
    <3> QED
      BY <3>1 DEF AnswersFresh
  <2>5. FreshKey' /\ keyBefore' <= mcastKey'
    BY DEF FreshKey
  <2> QED
    BY <2>2, <2>3, <2>4, <2>5
<1>2. CASE Tick
  <2> USE <1>2 DEF Tick
  <2>1. ASSUME NEW p \in Ports
        PROVE  /\ clients'[p] \in ClientState
               /\ clients'[p].theirKX = clients[p].theirKX
               /\ clients'[p].state = clients[p].state
    <3>1. CASE clients'[p] = clients[p]
      BY <3>1
    <3>2. CASE clients'[p] # clients[p]
      <4>1. clients[p].age <= Expiry /\ clients'[p] = [clients[p] EXCEPT !.age = @ + 1]
        BY <3>2
      <4>2. clients[p] \in ClientState /\ clients[p].age \in 0..(Expiry + 1)
        BY DEF ClientState
      <4> QED
        BY <4>1, <4>2 DEF ClientState
    <3> QED
      BY <3>1, <3>2
  <2>2. clients' \in [Ports -> ClientState]
    BY <2>1
  <2>3. TypeOK'
    BY <2>2
  <2>4. KeysKnown' /\ AnswersFresh' /\ FreshKey' /\ keyBefore' <= mcastKey'
    BY <2>1 DEF KeysKnown, AnswersFresh, FreshKey
  <2> QED
    BY <2>3, <2>4
<1> QED
  BY <1>1, <1>2

LEMMA StepIInv == IInv /\ [Next]_vars => IInv'
<1> SUFFICES ASSUME IInv, [Next]_vars PROVE IInv'
  OBVIOUS
<1>1. ASSUME NEW p \in Ports, GetKey(p) PROVE IInv'
  BY <1>1, GetKeyIInv
<1>2. CASE GetKeyTimeout
  BY <1>2 DEF GetKeyTimeout, listenerVars, IInv, TypeOK, KeysKnown, AnswersFresh, FreshKey
<1>3. ASSUME NEW m \in net, RequesterReceive(m) PROVE IInv'
  BY <1>3, RequesterReceiveIInv
<1>4. ASSUME NEW m \in net, ListenerReceive(m) PROVE IInv'
  BY <1>4, ListenerReceiveIInv
<1>5. CASE SenderRestart \/ Tick
  BY <1>5, EnvironmentIInv
<1>6. CASE UNCHANGED vars
  BY <1>6 DEF vars, requesterVars, listenerVars, IInv, TypeOK, KeysKnown, AnswersFresh,
              FreshKey
<1> QED
  BY <1>1, <1>2, <1>3, <1>4, <1>5, <1>6 DEF Next

-----------------------------------------------------------------------------
\* The inductive invariant holds.
THEOREM Invariance == Spec => []IInv
BY InitIInv, StepIInv, PTL DEF Spec

\* Every variable of the exchange keeps its type: the keys noted by a client state
\* and put in a packet are of the right side.
THEOREM TypeCorrect == Spec => []TypeOK
<1>1. IInv => TypeOK
  BY DEF IInv
<1> QED
  BY <1>1, Invariance, PTL

\* KeyRequester::GetKey returns no key the sender had given up before the request
\* began, however late, often or out of order packets arrive.
THEOREM KeyIsFresh == Spec => []FreshKey
<1>1. IInv => FreshKey
  BY DEF IInv
<1> QED
  BY <1>1, Invariance, PTL
=============================================================================
