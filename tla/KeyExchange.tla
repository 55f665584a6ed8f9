----------------------------- MODULE KeyExchange -----------------------------
(***************************************************************************)
(* How a receiver gets a sender's multicast key: KeyRequester (with        *)
(* KeyRequesterState) on one side, KeyRequestListener (with one            *)
(* KeyRequestClientState per client endpoint) on the other, over UDP.      *)
(*                                                                         *)
(*   requester                              listener                       *)
(*      kx: its public exchange key   --->                                 *)
(*                                    <---  kx: the listener's             *)
(*      id: signed listener's key     --->                                 *)
(*                                    <---  id: signed requester's key     *)
(*                                              and the multicast key      *)
(*                                                                         *)
(* The id packets are encrypted under the shared key of the two exchange   *)
(* keys.  Every request draws a new exchange key and uses a new socket,    *)
(* whose port the system may have used before.  The network loses,         *)
(* duplicates, delays and reorders packets: net holds every packet ever    *)
(* sent, each may be delivered at any time, again, or never.               *)
(* The listener's _clientsDone is left out: nothing reads it.              *)
(***************************************************************************)
EXTENDS Naturals

CONSTANTS
  Ports,         \* ports a request's socket may get
  MaxRequests,   \* bound: calls of GetKey
  MaxPairs,      \* bound: exchange keys the listener draws
  MaxKeys,       \* bound: multicast keys (one per start of the sender)
  Expiry         \* ClearExpired removes what is older: 5 seconds in the code

ASSUME KeyExchangeAssumption ==
  /\ Ports # {}
  /\ MaxRequests \in Nat
  /\ MaxPairs \in Nat
  /\ MaxKeys \in Nat \ {0}
  /\ Expiry \in Nat

VARIABLES
  net,        \* packets that were sent
  request,    \* the current request; also stands for its exchange key
  port,       \* the port of its socket
  waiting,    \* GetKey has not returned
  rstate,     \* KeyRequesterState::_currentState
  rtheirKX,   \* KeyRequesterState::_theirKX
  result,     \* the multicast key GetKey returns
  keyBefore,  \* history: the sender's key when the request began
  clients,    \* KeyRequestListener::_clients
  pairs,      \* exchange keys the listener has drawn so far
  mcastKey,   \* the sender's multicast key
  aborted     \* history: an assertion failed

requesterVars == <<request, port, waiting, rstate, rtheirKX, result, keyBefore>>
listenerVars  == <<clients, pairs, mcastKey>>
vars == <<net, requesterVars, listenerVars, aborted>>

NoKey   == 0        \* no multicast key
Garbage == 0        \* not an exchange key

\* Packets.  An id packet shows the two exchange keys it is encrypted under, the
\* one its signature covers and, from the listener, the multicast key.
KXToListener  == [to : {"listener"}, port : Ports, type : {"kx"}, kx : 1..MaxRequests]
KXToRequester == [to : {"requester"}, port : Ports, type : {"kx"}, kx : 1..MaxPairs]
IDToListener  == [to : {"listener"}, port : Ports, type : {"id"}, theirs : 0..MaxRequests,
                  ours : 0..MaxPairs, signed : 0..MaxPairs, key : {NoKey}]
IDToRequester == [to : {"requester"}, port : Ports, type : {"id"}, theirs : 0..MaxRequests,
                  ours : 0..MaxPairs, signed : 0..MaxRequests, key : 1..MaxKeys]
Packet == KXToListener \cup KXToRequester \cup IDToListener \cup IDToRequester

KX(to, p, kx) == [to |-> to, port |-> p, type |-> "kx", kx |-> kx]
ID(to, p, a, s, signed, key) ==
  [to |-> to, port |-> p, type |-> "id", theirs |-> a, ours |-> s, signed |-> signed,
   key |-> key]

-----------------------------------------------------------------------------
(* The requester                                                           *)

\* Mutant: the key pair of the first request is used for all.
GetKeySamePair(p) ==
  /\ ~waiting
  /\ request < MaxRequests
  /\ request' = 1
  /\ port' = p
  /\ waiting' = TRUE
  /\ rstate' = "KXKeySent"
  /\ rtheirKX' = Garbage
  /\ result' = NoKey
  /\ keyBefore' = mcastKey
  /\ net' = net \cup {KX("listener", p, 1)}
  /\ UNCHANGED aborted
  /\ UNCHANGED listenerVars

\* GetKey opens a socket and sends the public exchange key; a send that fails is a
\* packet that is lost and a request that times out.
GetKey(p) ==
  /\ ~waiting
  /\ request < MaxRequests
  /\ request' = request + 1
  /\ port' = p
  /\ waiting' = TRUE
  /\ rstate' = "KXKeySent"
  /\ rtheirKX' = Garbage
  /\ result' = NoKey
  /\ keyBefore' = mcastKey
  /\ net' = net \cup {KX("listener", p, request + 1)}
  /\ UNCHANGED aborted
  /\ UNCHANGED listenerVars

\* No packet for a second: GetKey returns without a key.
GetKeyTimeout ==
  /\ waiting
  /\ waiting' = FALSE
  /\ UNCHANGED <<net, request, port, rstate, rtheirKX, result, keyBefore, aborted>>
  /\ UNCHANGED listenerVars

RequesterFails ==
  /\ rstate' = "Failure"
  /\ waiting' = FALSE
  /\ UNCHANGED <<net, result, aborted>>

\* KeyRequesterState::KXKeySent.  A late id packet of an earlier request on the
\* same port may or may not read as some exchange key.  SendIdAndSig may fail.
RequesterKXKeySent(m) ==
  /\ rstate = "KXKeySent"
  /\ rtheirKX' = IF m.type = "kx" THEN m.kx ELSE Garbage
  /\ \/ /\ net' = net \cup {ID("listener", port, request, rtheirKX', rtheirKX', NoKey)}
        /\ rstate' = "IDSent"
        /\ UNCHANGED <<waiting, result, aborted>>
     \/ RequesterFails

\* KeyRequesterState::IDSent.  A kx packet, 33 bytes long, fails the assertion
\* of MessagePacket's constructor.
RequesterIDSent(m) ==
  /\ rstate = "IDSent"
  /\ UNCHANGED rtheirKX
  /\ \/ /\ m.type = "kx"
        /\ aborted' = TRUE
        /\ UNCHANGED <<net, waiting, rstate, result>>
     \/ /\ m.type = "id"
        /\ m.theirs = request /\ m.ours = rtheirKX    \* Decrypt
        /\ m.signed = request                         \* IsValidUser
        /\ result' = m.key
        /\ rstate' = "Success"
        /\ waiting' = FALSE
        /\ UNCHANGED <<net, aborted>>
     \/ m.type = "id" /\ RequesterFails

RequesterReceive(m) ==
  /\ waiting
  /\ m.to = "requester"
  /\ m.port = port
  /\ RequesterKXKeySent(m) \/ RequesterIDSent(m)
  /\ UNCHANGED <<request, port, keyBefore>>
  /\ UNCHANGED listenerVars

-----------------------------------------------------------------------------
(* The listener                                                            *)

ClientState == [state : {"none", "Initial", "KXKeySent", "Failure"}, pair : 0..MaxPairs,
                theirKX : 0..MaxRequests, age : 0..(Expiry + 1)]
NoClient == [state |-> "none", pair |-> 0, theirKX |-> 0, age |-> 0]

\* _clients.insert: a new client state with a new key pair unless there is one.
Client(p) ==
  IF clients[p] = NoClient
  THEN [state |-> "Initial", pair |-> pairs + 1, theirKX |-> Garbage, age |-> 0]
  ELSE clients[p]

\* ChangeState also notes the time.
To(c, state) == [state |-> state, pair |-> c.pair, theirKX |-> c.theirKX, age |-> 0]

ClearExpired(cs) == [p \in Ports |-> IF cs[p].age > Expiry THEN NoClient ELSE cs[p]]

\* KeyRequestClientState's states: the possible client states after the packet m,
\* and what is sent.  Mutant: the client's own key is noted as the peer's.
ClientInitialOwnKey(c, m) ==
  {[client |-> [To(c, "KXKeySent") EXCEPT !.theirKX = c.pair],
    send |-> {KX("requester", m.port, c.pair)}]}

ClientInitial(c, m) ==
  IF m.type = "kx"
  THEN {[client |-> [To(c, "KXKeySent") EXCEPT !.theirKX = m.kx],
         send |-> {KX("requester", m.port, c.pair)}],
        [client |-> [To(c, "Failure") EXCEPT !.theirKX = m.kx], send |-> {}]}
  ELSE {[client |-> To(c, "Failure"), send |-> {}],     \* an id packet, but see
        [client |-> To(c, "KXKeySent"),                 \* RequesterKXKeySent
         send |-> {KX("requester", m.port, c.pair)}]}

\* A kx packet is too short here.  A packet that does not decrypt changes nothing;
\* one that does is checked (IsValidUser) and answered, which may fail too.
ClientKXKeySent(c, m) ==
  CASE m.type = "kx" -> {[client |-> To(c, "Failure"), send |-> {}]}
    [] m.type = "id" /\ ~(m.theirs = c.theirKX /\ m.ours = c.pair) ->
         {[client |-> c, send |-> {}]}
    [] OTHER ->
         {[client |-> To(c, "Failure"), send |-> {}],
          [client |-> c, send |-> {}]}
         \cup IF m.signed = c.pair
              THEN {[client |-> NoClient,          \* IDSent: moved to _clientsDone
                     send |-> {ID("requester", m.port, c.theirKX, c.pair, c.theirKX, mcastKey)}]}
              ELSE {}

ProcessPacket(c, m) ==
  CASE c.state = "Initial"   -> ClientInitial(c, m)
    [] c.state = "KXKeySent" -> ClientKXKeySent(c, m)
    [] OTHER                 -> {[client |-> c, send |-> {}]}

\* One turn of KeyRequestListener::Run.
ListenerReceive(m) ==
  /\ m.to = "listener"
  /\ clients[m.port] = NoClient => pairs < MaxPairs
  /\ pairs' = IF clients[m.port] = NoClient THEN pairs + 1 ELSE pairs
  /\ \E o \in ProcessPacket(Client(m.port), m) :
       /\ clients' = ClearExpired([clients EXCEPT ![m.port] = o.client])
       /\ net' = net \cup o.send
  /\ UNCHANGED <<mcastKey, aborted>>
  /\ UNCHANGED requesterVars

-----------------------------------------------------------------------------
(* The environment                                                         *)

\* The sender's mclogd is restarted: a new key, no clients.
SenderRestart ==
  /\ mcastKey < MaxKeys
  /\ mcastKey' = mcastKey + 1
  /\ clients' = [p \in Ports |-> NoClient]
  /\ UNCHANGED <<net, pairs, aborted>>
  /\ UNCHANGED requesterVars

\* A second passes for the listener's clients.
Tick ==
  /\ \E p \in Ports : clients[p] # NoClient /\ clients[p].age <= Expiry
  /\ clients' = [p \in Ports |->
                   IF clients[p] # NoClient /\ clients[p].age <= Expiry
                   THEN [clients[p] EXCEPT !.age = @ + 1]
                   ELSE clients[p]]
  /\ UNCHANGED <<net, pairs, mcastKey, aborted>>
  /\ UNCHANGED requesterVars

-----------------------------------------------------------------------------
Init ==
  /\ net = {}
  /\ request = 0
  /\ port \in Ports
  /\ waiting = FALSE
  /\ rstate = "Initial"
  /\ rtheirKX = Garbage
  /\ result = NoKey
  /\ keyBefore = 1
  /\ clients = [p \in Ports |-> NoClient]
  /\ pairs = 0
  /\ mcastKey = 1
  /\ aborted = FALSE

Next ==
  /\ ~aborted
  /\ \/ \E p \in Ports : GetKey(p)
     \/ GetKeyTimeout
     \/ \E m \in net : RequesterReceive(m) \/ ListenerReceive(m)
     \/ SenderRestart
     \/ Tick

Spec == Init /\ [][Next]_vars

-----------------------------------------------------------------------------
(* Properties                                                              *)

\* Every variable has its type.
TypeOK ==
  /\ net \subseteq Packet
  /\ request \in 0..MaxRequests
  /\ port \in Ports
  /\ waiting \in BOOLEAN
  /\ rstate \in {"Initial", "KXKeySent", "IDSent", "Success", "Failure"}
  /\ rtheirKX \in 0..MaxPairs
  /\ result \in 0..MaxKeys
  /\ keyBefore \in 1..MaxKeys
  /\ clients \in [Ports -> ClientState]
  /\ pairs \in 0..MaxPairs
  /\ mcastKey \in 1..MaxKeys
  /\ aborted \in BOOLEAN

\* A successful request returns a key that the sender had while the request was
\* under way, whatever packets of earlier requests, clients or senders still
\* arrive on its port.
FreshKey == rstate = "Success" => result \in keyBefore..mcastKey
=============================================================================
