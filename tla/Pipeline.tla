------------------------------ MODULE Pipeline ------------------------------
(***************************************************************************)
(* The path of a log message through buffers and formats: a sender packs   *)
(* messages into a MessagePacket and sends it; a receiver reads them out   *)
(* of its own buffer and passes them to its sinks, among them a binary log *)
(* file; and the mclog program prints that file, all or what a filter      *)
(* passes, as text.  Both buffers are used again for the next packet       *)
(* without being cleared.                                                  *)
(*                                                                         *)
(* The sender is LoopbackSender, whose packets are not encrypted, or       *)
(* MulticastSender, whose packets are; the model chooses one.  The packets *)
(* of mclogger, one message each, go to the same receiver as the former's. *)
(* Threads and queues are BatchSender's and FileLogger's matter.           *)
(***************************************************************************)
EXTENDS MessageCodec

CONSTANTS
  Room,         \* elements the payload of a sender's packet has room for
  MaxMessages,  \* bound: messages logged
  Logged,       \* messages that programs log
  Commands      \* what mclogger is called with: priority, ident and message

ASSUME PipelineAssumption ==
  /\ Room \in Nat /\ MaxMessages \in Nat
  /\ Logged \subseteq Message
  /\ Commands \subseteq [timestamp : DOMAIN Zone, priority : STRING \X STRING,
                         hostname : Name, ident : Name, ppid : Nat, message : MessageText]

VARIABLES
  encrypted,  \* whether the sender is MulticastSender
  rkey,       \* whether the receiver has the sender's key
  pkt,        \* the sender's MessagePacket: _buf and _payloadLength
  held,       \* history: the messages added to it
  net,        \* the datagram under way: what is in it, and history: its messages
  rbuf,       \* the receiver's buffer
  sunk,       \* history: the messages passed to the sinks
  logFile,    \* the binary log file
  total       \* history: how many messages were logged

pipelineVars == <<encrypted, rkey, pkt, held, net, rbuf, sunk, logFile, total>>

None == <<>>
Junk == <<"junk">>

-----------------------------------------------------------------------------
(* MessagePacket                                                           *)

\* Overwrite a buffer from a position on with what there is room for.
Put(buf, p, s) ==
  [i \in DOMAIN buf |-> IF i > p /\ i <= p + Len(s) THEN s[i - p] ELSE buf[i]]

Fits(p, m) == p.len + Len(Write(m)) <= Len(p.buf)

\* A message that does not fit is written as far as possible, and then the put
\* position is set back.
Add(p, m) ==
  [buf |-> Put(p.buf, p.len, Write(m)),
   len |-> IF Fits(p, m) THEN p.len + Len(Write(m)) ELSE p.len]

Reset(p) == [p EXCEPT !.len = 0]

HasPayload(p) == p.len > 0

Cipher(s) == [i \in DOMAIN s |-> <<"cipher", s[i]>>]

\* In place.
Encrypt(p) == [p EXCEPT !.buf = Put(p.buf, 0, Cipher(SubSeq(p.buf, 1, p.len)))]

\* sendto(), of the nonce, the payload and the MAC: nothing else of the buffer.
Datagram(p, msgs) == <<[data |-> SubSeq(p.buf, 1, p.len), msgs |-> msgs]>>

\* recvfrom().
Received(buf, d) == Put(buf, 0, d.data)

\* Decrypt, in place.  With the wrong key it clears the payload and fails.
Decrypt(buf, len, ok) ==
  Put(buf, 0, [i \in 1..len |-> IF ok THEN buf[i][2] ELSE Junk])

\* Mutant: the payload is the whole buffer.
PayloadAll(buf, len, ok) == IF ok THEN buf ELSE <<>>

\* The payload that the receiver's packet then has.
Payload(buf, len, ok) == IF ok THEN SubSeq(buf, 1, len) ELSE <<>>

-----------------------------------------------------------------------------
(* The senders                                                             *)

Ready(p) == IF encrypted THEN Encrypt(p) ELSE p

\* One turn of the loop in Run: if there is no room for the message, what there
\* is goes out first.  The second Add may fail as well.
RunAdd(m) ==
  /\ total < MaxMessages
  /\ total' = total + 1
  /\ IF Fits(pkt, m)
     THEN /\ pkt' = Add(pkt, m)
          /\ held' = Append(held, m)
          /\ UNCHANGED net
     ELSE LET out   == Ready(Add(pkt, m))
              again == Add(Reset(out), m)
          IN /\ net = None
             /\ net' = Datagram(out, held)
             /\ pkt' = again
             /\ held' = IF HasPayload(again) THEN <<m>> ELSE <<>>
  /\ UNCHANGED <<encrypted, rkey, rbuf, sunk, logFile>>

\* Run after a second without a message.
RunSend ==
  /\ net = None
  /\ HasPayload(pkt)
  /\ net' = Datagram(Ready(pkt), held)
  /\ pkt' = Reset(Ready(pkt))
  /\ held' = <<>>
  /\ UNCHANGED <<encrypted, rkey, rbuf, sunk, logFile, total>>

\* GetPriorityInfo: two names, or else user.info.
GetPriorityInfo(priority) ==
  IF /\ \E f \in DOMAIN FacilityNames : FacilityNames[f] = priority[1]
     /\ Contains(SeverityNames, priority[2])
  THEN <<FacilityValue(priority[1]), SeverityValue(priority[2])>>
  ELSE <<user, info>>

MakeMessage(c) ==
  [timestamp |-> c.timestamp, facility |-> GetPriorityInfo(c.priority)[1],
   severity |-> GetPriorityInfo(c.priority)[2], hostname |-> c.hostname,
   appname |-> c.ident, procid |-> c.ppid, message |-> c.message]

\* main() of mclogger: the packet goes out, with the message or without.
Mclogger(c) ==
  /\ ~encrypted
  /\ net = None
  /\ total < MaxMessages
  /\ total' = total + 1
  /\ LET empty == [buf |-> [i \in 1..Room |-> Junk], len |-> 0]
         p == Add(empty, MakeMessage(c))
     IN net' = Datagram(p, IF HasPayload(p) THEN <<MakeMessage(c)>> ELSE <<>>)
  /\ UNCHANGED <<encrypted, rkey, pkt, held, rbuf, sunk, logFile>>

-----------------------------------------------------------------------------
(* The receiver                                                            *)

Lose ==
  /\ net # None
  /\ net' = None
  /\ UNCHANGED <<encrypted, rkey, pkt, held, rbuf, sunk, logFile, total>>

\* LoopbackReceiver::Run, or MulticastReceiver::Run and ProcessPacket, for one
\* datagram: the messages that can be read go to the sinks.  One without any
\* payload is too short and ignored.  LogFile::Process writes to the binary file.
Receive ==
  /\ net # None
  /\ LET d   == net[1]
         len == Len(d.data)
         raw == Received(rbuf, d)
         buf == IF encrypted /\ len > 0 THEN Decrypt(raw, len, rkey) ELSE raw
         got == ReadAll(Payload(buf, len, len > 0 /\ (encrypted => rkey)))
     IN /\ rbuf' = buf
        /\ sunk' = sunk \o got
        /\ logFile' = logFile \o FlattenSeq([i \in DOMAIN got |-> Write(got[i])])
  /\ net' = None
  /\ UNCHANGED <<encrypted, rkey, pkt, held, total>>

-----------------------------------------------------------------------------
(* mclog                                                                   *)

\* operator << if there is no filter or it passes the message (MySink::Process).
Show(m, passes) == IF m \in passes THEN Text(m) ELSE <<>>

\* ProcessFile: what can be read of the file.  The file is not changed, so this is
\* no action; mclog may run at any time.
Mclog(file, passes) ==
  FlattenSeq([i \in DOMAIN ReadAll(file) |-> Show(ReadAll(file)[i], passes)])

-----------------------------------------------------------------------------
AllMessages == Logged \cup {MakeMessage(c) : c \in Commands}

\* The filters mclog is given: none, or one that passes some of the messages.
Filters == {AllMessages, {m \in AllMessages : m.severity <= 4}}

PipelineInit ==
  /\ encrypted \in BOOLEAN
  /\ rkey \in BOOLEAN
  /\ pkt = [buf |-> [i \in 1..Room |-> Junk], len |-> 0]
  /\ held = <<>>
  /\ net = None
  /\ rbuf = [i \in 1..Room |-> Junk]
  /\ sunk = <<>>
  /\ logFile = <<>>
  /\ total = 0

PipelineNext ==
  \/ \E m \in Logged : RunAdd(m)
  \/ RunSend
  \/ \E c \in Commands : Mclogger(c)
  \/ Lose
  \/ Receive

PipelineSpec == PipelineInit /\ [][PipelineNext]_pipelineVars

-----------------------------------------------------------------------------
(* Properties                                                              *)

\* The longest beginning of a sequence whose messages are all in a set.
Prefix(s, good) ==
  SubSeq(s, 1, Max({n \in 0..Len(s) : \A i \in 1..n : s[i] \in good}))

HasValidOrigin(m) == IsValidHostname(m.hostname) /\ IsValidAppName(m.appname)

\* The sinks get from a packet what its sender added to it: not a message that
\* did not fit, nor a part of it, nor what an earlier packet left in a buffer.
\* But a message with an invalid origin, which Write writes and Read refuses, is
\* lost together with all that follow it in the packet; and so is everything
\* under a wrong key.
DeliveredAsAdded ==
  [][Receive => sunk' = sunk \o
       (IF encrypted /\ ~rkey THEN <<>>
        ELSE Prefix(net[1].msgs, {m \in AllMessages : HasValidOrigin(m)}))]_pipelineVars

\* A message whose line can be read again: the text is there, begins with no
\* space and has no second line, the program's name is shorter than a name can be,
\* and it is not from the first second of 1970.
HasOneLine(m) ==
  /\ m.message # <<>>
  /\ m.message[1] \notin SpaceChars
  /\ ~Contains(m.message, "\n")
  /\ Len(m.appname) < MaxName
  /\ m.timestamp # 0

\* What a filter passes.
Passed(s, passes) ==
  FlattenSeq([i \in DOMAIN s |-> IF s[i] \in passes THEN <<s[i]>> ELSE <<>>])

\* What mclog prints, read again with operator >>, is what the sinks got as far as
\* the filter passes it, in the same order and field for field, in spite of two
\* formats, local time and abbreviations; up to the first message that has no line
\* that can be read again (an empty text, for one, swallows the next line).
ShownAsLogged ==
  \A f \in Filters :
    LET passed   == Passed(sunk, f)
        readable == Prefix(passed, {m \in AllMessages : HasOneLine(m)})
        again    == ParseText(Mclog(logFile, f))
    IN  IsPrefix(readable, again) /\ (readable = passed => again = passed)
=============================================================================
