---------------------------- MODULE MessageCodec ----------------------------
(***************************************************************************)
(* The two external forms of a Message: the binary one of packets and of   *)
(* binary log files (Write, Read), and the one line of text log files and  *)
(* terminals (operator <<, operator >>).                                   *)
(*                                                                         *)
(* A stream is a sequence of elements, each a pair of a kind and a value,  *)
(* and an element stands for the bytes of one encoded field or for one     *)
(* word, number or character.  Names and message texts are sequences of    *)
(* characters.  Positions count the elements before them.                  *)
(***************************************************************************)
EXTENDS Integers, Sequences, SequencesExt, FiniteSetsExt

CONSTANTS
  Zone,      \* from times to what local time is ahead of them by
  MaxText,   \* characters a message can have: 1500 in the code
  MaxName    \* characters a host or a program name can have: 255 in the code

ASSUME MessageCodecAssumption ==
  /\ \A t \in DOMAIN Zone : t \in Nat /\ Zone[t] \in Int
  /\ MaxText \in Nat
  /\ MaxName \in Nat

\* Some letters or digits, and what the code tells apart from them.
Alnum == {"a", "b"}

Chars(s) == [i \in DOMAIN s |-> <<"char", s[i]>>]

-----------------------------------------------------------------------------
(* Facility, Severity                                                      *)

\* A facility is its LOG_ value divided by 8.
FacilityNames ==
  [f \in (0..11) \cup (16..23) |->
     IF f <= 11
     THEN <<"kernel", "user", "mail", "daemon", "auth", "syslog", "lpr", "news", "uucp",
            "cron", "authpriv", "ftp">>[f + 1]
     ELSE <<"local0", "local1", "local2", "local3", "local4", "local5", "local6",
            "local7">>[f - 15]]
local7 == 23
user   == 1

FacilityName(f) == IF f \in DOMAIN FacilityNames THEN FacilityNames[f] ELSE "unknown"

FacilityValue(name) ==
  IF \E f \in DOMAIN FacilityNames : FacilityNames[f] = name
  THEN CHOOSE f \in DOMAIN FacilityNames : FacilityNames[f] = name
  ELSE local7

SeverityNames == <<"emerg", "alert", "crit", "err", "warning", "notice", "info", "debug">>
SeverityTags  == <<"[M]", "[A]", "[C]", "[E]", "[W]", "[N]", "[I]", "[D]">>
emerg == 0
info  == 6
debug == 7

SeverityValue(name) ==
  IF Contains(SeverityNames, name)
  THEN CHOOSE s \in emerg..debug : SeverityNames[s + 1] = name
  ELSE emerg

SeverityTag(s) == IF s \in emerg..debug THEN SeverityTags[s + 1] ELSE "[U]"

-----------------------------------------------------------------------------
(* Message                                                                 *)

\* ShortStrings.
MessageText == {s \in Seq(STRING) : Len(s) <= MaxText}
Name        == {s \in Seq(STRING) : Len(s) <= MaxName}

Message ==
  [timestamp : DOMAIN Zone, facility : DOMAIN FacilityNames, severity : emerg..debug,
   hostname : Name, appname : Name, procid : Nat, message : MessageText]

-----------------------------------------------------------------------------
(* The binary form                                                         *)

WriteTimestamp(t) == <<"timestamp", t>>

IsValidHostname(hn) == hn # <<>> /\ ToSet(hn) \subseteq Alnum \cup {"-", "."}

IsValidAppName(an) == an # <<>> /\ ToSet(an) \subseteq Alnum \cup {"_", ".", "-"}

\* MessageOrigin::Write does not look at the names ...
WriteOrigin(m) == <<<<"string", m.hostname>>, <<"string", m.appname>>, <<"procid", m.procid>>>>

\* ... but Read does.  The forms for compressed files agree with these.
ReadsOrigin(s, p) ==
  /\ p + 3 <= Len(s)
  /\ s[p + 1][1] = "string" /\ IsValidHostname(s[p + 1][2])
  /\ s[p + 2][1] = "string" /\ IsValidAppName(s[p + 2][2])
  /\ s[p + 3][1] = "procid"

WriteHeader(m) ==
  <<WriteTimestamp(m.timestamp), <<"facility", m.facility>>, <<"severity", m.severity>>>>
  \o WriteOrigin(m)

\* MessageHeader::Read: all is there, and both numbers are small enough.
ReadsHeader(s, p) ==
  /\ p + 3 <= Len(s)
  /\ s[p + 1][1] = "timestamp"
  /\ s[p + 2][1] = "facility" /\ s[p + 2][2] <= local7
  /\ s[p + 3][1] = "severity" /\ s[p + 3][2] <= debug
  /\ ReadsOrigin(s, p + 3)

\* Message::Write: the header, then the text behind its length.
Write(m) == WriteHeader(m) \o <<<<"length", Len(m.message)>>>> \o Chars(m.message)

\* Message::Read succeeds at this position of a stream ...
Reads(s, p) ==
  /\ ReadsHeader(s, p)
  /\ p + 7 <= Len(s)
  /\ s[p + 7][1] = "length"
  /\ p + 7 + s[p + 7][2] <= Len(s)

\* ... and reads this.
Read(s, p) ==
  [timestamp |-> s[p + 1][2], facility |-> s[p + 2][2], severity |-> s[p + 3][2],
   hostname |-> s[p + 4][2], appname |-> s[p + 5][2], procid |-> s[p + 6][2],
   message |-> [i \in 1..s[p + 7][2] |-> s[p + 7 + i][2]]]

\* while (msg.Read(is)): the messages up to the first failure.
ReadAll(s) ==
  LET from[p \in 0..Len(s)] ==
        IF Reads(s, p)
        THEN <<Read(s, p)>> \o from[p + 7 + s[p + 7][2]]
        ELSE <<>>
  IN  from[0]

-----------------------------------------------------------------------------
(* The text                                                                *)

Blank == <<"char", " ">>
Newline == <<"char", "\n">>

\* What isspace() says; "VT" is the vertical tab.
SpaceChars == {" ", "\t", "\n", "VT", "\f", "\r"}
IsSpace(e) == e \in {<<"char", c>> : c \in SpaceChars}

\* operator << of Timestamp: local time, and what it is ahead by.
TimestampText(t) == <<"time", [clock |-> t + Zone[t], zone |-> Zone[t]]>>

\* Mutant: the zone is not looked at.
ToMicrosecondsLocal(time) == time.clock

ToMicroseconds(time) == time.clock - time.zone

OriginText(m) ==
  Chars(m.hostname) \o <<Blank>> \o Chars(m.appname)
  \o <<<<"char", "[">>, <<"number", m.procid>>, <<"char", "]">>>>

HeaderText(m) ==
  <<TimestampText(m.timestamp), Blank, <<"word", FacilityName(m.facility)>>, Blank>>
  \o OriginText(m) \o <<<<"char", ":">>, Blank, <<"word", SeverityTag(m.severity)>>>>

\* operator << of Message
Text(m) == HeaderText(m) \o <<Blank>> \o Chars(m.message) \o <<Newline>>

\* The position of the next element, if there is one, that is no space, that is
\* one, that is a newline.
SkipSpace(s, p) == Min({i \in p..Len(s) : i = Len(s) \/ ~IsSpace(s[i + 1])})
SkipWord(s, p)  == Min({i \in p..Len(s) : i = Len(s) \/ IsSpace(s[i + 1])})
SkipLine(s, p)  == Min({i \in p..Len(s) : i = Len(s) \/ s[i + 1] = Newline})

\* is >> word: where the word after this position ends, and the word.
WordEnd(s, p) == SkipWord(s, SkipSpace(s, p))
Word(s, p) == SubSeq(s, SkipSpace(s, p) + 1, WordEnd(s, p))

\* operator >> of MessageHeader: the timestamp is followed by words.
HeaderFields(s, p) ==
  LET f == p + 1
      h == WordEnd(s, f)
      o == WordEnd(s, h)
      v == WordEnd(s, o)
  IN [facility |-> Word(s, f), host |-> Word(s, h), process |-> Word(s, o),
      severity |-> Word(s, v), end |-> WordEnd(s, v)]

\* operator >> of Timestamp fails if what there is is no time, or the time zero.
ParsesTimestamp(s, p) ==
  p < Len(s) /\ s[p + 1][1] = "time" /\ ToMicroseconds(s[p + 1][2]) # 0

\* operator >> of Severity fails if the word is not one of eight.
ParsesSeverity(word) == \E v \in DOMAIN SeverityTags : word = <<<<"word", SeverityTags[v]>>>>

\* operator >> of MessageOrigin looks for a number in brackets after the name.  A
\* program name must be shorter than the longest one there can be, a host name not.
Find(s, c) == Min({i \in DOMAIN s : s[i] = <<"char", c>>} \cup {Len(s) + 1})
ParsesOrigin(host, process) ==
  /\ Len(host) <= MaxName
  /\ Find(process, "[") <= Len(process)
  /\ Find(process, "[") - 1 < MaxName
  /\ Find(process, "]") <= Len(process)
  /\ Find(process, "]") > Find(process, "[") + 1

\* The text of the message: the rest of the line, or, if there is none, the next.
MessageAt(s, p) == SkipSpace(s, HeaderFields(s, p).end)
MessageEnd(s, p) == SkipLine(s, MessageAt(s, p))

\* operator >> of Message succeeds at this position of a stream ...
ParsesLine(s, p) ==
  /\ ParsesTimestamp(s, p)
  /\ ParsesOrigin(HeaderFields(s, p).host, HeaderFields(s, p).process)
  /\ ParsesSeverity(HeaderFields(s, p).severity)
  /\ MessageAt(s, p) < Len(s)
  /\ MessageEnd(s, p) - MessageAt(s, p) <= MaxText

\* ... and reads this.
ParseLine(s, p) ==
  LET f == HeaderFields(s, p)
      open == Find(f.process, "[")
      b == MessageAt(s, p)
  IN [timestamp |-> ToMicroseconds(s[p + 1][2]),
      facility |-> FacilityValue(f.facility[1][2]),
      severity |-> (CHOOSE v \in DOMAIN SeverityTags : SeverityTags[v] = f.severity[1][2]) - 1,
      hostname |-> [i \in DOMAIN f.host |-> f.host[i][2]],
      appname |-> [i \in 1..(open - 1) |-> f.process[i][2]],
      procid |-> f.process[open + 1][2],
      message |-> [i \in 1..(MessageEnd(s, p) - b) |-> s[b + i][2]]]

\* while (is >> msg)
ParseText(s) ==
  LET from[p \in 0..Len(s)] ==
        IF ParsesLine(s, p)
        THEN <<ParseLine(s, p)>> \o from[Min({MessageEnd(s, p) + 1, Len(s)})]
        ELSE <<>>
  IN  from[0]
=============================================================================
