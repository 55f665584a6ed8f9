------------------------------ MODULE MCRouting ------------------------------
(* Routing for TLC: configuration files that differ in what matters to the  *)
(* parser, to the filters and to the paths.                                *)
EXTENDS Routing

Err  == Cmp("severity", ">=", 3)
User == Cmp("facility", "=", 8)
HostA == Match("host", "=", {"a"})
And  == Tok("AND")
Or   == Tok("OR")
Not  == Tok("NOT")
Open  == Tok("LPAREN")
Shut == Tok("RPAREN")

\* Messages of two hosts, two programs, two facilities and two severities.
Msg(h, i, f, s) == [host |-> h, ident |-> i, facility |-> f, severity |-> s, pid |-> 1, msg |-> "m"]
MCMsgs == {Msg("a", "x", 8, 3), Msg("a", "y", 8, 3), Msg("b", "x", 24, 6)}

\* Filter names: one is the beginning of another.
E == <<5>>
ES == <<5, 19>>

MCFilterNames == <<<<1>>, E, ES>>
MCTokens == {Err, User, HostA, And, Or, Not, Open, Shut, Bad, Ref(<<1>>), Ref(E), Ref(ES)}

LogOf(filter, path) == <<Set("filter", filter), Set("path", path)>>
FilesOf(logs) == Stanza("files", <<Set("logs", logs)>>)

\* Two logs, one of them by default below the log directory, in the usual way.
Plain == <<Stanza("filters", <<Set(E, <<Err>>)>>),
           FilesOf(<<LogOf(<<Ref(E)>>, <<"%H", "%I">>), LogOf(<<Not, HostA, And, User>>, <<"/", "%F">>)>>)>>

\* Another directory, a path set twice, both operators, one log with a bad filter.
Moved == <<Stanza("files", <<Set("logDirectory", <<"/", "var">>),
             Set("logs", <<<<Set("path", <<"old">>), Set("filter", <<User, Or, HostA, And, Err>>),
                             Set("path", <<"%H", "%I">>), Set("keep", -1), Set("period", "24h")>>,
                           LogOf(<<Err, Bad>>, <<>>), LogOf(<<Ref(E), Or, User>>, <<>>)>>)>>),
           Stanza("loopback", <<Set("listenV6", "true"), Set("listenV4", "no"),
                                Set("port", 1), Set("port", 2)>>)>>

\* Names defined by others, one of them defined twice; perms and size converted.
Named == <<Stanza("filters", <<Set(E, <<Err>>), Set(<<1>>, <<Ref(E), And, User>>),
                               Set(E, <<HostA>>)>>),
           Stanza("mcast", <<Set("outFilter", <<Ref(<<1>>)>>), Set("groupAddr", "239.108.111.103")>>),
           FilesOf(<<<<Set("filter", <<Ref(<<1>>), Or, Ref(E)>>), Set("perms", 511),
                       Set("size", [digits |-> 2, unit |-> "K"])>>>>)>>

\* A name that begins with another one.
Prefixed == <<Stanza("filters", <<Set(ES, <<User>>), Set(E, <<Err>>)>>),
              FilesOf(<<LogOf(<<Ref(ES)>>, <<"%I">>)>>)>>

\* Two logs with one path; what the first one refuses goes there by the second.
Shared == <<FilesOf(<<Append(LogOf(<<User>>, <<"%H">>), Set("keep", 3)),
                      LogOf(<<Not, User>>, <<"%H">>)>>)>>

\* A number that is too large, behind a stanza.
TooLarge == <<Stanza("service", <<Set("keyDirectory", "d")>>), Overflow>>

\* No log; a rejected port; an empty stanza, `loopback { };'.
NoLogs    == <<Stanza("service", <<Set("keyDirectory", "d")>>)>>
BadPort   == <<Stanza("loopback", <<Set("port", 0), Set("listenV4", "true")>>)>> \o Plain
EmptyStanza == <<Stanza("service", <<Set("keyDirectory", "d")>>), Broken(1),
               FilesOf(<<LogOf(<<HostA>>, <<"%H">>)>>)>>

MCFiles == [plain |-> Plain, moved |-> Moved, named |-> Named, prefixed |-> Prefixed,
            noLogs |-> NoLogs, badPort |-> BadPort, emptyStanza |-> EmptyStanza,
            shared |-> Shared, tooLarge |-> TooLarge, empty |-> <<>>, missing |-> NoFile]

\* The parser agrees with the grammar on every expression of up to four tokens.
ASSUME ParserMatchesGrammar ==
  \A s \in SeqOf({Err, User, And, Or, Not, Open, Shut, Bad}, 4) : \A m \in MCMsgs :
    LET p == parse(s, m)
    IN  Meaning(s, m) = (IF p.rc THEN {p.result} ELSE {}) /\ p.rc = is_valid(s)
=============================================================================
