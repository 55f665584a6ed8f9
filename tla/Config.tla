------------------------------- MODULE Config -------------------------------
(***************************************************************************)
(* Config::Parse: how a configuration file becomes g_config.               *)
(*                                                                         *)
(* A file is a sequence of items.  A stanza is [kind, sect, settings], a    *)
(* setting is [key, val]; the value of "logs" is a sequence of logs, each  *)
(* a sequence of settings, and the settings of "filters" define names.     *)
(* Broken(n) is a place where the parser fails, with n tokens left before  *)
(* the next stanza: a stray token is Broken(0), a stanza with a syntax     *)
(* error has what follows the error left.  (An empty stanza is one, and so *)
(* is a second setting of a service.)  An INTEGER is what remains of it in *)
(* an int, so it may be negative; Overflow is one that no long can hold.   *)
(*                                                                         *)
(* A filter expression is a sequence of the tokens of MessageFilter, or of *)
(* Ref(name) where it says $name.  Names are sequences of letters, letters *)
(* are numbers, since the code depends on prefixes and on the order of     *)
(* names.                                                                  *)
(*                                                                         *)
(* The scanner is a global one.  Nothing restarts it between two calls of  *)
(* Parse: only at the end of a file does it start afresh.  What a failed   *)
(* Parse has not read of its file is there for the next one.  (Files end   *)
(* in a newline, end every string they begin, and are shorter than the     *)
(* scanner's buffer, so that the rest is all in memory.)                   *)
(***************************************************************************)
EXTENDS MessageFilter

CONSTANTS
  NoFile,       \* a configuration file that cannot be opened
  FilterNames   \* the names that filters can have, in the order of a std::map

VARIABLES
  config,   \* g_config
  scanner   \* what is left of an earlier file

configVars == <<config, scanner>>

Stanza(s, settings) == [kind |-> "stanza", sect |-> s, settings |-> settings]
Set(k, v) == [key |-> k, val |-> v]
Broken(n) == [kind |-> "broken", left |-> n]
Overflow  == [kind |-> "overflow"]
Ref(n)    == [kind |-> "ref", name |-> n]

-----------------------------------------------------------------------------
(* What a file can be                                                      *)

Expr == Seq(Tokens)

\* The grammar has no empty list.
SomeOf(S) == Seq(S) \ {<<>>}

LogSetting ==
  [key : {"filter"}, val : Expr] \cup [key : {"path"}, val : Seq(STRING)]
  \cup [key : {"perms", "keep"}, val : Int] \cup [key : {"size"}, val : [digits : Nat, unit : STRING]]
  \cup [key : {"period", "user", "group", "compress", "format"}, val : STRING]

SettingsOf ==
  [loopback |-> [key : {"listenV4", "listenV6"}, val : STRING] \cup [key : {"port"}, val : Int],
   mcast    |-> [key : {"groupAddr", "groupAddr6", "intfAddr", "intfAddr6", "intfName"}, val : STRING]
                \cup [key : {"port"}, val : Int] \cup [key : {"outFilter"}, val : Expr],
   service  |-> [key : {"keyDirectory"}, val : STRING],
   files    |-> [key : {"logDirectory"}, val : Seq(STRING)] \cup [key : {"logs"}, val : SomeOf(SomeOf(LogSetting))],
   filters  |-> [key : ToSet(FilterNames), val : Expr]]

StanzaOf(s) == [kind : {"stanza"}, sect : {s}, settings : SomeOf(SettingsOf[s])]

\* A service stanza has one setting.
ServiceStanza == {st \in StanzaOf("service") : Len(st.settings) = 1}

Item ==
  StanzaOf("loopback") \cup StanzaOf("mcast") \cup ServiceStanza \cup StanzaOf("files")
  \cup StanzaOf("filters") \cup [kind : {"broken"}, left : Nat] \cup {Overflow}

-----------------------------------------------------------------------------
(* Named filters                                                           *)

\* The text of $name is replaced wherever it stands, also where it is only the
\* beginning of a longer name; the rest of that name then follows, which is no
\* part of any expression.
Replace(expr, name, value) ==
  FlattenSeq([i \in DOMAIN expr |->
    IF expr[i].kind = "ref" /\ IsPrefix(name, expr[i].name)
    THEN value \o (IF expr[i].name = name THEN <<>> ELSE <<Bad>>)
    ELSE <<expr[i]>>])

\* The order of the keys of a std::map.
Before(m, n) ==
  \/ IsStrictPrefix(m, n)
  \/ \E i \in DOMAIN m \cap DOMAIN n : m[i] < n[i] /\ \A j \in 1..(i - 1) : m[j] = n[j]

ASSUME FilterNamesAssumption ==
  /\ FilterNames \in Seq(Seq(Nat))
  /\ \A j \in DOMAIN FilterNames : \A i \in 1..(j - 1) : Before(FilterNames[i], FilterNames[j])

ExpandFilterExpr(names, value) ==
  FoldLeft(LAMBDA e, n : IF n \in DOMAIN names THEN Replace(e, n, names[n]) ELSE e,
           value, FilterNames)

\* insert() leaves a name that is defined already as it is.
Insert(names, s) ==
  [n \in DOMAIN names \cup {s.key} |->
     IF n \in DOMAIN names THEN names[n] ELSE ExpandFilterExpr(names, s.val)]

FilterList(settings) == FoldLeft(Insert, <<>>, settings)

-----------------------------------------------------------------------------
(* Settings and stanzas                                                    *)

LoopbackInit == [listenV4 |-> TRUE, listenV6 |-> FALSE, port |-> 3737]
McastInit    == [groupAddr |-> "239.108.111.103", groupAddr6 |-> "ff02::6d:636c:6f67",
                 intfAddr |-> "0.0.0.0", intfAddr6 |-> "::", intfName |-> "",
                 port |-> 3737, outFilter |-> <<>>]
ServiceInit  == [keyDirectory |-> "/usr/local/etc/mclogd"]
LogInit      == [filter |-> <<>>, path |-> <<"%H", "%I">>, perms |-> 420, period |-> "1d",
                 size |-> 0, keep |-> 7, user |-> "", group |-> "",
                 compress |-> "bzip2", format |-> "text"]
FilesInit    == [logDirectory |-> <<"/", "mclog">>, logs |-> <<>>]

SectInit == [loopback |-> LoopbackInit, mcast |-> McastInit,
             service |-> ServiceInit, files |-> FilesInit]

\* 0 == (perms & 07133): of the lower twelve bits none that 0644 has not, and of
\* those above any.
PermsOk(p) == p % 4096 \in {256 * a + 128 * b + 32 * c + 4 * d : a, b, c, d \in 0..1}

GetRollPeriod(s) ==
  CASE s = "60m" -> "1h"
    [] s \in {"5m", "15m", "30m", "1h", "2h", "4h", "6h", "8h", "12h", "1d", "7d"} -> s
    [] OTHER -> "1d"

\* A size is digits and a unit; what is not counts as no digits.
LogSize(s) ==
  s.digits * (CASE s.unit = "k" -> 1000       [] s.unit = "K" -> 1024
                [] s.unit = "m" -> 1000000    [] s.unit = "M" -> 1048576
                [] s.unit = "g" -> 1000000000 [] s.unit = "G" -> 1073741824
                [] OTHER -> 1)

\* What a setting of a log assigns, with the names known by now, and a log: its
\* settings are assigned in turn, over the defaults.
LogValue(names, s) ==
  CASE s.key = "filter" -> ExpandFilterExpr(names, s.val)
    [] s.key = "perms"  -> IF PermsOk(s.val) THEN s.val ELSE 420
    [] s.key = "period" -> GetRollPeriod(s.val)
    [] s.key = "size"   -> LogSize(s.val)
    [] s.key = "keep"   -> IF s.val >= 0 THEN s.val ELSE 7
    [] OTHER -> s.val

Log(names, settings) ==
  FoldLeft(LAMBDA log, s : [log EXCEPT ![s.key] = LogValue(names, s)], LogInit, settings)

\* The same for a stanza.
StanzaValue(names, s) ==
  CASE s.key = "listenV4"  -> s.val # "false"
    [] s.key = "listenV6"  -> s.val = "true"
    [] s.key = "outFilter" -> ExpandFilterExpr(names, s.val)
    [] s.key = "logs"      -> [i \in DOMAIN s.val |-> Log(names, s.val[i])]
    [] OTHER -> s.val

Section(names, st) ==
  FoldLeft(LAMBDA sect, s : [sect EXCEPT ![s.key] = StanzaValue(names, s)],
           SectInit[st.sect], st.settings)

\* A stanza that is complete replaces its section of g_config.
Reduce(cfg, st) ==
  [cfg EXCEPT ![st.sect] =
     IF st.sect = "filters" THEN FilterList(st.settings) ELSE Section(cfg.filters, st)]

\* Values for which the action of the grammar returns 1.  (The name of a service
\* stands for its port, or for 0 if there is none.)
MulticastAddrs == {McastInit.groupAddr, McastInit.groupAddr6}
Rejected(s) ==
  \/ s.key = "port" /\ s.val \notin 1..65535
  \/ s.key \in {"groupAddr", "groupAddr6"} /\ s.val \notin MulticastAddrs
  \/ s.key = "intfAddr6" /\ s.val = "::"

RejectedIn(st) ==
  IF st.sect \in {"loopback", "mcast"}
  THEN {i \in DOMAIN st.settings : Rejected(st.settings[i])} ELSE {}

\* The tokens of a stanza after a rejected setting: four per setting, then "};".  A
\* port is rejected before its semicolon is read.
TokensLeft(st) ==
  LET i == Min(RejectedIn(st))
  IN  4 * (Len(st.settings) - i) + 2 + (IF st.settings[i].key = "port" THEN 1 ELSE 0)

\* Whether the parser accepts an item.
Parses(item) == item.kind = "stanza" /\ RejectedIn(item) = {}

\* What is left of an item on which the parser failed.
Remnant(item) ==
  CASE item.kind = "stanza" -> <<Broken(TokensLeft(item) - 1)>>
    [] item.kind = "broken" /\ item.left > 0 -> <<Broken(item.left - 1)>>
    [] OTHER -> <<>>

-----------------------------------------------------------------------------
(* Config::Parse                                                           *)

Clean == <<>>

\* Mutant: Init() leaves the log files as they are.
InitConfigKeepFiles(cfg) ==
  [loopback |-> LoopbackInit, mcast |-> McastInit, service |-> ServiceInit,
   files |-> cfg.files, filters |-> cfg.filters]

\* Config::Init does not clear the named filters.
InitConfig(cfg) ==
  [loopback |-> LoopbackInit, mcast |-> McastInit, service |-> ServiceInit,
   files |-> FilesInit, filters |-> cfg.filters]

ConfigInit ==
  /\ config = [loopback |-> LoopbackInit, mcast |-> McastInit, service |-> ServiceInit,
               files |-> FilesInit, filters |-> <<>>]
  /\ scanner = Clean

\* The items the parser is given, and how many of them it accepts.
Input(f) == scanner \o f
Accepted(f) ==
  LET bad == {i \in DOMAIN Input(f) : ~Parses(Input(f)[i])}
  IN  IF bad = {} THEN Len(Input(f)) ELSE Min(bad) - 1

\* What Parse returns.  An empty file is a syntax error.
ParseOk(f) == f # NoFile /\ Input(f) # <<>> /\ Accepted(f) = Len(Input(f))

\* On an Overflow std::stol throws, which nothing catches: std::terminate.
Throws(f) ==
  f # NoFile /\ Accepted(f) < Len(Input(f)) /\ Input(f)[Accepted(f) + 1] = Overflow

\* g_config is reset in any case, and has every stanza read before an error.  The
\* file is read only when what was left is used up.
Parse(f) ==
  IF f = NoFile
  THEN config' = InitConfig(config) /\ UNCHANGED scanner
  ELSE LET n == Accepted(f)
           read == IF n < Len(scanner) THEN scanner ELSE Input(f)
           failing == SubSeq(read, n + 1, Len(read))
       IN /\ config' = FoldLeft(Reduce, InitConfig(config), SubSeq(Input(f), 1, n))
          /\ scanner' = IF failing = <<>> THEN Clean ELSE Remnant(Head(failing)) \o Tail(failing)

-----------------------------------------------------------------------------
(* The reference: what a file says                                         *)

WellFormed(f) == f # NoFile /\ f # <<>> /\ \A i \in DOMAIN f : Parses(f[i])

Substitute(expr, ValueOf(_), Defined(_)) ==
  FlattenSeq([i \in DOMAIN expr |->
    IF expr[i].kind = "ref" /\ Defined(expr[i].name) THEN ValueOf(expr[i].name) ELSE <<expr[i]>>])

\* A definition may use the names defined before it; the first one of a name counts.
Definitions(settings) ==
  LET First(n) == Min({i \in DOMAIN settings : settings[i].key = n})
      Known(n, i) == \E j \in 1..(i - 1) : settings[j].key = n
      V[i \in DOMAIN settings] ==
        Substitute(settings[i].val, LAMBDA n : V[First(n)], LAMBDA n : Known(n, i))
  IN  [n \in {settings[i].key : i \in DOMAIN settings} |-> V[First(n)]]

Stanzas(f, sect, n) == {i \in 1..n : f[i].sect = sect}

\* The names that stanza n may use: of the last filters stanza before it, else
\* of the configuration before this one.
NamesAt(f, n, before) ==
  IF Stanzas(f, "filters", n - 1) = {} THEN before
  ELSE Definitions(f[Max(Stanzas(f, "filters", n - 1))].settings)

\* A key has the value of its last setting, or the default.
Chosen(default, settings, ValueOf(_)) ==
  [k \in DOMAIN default |->
     LET I == {i \in DOMAIN settings : settings[i].key = k}
     IN  IF I = {} THEN default[k] ELSE ValueOf(settings[Max(I)])]

\* Filters are replaced by what they say there, so that no name is left to expand.
FileMeaning(f, before) ==
  LET Said(n, s) ==
        LET names == NamesAt(f, n, before)
        IN  IF s.key \notin {"filter", "outFilter"} THEN s
            ELSE Set(s.key, Substitute(s.val, LAMBDA m : names[m], LAMBDA m : m \in DOMAIN names))
      SettingOf(n, s) ==
        IF s.key = "logs"
        THEN [i \in DOMAIN s.val |->
                Chosen(LogInit, s.val[i], LAMBDA t : LogValue(<<>>, Said(n, t)))]
        ELSE StanzaValue(<<>>, Said(n, s))
      Sect(sect) == IF Stanzas(f, sect, Len(f)) = {} THEN SectInit[sect]
                    ELSE LET n == Max(Stanzas(f, sect, Len(f)))
                         IN Chosen(SectInit[sect], f[n].settings, LAMBDA s : SettingOf(n, s))
  IN [s \in {"loopback", "mcast", "service", "files", "filters"} |->
        IF s = "filters" THEN NamesAt(f, Len(f) + 1, before) ELSE Sect(s)]

\* No name begins with another one.  (mclogd.cfg(5) leaves a name that is used
\* before it is defined undefined; such files are not compared either.)
Unambiguous(names) == \A m, n \in names : ~IsStrictPrefix(m, n)
=============================================================================
