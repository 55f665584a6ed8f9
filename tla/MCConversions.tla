---------------------------- MODULE MCConversions ----------------------------
(* RollInterval and Pipeline for TLC: conversions of times, and of messages. *)
(* They have nothing to do with each other, so the one that takes the first *)
(* step goes on alone.                                                     *)
EXTENDS RollInterval, Pipeline

\* From the end of January to early March of a common year, with daylight saving
\* time for some days of February.
MCFirstDay == <<0, 31, 59>>
MCMinTime  == 26 * Day + 5
MCDstStart == 33 * Day + 2 * Hour
MCDstEnd   == 37 * Day + Hour
MCMaxTime  == 62 * Day

\* Local time is ahead by one until 5; the times 5 and 6 are the same on the clock.
MCZone == [t \in 0..6 |-> IF t <= 5 THEN 1 ELSE 0]

Msg(time, facility, severity, app, text) ==
  [timestamp |-> time, facility |-> facility, severity |-> severity,
   hostname |-> <<"a", "-", "b">>, appname |-> app, procid |-> 9, message |-> text]

\* An ordinary message; one with no text, one with a program name that Read
\* refuses, and one that no packet has room for.
MCLogged ==
  {Msg(5, 1, 3, <<"a", "_">>, <<"a">>), Msg(6, 23, 6, <<"b">>, <<>>),
   Msg(6, 3, 4, <<"a", " ", "b">>, <<"b">>), Msg(6, 0, 7, <<"b">>, [i \in 1..12 |-> "b"])}

\* Calls of mclogger, with two lines of text, with a name of the greatest length and
\* a priority that is not one, and with a text that begins with a tab.
Command(priority, ident, text) ==
  [timestamp |-> 6, priority |-> priority, hostname |-> <<"b">>, ident |-> ident,
   ppid |-> 8, message |-> text]
MCCommands ==
  {Command(<<"authpriv", "crit">>, <<"a", ".">>, <<"a", "\n">>),
   Command(<<"users", "crit">>, <<"a", ".", "b">>, <<"b">>),
   Command(<<"mail", "err">>, <<"b">>, <<"\t", "b">>)}

ConversionsInit == RollInit /\ PipelineInit /\ (rp = "days_1" \/ (~encrypted /\ ~rkey))

ConversionsNext ==
  \/ /\ total = 0
     /\ RollNext
     /\ UNCHANGED pipelineVars
  \/ /\ rp = "days_1" /\ now = MinTime
     /\ PipelineNext
     /\ UNCHANGED rollVars

ConversionsSpec == ConversionsInit /\ [][ConversionsNext]_<<rollVars, pipelineVars>>
=============================================================================
