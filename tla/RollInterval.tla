---------------------------- MODULE RollInterval ----------------------------
(***************************************************************************)
(* RollInterval: when a log file is due to be rolled.  The end of the      *)
(* interval is the next mark on the clock or the calendar, in local time;  *)
(* its start is the end less the length of the period.  A LogFile asks for *)
(* the interval of the current time whenever it is made or opens its file. *)
(*                                                                         *)
(* Time is in seconds.  Day 0 is the first day of the first month, and     *)
(* local time is ahead of it by one hour from DstStart until DstEnd.       *)
(***************************************************************************)
EXTENDS Integers, Sequences, FiniteSetsExt

CONSTANTS
  FirstDay,    \* the day on which each month begins
  DstStart,    \* when daylight saving time starts
  DstEnd,      \* ... and when it ends
  Step,        \* bound: the times looked at are its multiples, and those at the marks
  MinTime,     \* bound: when time begins
  MaxTime      \* bound: the last second

ASSUME RollIntervalAssumption ==
  /\ FirstDay \in Seq(Nat) /\ Len(FirstDay) > 0 /\ FirstDay[1] = 0
  /\ \A m \in 2..Len(FirstDay) : FirstDay[m] - FirstDay[m - 1] \in 28..31
  /\ DstStart \in Nat /\ DstEnd \in Nat /\ DstStart < DstEnd
  /\ Step \in Nat \ {0}
  /\ MinTime \in Nat /\ MaxTime \in Nat

VARIABLES
  rp,       \* _rp
  endTime,  \* _endTime
  now,      \* the time
  setAt     \* history: when endTime was computed

rollVars == <<rp, endTime, now, setAt>>

Hour == 3600
Day  == 24 * Hour

\* g_incrementInfo: the field that is advanced, the marks in it, the length.
Info(field, amount, secs) == [field |-> field, amount |-> amount, secs |-> secs]
IncrementInfo ==
  [minutes_5  |-> Info("min", 5, 300),     minutes_15 |-> Info("min", 15, 900),
   minutes_30 |-> Info("min", 30, 1800),   hours_1    |-> Info("hour", 1, 3600),
   hours_2    |-> Info("hour", 2, 7200),   hours_4    |-> Info("hour", 4, 14400),
   hours_6    |-> Info("hour", 6, 21600),  hours_8    |-> Info("hour", 8, 28800),
   hours_12   |-> Info("hour", 12, 43200), days_1     |-> Info("mday", 1, 86400),
   days_7     |-> Info("mday", 7, 604800)]

RollPeriods == DOMAIN IncrementInfo

-----------------------------------------------------------------------------
(* localtime_r and mktime                                                  *)

IsDst(t) == DstStart <= t /\ t < DstEnd
Offset(isdst) == IF isdst THEN Hour ELSE 0

MonthOf(day) == Max({m \in DOMAIN FirstDay : FirstDay[m] <= day})

localtime(t) ==
  LET l == t + Offset(IsDst(t))
      d == l \div Day
      m == MonthOf(d)
  IN [mon |-> m, mday |-> d - FirstDay[m] + 1, hour |-> (l \div Hour) % 24,
      min |-> (l \div 60) % 60, sec |-> l % 60, isdst |-> IsDst(t)]

\* Fields beyond their range carry over.  tm_isdst is taken at its word, also for
\* a time at which it no longer holds.
mktime(tm) ==
  (FirstDay[tm.mon] + tm.mday - 1) * Day + tm.hour * Hour + tm.min * 60 + tm.sec
    - Offset(tm.isdst)

-----------------------------------------------------------------------------
(* The interval                                                            *)

\* Mutant: a time on a mark does not go on to the next one.
MarkStay(amount, value) == amount * ((value + amount - 1) \div amount)

\* The loop of NextMark: the first multiple of the amount beyond the value.
Mark(amount, value) == amount * (value \div amount + 1)

\* Mutant: the fields below the mark keep their values.
AtMarkKeep(tm, field, mark) == [tm EXCEPT ![field] = mark]

\* The field is set to the mark and those below it to zero.
AtMark(tm, field, mark) ==
  CASE field = "mday" -> [tm EXCEPT !.mday = mark, !.hour = 0, !.min = 0, !.sec = 0]
    [] field = "hour" -> [tm EXCEPT !.hour = mark, !.min = 0, !.sec = 0]
    [] field = "min"  -> [tm EXCEPT !.min = mark, !.sec = 0]

NextMark(p, t) ==
  LET info == IncrementInfo[p]
      tm   == localtime(t)
  IN  mktime(AtMark(tm, info.field, Mark(info.amount, tm[info.field])))

StartTime == endTime - IncrementInfo[rp].secs

SetToCurrent ==
  /\ endTime' = NextMark(rp, now)
  /\ setAt' = now
  /\ UNCHANGED <<rp, now>>

\* Time passes, to the last second of the interval, to its end, or to the
\* next multiple of Step, in the interval or beyond.
Pass ==
  /\ now < endTime
  /\ \E t \in {Step * (now \div Step + 1), endTime - 1, endTime} :
       t > now /\ t <= MaxTime /\ now' = t
  /\ UNCHANGED <<rp, endTime, setAt>>

\* A RollInterval is made.
RollInit ==
  /\ rp \in RollPeriods
  /\ now = MinTime
  /\ setAt = MinTime
  /\ endTime = NextMark(rp, MinTime)

RollNext == SetToCurrent \/ Pass

RollSpec == RollInit /\ [][RollNext]_rollVars

-----------------------------------------------------------------------------
(* Properties                                                              *)

\* "Set the roll interval to the interval that spans the current time": so it
\* does, across the ends of months and the changes of daylight saving time.
SpansNow == StartTime <= setAt /\ setAt < endTime

\* Whoever asks again before the interval is over gets the same interval, so that a
\* log file that is opened anew is neither rolled early nor late.  This is so
\* unless daylight saving time has started or ended meanwhile, and for periods of
\* seven days only within a month: their marks are the days 7, 14, 21, 28 and 35.
SameInterval ==
  /\ now < endTime
  /\ IsDst(now) = IsDst(setAt)
  /\ rp = "days_7" => localtime(now).mon = localtime(setAt).mon
  => NextMark(rp, now) = endTime
=============================================================================
