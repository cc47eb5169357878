------------------------------ MODULE Daytime ------------------------------
(***************************************************************************)
(* neb_daytime_abs_nearest of src/time.c: when it will next be that time   *)
(* of day.  An hour has HourLength seconds here and a day DayHours hours.  *)
(* The clocks are put forward and back again.                              *)
(***************************************************************************)
EXTENDS Integers

CONSTANTS
  HourLength, DayHours,
  Forward, Back,  \* when summer time begins and ends, in seconds since the epoch
  MaxNow          \* bound: the current time

ASSUME DaytimeConstants ==
  /\ HourLength \in Nat \ {0} /\ DayHours \in Nat \ {0} /\ Forward \in Nat /\ Back \in Nat
  /\ MaxNow \in Nat

VARIABLES
  now, secOfDay,  \* the time, and the time of day asked for
  alarm           \* *abs_ts, -1 before the call

dayVars == <<now, secOfDay, alarm>>

Day == DayHours * HourLength

\* The local time zone, external: seconds ahead of UTC, one hour more in summer.
Offset(t) == IF Forward =< t /\ t < Back THEN 2 * HourLength ELSE HourLength

\* localtime_r: the day and the time of day on the clock at t.
LocalDay(t) == (t + Offset(t)) \div Day
LocalTime(t) == (t + Offset(t)) % Day

\* mktime of a day and time of day, with the tm_isdst of the time now.
Mktime(day, time) == day * Day + time - Offset(now)

\* sec_of_day as hours, minutes and seconds, and these in seconds again.
Split(sec) == (sec \div HourLength) * HourLength + (sec % HourLength)

\* The loop at the end: the first of t, t + Day, t + 2 * Day ... that is after limit.
NextAfter(t, limit) == IF t =< limit THEN t + ((limit - t) \div Day + 1) * Day ELSE t

\* Mutant: an alarm that is due this very second is kept.
BugNearest == LET t == Mktime(LocalDay(now), Split(secOfDay)) IN IF t < now THEN NextAfter(t, now) ELSE t

\* neb_daytime_abs_nearest
Nearest == NextAfter(Mktime(LocalDay(now), Split(secOfDay)), now)

DayInit == now \in 0 .. MaxNow /\ secOfDay \in 0 .. Day - 1 /\ alarm = -1
DayStep == alarm = -1 /\ alarm' = Nearest /\ UNCHANGED <<now, secOfDay>>
DaySpec == DayInit /\ [][DayStep]_dayVars

-----------------------------------------------------------------------------
(***************************************************************************)
(* The alarm is in the future, at most a day ahead, and the first time the *)
(* local clock shows that time of day, unless the clocks change before it. *)
(***************************************************************************)
AlarmNearest ==
  alarm # -1 =>
    /\ now < alarm /\ alarm =< now + Day
    /\ (\A t \in now .. alarm : Offset(t) = Offset(now)) =>
         LocalTime(alarm) = secOfDay /\ \A t \in now + 1 .. alarm - 1 : LocalTime(t) # secOfDay
=============================================================================
