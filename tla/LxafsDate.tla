----------------------------- MODULE LxafsDate -----------------------------
(***************************************************************************)
(* The date conversions of LXAFS, os2/os2/fs/lxafs/oofl_misc.c: an inode's *)
(* time (seconds since 1970) to the FDATE and FTIME that DosSetPathInfo    *)
(* takes, and back from what DosFindFirst returns.  They are checked       *)
(* against a calendar that goes on from day to day.                        *)
(***************************************************************************)
EXTENDS Integers, Sequences

CONSTANTS
  FirstDay,       \* bounds: days since 1970, within 32 bits of seconds
  LastDay,
  SecsOfDay,      \* the times of day looked at
  TzMinutesWest   \* sys_tz.tz_minuteswest

ASSUME DateAssumption ==
  /\ FirstDay \in Nat /\ LastDay \in Nat /\ FirstDay <= LastDay
  /\ \A s \in SecsOfDay : s \in Nat /\ s < 86400
  /\ TzMinutesWest \in Int /\ -720 <= TzMinutesWest /\ TzMinutesWest <= 720

VARIABLES
  days,   \* days since 1 January 1970
  cal     \* the calendar's date of that day

vars == <<days, cal>>

\* lxafs_day_n: the days of a common year before each month, by index from 0.
lxafs_day_n ==
  [i \in 0 .. 15 |->
     <<0, 31, 59, 90, 120, 151, 181, 212, 243, 273, 304, 334, 0, 0, 0, 0>>[i + 1]]

\* A Boolean of C as an integer.
Bool(b) == IF b THEN 1 ELSE 0

-----------------------------------------------------------------------------
(* lxafs_date_unix2lx.                                                     *)

\* The local time, not before 1980.
Local(secs) == IF secs - TzMinutesWest * 60 < 315532800
               THEN 315532800 ELSE secs - TzMinutesWest * 60

\* The FTIME.
Time(secs) ==
  LET s == Local(secs)
  IN  [hours   |-> (s \div 3600) % 24,
       minutes |-> (s \div 60) % 60,
       twosecs |-> (s % 60) \div 2]

\* Mutants: the days after 29 February are not moved back; 29 February is not
\* told from 1 March.
NoLeapShift(day, leap) == day
NoLeapDay(day, leap) == FALSE

\* Is it 29 February?  The day of the year counts from 0.
LeapDay(day, leap) == day = 59 /\ leap

\* The day of the year, without the leap day in leap years.
NlDay(day, leap) == IF leap /\ day > 59 THEN day - 1 ELSE day

\* The number of months that begin on or before that day.
MonthOf(nl_day) ==
  IF \E m \in 0 .. 11 : lxafs_day_n[m] > nl_day
  THEN CHOOSE m \in 0 .. 11 : /\ lxafs_day_n[m] > nl_day
                              /\ \A k \in 0 .. (m - 1) : lxafs_day_n[k] <= nl_day
  ELSE 12

\* The FDATE.
Date(secs) ==
  LET since == Local(secs) \div 86400 - 3652
      guess == since \div 365
      year  == guess - Bool((guess + 3) \div 4 + 365 * guess > since)
      day   == since - ((year + 3) \div 4 + 365 * year)
      leap  == year % 4 = 0
      nl    == NlDay(day, leap)
      month == IF LeapDay(day, leap) THEN 2 ELSE MonthOf(nl)
  IN  [day |-> nl - lxafs_day_n[month - 1], month |-> month, year |-> year]

-----------------------------------------------------------------------------
(* lxafs_date_lx2unix.                                                     *)

\* The seconds of an FDATE and an FTIME.
LxToUnix(date, time) ==
  TzMinutesWest * 60 + time.twosecs + time.minutes * 60 + time.hours * 3600
  + 86400 * (date.day - 1 + lxafs_day_n[date.month] + date.year \div 4
             + date.year * 365 - Bool(date.year % 4 = 0 /\ date.month < 2) + 3653)

-----------------------------------------------------------------------------
(* The calendar: the reference.                                            *)

\* The lengths of the months of a year, counted from 1980.
LeapYear(y) == y % 4 = 0 /\ ((y + 1980) % 100 # 0 \/ (y + 1980) % 400 = 0)
Length(y) == <<31, IF LeapYear(y) THEN 29 ELSE 28, 31, 30, 31, 30,
               31, 31, 30, 31, 30, 31>>

Tomorrow(c) ==
  IF c.day < Length(c.year)[c.month] THEN [c EXCEPT !.day = @ + 1]
  ELSE IF c.month < 12 THEN [c EXCEPT !.day = 1, !.month = @ + 1]
  ELSE [day |-> 1, month |-> 1, year |-> c.year + 1]

\* FirstDay is 1 January 1980, the first day an FDATE can name.
Init == days = FirstDay /\ cal = [day |-> 1, month |-> 1, year |-> 0]

NextDay == /\ days < LastDay
           /\ days' = days + 1
           /\ cal' = Tomorrow(cal)

Spec == Init /\ [][NextDay]_vars
-----------------------------------------------------------------------------
(* Properties.                                                             *)

\* The time in question, in seconds: local times of the calendar's day.
At(s) == 86400 * days + s + TzMinutesWest * 60

\* lxafs_date_unix2lx finds the year and the month of every second of the day,
\* through leap days, ends of months and ends of years, and the time of day to two
\* seconds.
FieldsRight ==
  \A s \in SecsOfDay :
    LET d == Date(At(s))
        t == Time(At(s))
    IN  /\ d.year = cal.year /\ d.month = cal.month
        /\ t.hours * 3600 + t.minutes * 60 + 2 * t.twosecs = s - (s % 2)

\* Days follow each other: from one day to the next the day of the month grows
\* by one or a new month begins.
DaysFollow ==
  [][\A s \in SecsOfDay :
       LET d == Date(At(s))  e == Date(At(s))'
       IN  e.day = d.day + 1 \/ (e.month # d.month /\ e.day < d.day)]_vars

\* The conversions undo each other: lxafs_write_inode stores the times of an
\* inode with lxafs_date_unix2lx, lxafs_init_inode_type reads them back with
\* lxafs_date_lx2unix and finds the same second, to two seconds.
RoundTrip ==
  \A s \in SecsOfDay : LxToUnix(Date(At(s)), Time(At(s))) = At(s) - (s % 2)
=============================================================================
