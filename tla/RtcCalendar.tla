---------------------------- MODULE RtcCalendar ----------------------------
(***************************************************************************)
(* The calendar of system/rtc.c: dates kept as seconds since 1970 in the   *)
(* two 16-bit halves of the RTC counter, set from the console and read by  *)
(* a task while the counter runs.  The hour, minute and second of a date   *)
(* are its second of the day.                                              *)
(***************************************************************************)
EXTENDS Integers, FiniteSets

CONSTANTS
  Years,       \* the years of the dates that are set
  TimesOfDay,  \* and their seconds of the day
  MaxTicks     \* bound: seconds that pass after a date is set

\* Less than a day passes, which is as far as Later counts.
ASSUME CalendarAssumption == /\ Years \cup TimesOfDay \subseteq Nat
                             /\ MaxTicks \in Nat /\ MaxTicks < 86400

VARIABLES
  RTC_CNTH, RTC_CNTL,  \* the halves of the counter
  half,                \* what a reader has loaded and when, while it reads
  sd,                  \* SOLAR48_DATE, as read last
  set, elapsed         \* the date set last and the seconds since

rtcVars == <<RTC_CNTH, RTC_CNTL, half, sd, set, elapsed>>

Nothing == [date |-> FALSE]
MaxTimestamp == [day |-> 49710, second |-> 23295]     \* MAX_TIMESTAMP_VALUE

\* A day has 86400 seconds: 65536 * 675 are 512 days.
DayOfCounter(high, low) ==
  LET s == (high % 675) * 65536 + low
  IN [day |-> 512 * (high \div 675) + s \div 86400, second |-> s % 86400]
CounterOfDay(t) ==
  LET s == (t.day % 512) * 86400 + t.second
  IN [high |-> 675 * (t.day \div 512) + s \div 65536, low |-> s % 65536]

is_leap_year(year) == year % 4 = 0 /\ (year % 100 # 0 \/ year % 400 = 0)

days_in_month == <<31, 28, 31, 30, 31, 30, 31, 31, 30, 31, 30, 31>>
month_table == <<31, 59, 90, 120, 151, 181, 212, 243, 273, 304, 334, 365>>

valid_date(d) == /\ d.year >= 1970 /\ d.month \in 1 .. 12
                 /\ d.day \in 1 .. (IF d.month = 2 /\ is_leap_year(d.year) THEN 29
                                    ELSE days_in_month[d.month])

TimestampMonthOnly(d) ==
  [day |-> (d.year - 1970) * 365 + d.day + (IF d.month = 1 THEN 0 ELSE month_table[d.month - 1]),
   second |-> d.second]

\* The timestamp of a date: years of 365 days, and a leap day after January.
Timestamp(d) ==
  [day |-> (d.year - 1970) * 365 + d.day +
           (IF d.month = 1 THEN 0
            ELSE month_table[d.month - 1] + (IF is_leap_year(d.year) THEN 1 ELSE 0)),
   second |-> d.second]

Fits(t) == t.day < MaxTimestamp.day \/ (t.day = MaxTimestamp.day /\ t.second <= MaxTimestamp.second)

\* Sakamoto's formula, in the arithmetic of C on numbers that are positive.
get_day(y, m, d) ==
  LET day == IF m < 3 THEN d + y ELSE d + y - 2
      yy == IF m < 3 THEN y - 1 ELSE y
  IN ((23 * m) \div 9 + day + 4 + yy \div 4 - yy \div 100 + yy \div 400) % 7

get_solar48_date(t) ==
  LET year == t.day \div 365 + 1970
      days == t.day % 365
      month == CASE days <= month_table[1] -> 1
                 [] days > month_table[1] /\ (days <= month_table[2] \/
                      (days = month_table[2] + 1 /\ is_leap_year(year))) -> 2
                 [] OTHER -> CHOOSE m \in 3 .. 12 :
                               days <= month_table[m] /\ (m > 3 => days > month_table[m - 1])
      day == IF month = 1 THEN days ELSE days - month_table[month - 1]
      shown == IF day = 0 THEN 1 ELSE day
  IN [year |-> year, month |-> month, day |-> shown, second |-> t.second,
      week_day |-> get_day(year, month, shown)]

-----------------------------------------------------------------------------
RtcInit == /\ RTC_CNTH = 0 /\ RTC_CNTL = 0
           /\ half = Nothing /\ sd = Nothing /\ set = Nothing /\ elapsed = 0

\* set_date: an invalid date and one past the end of the counter are refused.
SetDate(d) ==
  /\ valid_date(d) /\ d.second < 86400 /\ Fits(Timestamp(d))
  /\ LET c == CounterOfDay(Timestamp(d)) IN RTC_CNTH' = c.high /\ RTC_CNTL' = c.low
  /\ set' = d /\ elapsed' = 0
  /\ UNCHANGED <<half, sd>>

\* The counter, once per second.
Tick ==
  /\ set # Nothing /\ elapsed < MaxTicks
  /\ RTC_CNTL' = (RTC_CNTL + 1) % 65536
  /\ RTC_CNTH' = IF RTC_CNTL = 65535 THEN (RTC_CNTH + 1) % 65536 ELSE RTC_CNTH
  /\ elapsed' = elapsed + 1
  /\ UNCHANGED <<half, sd, set>>

\* CURRENT_TIMESTAMP loads the halves one after the other, in an order that
\* C leaves open.
LoadHalf(first) ==
  /\ half = Nothing
  /\ half' = [date |-> TRUE, first |-> first, high |-> RTC_CNTH, low |-> RTC_CNTL,
              set |-> set, elapsed |-> elapsed]
  /\ UNCHANGED <<RTC_CNTH, RTC_CNTL, sd, set, elapsed>>

GetDate ==
  /\ half # Nothing
  /\ sd' = get_solar48_date(IF half.first = "high" THEN DayOfCounter(half.high, RTC_CNTL)
                            ELSE DayOfCounter(RTC_CNTH, half.low))
  /\ half' = Nothing
  /\ UNCHANGED <<RTC_CNTH, RTC_CNTL, set, elapsed>>

\* Bound: a date is set once.
RtcNext == \/ set = Nothing /\
                \E y \in Years, m \in 0 .. 13, d \in 0 .. 32, s \in TimesOfDay :
                   SetDate([year |-> y, month |-> m, day |-> d, second |-> s])
           \/ Tick
           \/ \E first \in {"high", "low"} : LoadHalf(first)
           \/ GetDate

RtcSpec == RtcInit /\ [][RtcNext]_rtcVars

-----------------------------------------------------------------------------
\* The calendar as it is: the date e seconds (less than a day) after d.
LastOfMonth(d) == d.day = IF d.month = 2 /\ is_leap_year(d.year) THEN 29
                          ELSE days_in_month[d.month]
Tomorrow(d) ==
  CASE ~ LastOfMonth(d) -> [d EXCEPT !.day = @ + 1]
    [] LastOfMonth(d) /\ d.month < 12 -> [d EXCEPT !.day = 1, !.month = @ + 1]
    [] OTHER -> [d EXCEPT !.day = 1, !.month = 1, !.year = @ + 1]
Later(d, e) == IF d.second + e < 86400 THEN [d EXCEPT !.second = @ + e]
               ELSE [Tomorrow(d) EXCEPT !.second = d.second + e - 86400]

\* The first of January 1970 was a Thursday.
DaysSince1970(d) ==
  365 * (d.year - 1970) + Cardinality({y \in 1970 .. d.year - 1 : is_leap_year(y)})
  + (IF d.month = 1 THEN 0 ELSE month_table[d.month - 1])
  + (IF d.month > 2 /\ is_leap_year(d.year) THEN 1 ELSE 0) + d.day - 1
WeekDay(d) == (4 + DaysSince1970(d)) % 7

(***************************************************************************)
(* A date that is set is the date that is read, with the seconds passed    *)
(* since added, and with its weekday, on each day but two kinds: a date    *)
(* set in a leap year after January, to which set_date adds the leap day   *)
(* too early (rtc.c:291), and a last of December, which get_solar48_date   *)
(* takes for the first of January (rtc.c:226).  This is of a read whose    *)
(* halves belong together: with a carry, or a set_date, between them it is *)
(* off by up to 65536 seconds (registers.h:297); and until the counter of  *)
(* 32 bits ends, in 2106.                                                  *)
(***************************************************************************)
LeapDayTooEarly(d) == is_leap_year(d.year) /\ d.month > 1
LastOfYear(d) == d.month = 12 /\ d.day = 31
ReadsWhole == /\ half.set # Nothing /\ half.high = RTC_CNTH
              /\ RTC_CNTH >= CounterOfDay(Timestamp(set)).high
DatesKept ==
  [][ GetDate /\ ReadsWhole =>
        LET now == Later(set, IF half.first = "high" THEN elapsed ELSE half.elapsed)
            same == sd'.year = now.year /\ sd'.month = now.month /\ sd'.day = now.day
        IN /\ sd'.second = now.second
           /\ sd'.week_day = WeekDay(sd')
           /\ same <=> ~ (LeapDayTooEarly(set) \/ LastOfYear(now)) ]_rtcVars
=============================================================================
