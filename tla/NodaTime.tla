------------------------------ MODULE NodaTime ------------------------------
(* The calendar classes of dot/noda_time and the conversions of their values  *)
(* to the integers and dates that documents store.                            *)
(*                                                                            *)
(* boost keeps a date as a day number and a ptime as ticks; here a LocalDate  *)
(* is the number of days since 1970-01-01, and LocalTime and LocalDateTime,   *)
(* which both are ptimes, are a day and a millisecond of that day.  A Period  *)
(* is a time_duration: days and a millisecond of a day, the days rounded      *)
(* towards minus infinity.  An int64 too wide for TLC is <<high, low>> with   *)
(* the value high * Billion + low and low \in 0 .. Billion - 1.               *)
EXTENDS Integers

Billion == 1000000000
DayMs == 86400000
HourMs == 3600000
MinuteMs == 60000

NotADate == -Billion            \* stands for the exception of a constructor or parser

\* boost::gregorian, and the integer division of C++, which truncates.
LeapYear(y) == y % 4 = 0 /\ (y % 100 # 0 \/ y % 400 = 0)
DaysInMonth(y, m) ==
    CASE m = 2 -> IF LeapYear(y) THEN 29 ELSE 28
      [] m \in {4, 6, 9, 11} -> 30
      [] OTHER -> 31
DaysBeforeYear(y) == 365 * y + (y - 1) \div 4 - (y - 1) \div 100 + (y - 1) \div 400
DaysBeforeMonth(y, m) ==
    (367 * m - 362) \div 12 - (IF m <= 2 THEN 0 ELSE IF LeapYear(y) THEN 1 ELSE 2)
DayNumber(y, m, d) ==
    DaysBeforeYear(y) - DaysBeforeYear(1970) + DaysBeforeMonth(y, m) + d - 1
\* gregorian_calendar_base::from_day_number, where 1970-01-01 has the number 2440588.
CivilDate(n) ==
    LET a == n + 2440588 + 32044
        b == (4 * a + 3) \div 146097
        c == a - ((146097 * b) \div 4)
        d == (4 * c + 3) \div 1461
        e == c - ((1461 * d) \div 4)
        m == (5 * e + 2) \div 153
    IN  [year |-> 100 * b + d - 4800 + (m \div 10), month |-> m + 3 - 12 * (m \div 10),
         day |-> e - ((153 * m + 2) \div 5) + 1]
Year(n) == CivilDate(n).year
Month(n) == CivilDate(n).month
Day(n) == CivilDate(n).day
AddMonths(n, k) ==
    LET months == 12 * Year(n) + Month(n) - 1 + k
        y == months \div 12
        m == (months % 12) + 1
        last == DaysInMonth(y, m)
        at_end == Day(n) = DaysInMonth(Year(n), Month(n))
    IN  DayNumber(y, m, IF at_end \/ Day(n) > last THEN last ELSE Day(n))
Quotient(a, b) == IF a >= 0 THEN a \div b ELSE -((-a) \div b)

Moment(day, ms) == [day |-> day + ms \div DayMs, ms |-> ms % DayMs]
Later(a, b) == a.day > b.day \/ (a.day = b.day /\ a.ms > b.ms)

------------------------------------------------------------------------------
(* Period *)

\* A duration is two parts with the same carry as a moment.
Duration(days, ms) == Moment(days, ms)

from_days(days) == Duration(days, 0)
from_hours(hours) == Duration(0, hours * HourMs)
from_weeks(weeks) == Duration(7 * weeks, 0)
from_minutes(minutes) == Duration(0, minutes * MinuteMs)
from_seconds(seconds) == Duration(0, seconds * 1000)
from_milliseconds(milliseconds) == Duration(0, milliseconds)
from_units(unit, n) ==
    CASE unit = "days" -> from_days(n) [] unit = "weeks" -> from_weeks(n)
      [] unit = "hours" -> from_hours(n) [] unit = "minutes" -> from_minutes(n)
      [] unit = "seconds" -> from_seconds(n) [] OTHER -> from_milliseconds(n)
PeriodPlus(p, q) == Duration(p.day + q.day, p.ms + q.ms)
PeriodMinus(p, q) == Duration(p.day - q.day, p.ms - q.ms)

\* The conversion to date_duration: whole hours, then whole days, both truncated.
TotalHours(p) ==
    24 * p.day + (p.ms \div HourMs) + (IF p.day < 0 /\ p.ms % HourMs # 0 THEN 1 ELSE 0)
DateDuration(p) == Quotient(TotalHours(p), 24)

------------------------------------------------------------------------------
(* LocalDate *)

LocalDate(y, m, d) ==
    IF y \in 1400 .. 9999 /\ m \in 1 .. 12 /\ d \in 1 .. 31
    THEN IF d <= DaysInMonth(y, m) THEN DayNumber(y, m, d) ELSE NotADate
    ELSE NotADate

DatePlus(date, period) == date + DateDuration(period)
DateMinus(date, period) == date - DateDuration(period)
DateDifference(lhs, rhs) == from_days(lhs - rhs)
between_dates(start, end) == DateDifference(end, start)


DateEqual(a, b) == a = b
DateGreater(a, b) == a > b
compare_dates(a, b) == IF DateEqual(a, b) THEN 0 ELSE IF DateGreater(a, b) THEN 1 ELSE -1

\* Days count from Sunday = 0 in boost, whose greg_weekday refuses 7;
\* 1970-01-01 was a Thursday.
day_of_week(date) == (date + 4) % 7

next_weekday(date, target) ==
    IF target \notin 0 .. 6 THEN NotADate
    ELSE IF day_of_week(date) = target THEN date + 7
    ELSE date + ((target - day_of_week(date)) % 7)
previous_weekday(date, target) ==
    IF target \notin 0 .. 6 THEN NotADate
    ELSE IF day_of_week(date) = target THEN date - 7
    ELSE date - ((day_of_week(date) - target) % 7)

\* plus_days, plus_weeks, plus_months, plus_years; boost adds years as months.
DatePlusUnits(date, unit, n) ==
    CASE unit = "days" -> date + n
      [] unit = "weeks" -> date + 7 * n
      [] unit = "months" -> AddMonths(date, n)
      [] OTHER -> AddMonths(date, 12 * n)

date_to_iso_int(date) == Year(date) * 10000 + Month(date) * 100 + Day(date)
date_parse_iso_int(value) ==
    LET year == Quotient(value, 10000)
        rest == value - year * 10000
        month == Quotient(rest, 100)
    IN  LocalDate(year, month, rest - month * 100)

------------------------------------------------------------------------------
(* LocalTime: a ptime that starts on 1970-01-01 and may leave that day.       *)

Epoch == 0
LocalTime(hour, minute, second, millisecond) ==
    Moment(Epoch, hour * HourMs + minute * MinuteMs + second * 1000 + millisecond)

hour_of(t) == t.ms \div HourMs
minute_of(t) == (t.ms \div MinuteMs) % 60
second_of(t) == (t.ms \div 1000) % 60
millisecond_of(t) == t.ms % 1000

TimePlus(time, period) == Moment(time.day + period.day, time.ms + period.ms)
TimeMinus(time, period) == Moment(time.day - period.day, time.ms - period.ms)
TimeUnits == {"hours", "minutes", "seconds", "milliseconds"}
TimePlusUnits(time, unit, n) == TimePlus(time, from_units(unit, n))
\* Mutant: the difference of the times of day, as the comparisons use them.
TimeOfDayDifference(lhs, rhs) == Duration(0, lhs.ms - rhs.ms)
TimeDifference(lhs, rhs) == Duration(lhs.day - rhs.day, lhs.ms - rhs.ms)

\* All six comparisons of LocalTime look at the time of day only.
TimeEqual(a, b) == a.ms = b.ms
TimeGreater(a, b) == a.ms > b.ms
compare_times(a, b) == IF TimeEqual(a, b) THEN 0 ELSE IF TimeGreater(a, b) THEN 1 ELSE -1

time_to_iso_int(t) ==
    hour_of(t) * 10000000 + minute_of(t) * 100000 + second_of(t) * 1000 + millisecond_of(t)
time_parse_iso_int(value) ==
    LET hour == Quotient(value, 10000000)
        rest == value - hour * 10000000
        minute == Quotient(rest, 100000)
        ms == rest - minute * 100000
        second == Quotient(ms, 1000)
    IN  LocalTime(hour, minute, second, ms - second * 1000)

------------------------------------------------------------------------------
(* LocalMinute: an hour and a minute, kept as the minute of the day.         *)

minute_of_day(hour, minute) == 60 * hour + minute
LocalMinute(hour, minute) ==
    IF hour \in 0 .. 23 /\ minute \in 0 .. 59 THEN minute_of_day(hour, minute) ELSE NotADate
to_local_time(m) == LocalTime(m \div 60, m % 60, 0, 0)
compare_minutes(a, b) ==
    IF a > b THEN 1 ELSE IF a < b THEN -1 ELSE 0
minute_to_iso_int(m) == (m \div 60) * 100 + (m % 60)
minute_parse_iso_int(value) ==
    LET hour == Quotient(value, 100) IN LocalMinute(hour, value - hour * 100)

------------------------------------------------------------------------------
(* LocalDateTime *)

\* The time's own day is dropped: a LocalTime converts to its time of day.
LocalDateTime(date, time) == [day |-> date, ms |-> time.ms]

DateTimePlus(t, period) == Moment(t.day + period.day, t.ms + period.ms)
DateTimeMinus(t, period) == Moment(t.day - period.day, t.ms - period.ms)
DateTimeDifference(lhs, rhs) == Duration(lhs.day - rhs.day, lhs.ms - rhs.ms)

\* plus_days to plus_years: the units of a date move the day alone.
DateTimePlusUnits(t, unit, n) ==
    IF unit \in {"months", "years"} THEN [t EXCEPT !.day = DatePlusUnits(t.day, unit, n)]
                                    ELSE DateTimePlus(t, from_units(unit, n))

DateTimeEqual(a, b) == a = b
DateTimeGreater(a, b) == Later(a, b)
compare_date_times(a, b) ==
    IF DateTimeEqual(a, b) THEN 0 ELSE IF DateTimeGreater(a, b) THEN 1 ELSE -1
DateTimeNext(t, target) == [t EXCEPT !.day = next_weekday(t.day, target)]
DateTimePrevious(t, target) == [t EXCEPT !.day = previous_weekday(t.day, target)]

\* Mutant: only whole seconds are stored.
IsoLongSeconds(t) == <<date_to_iso_int(t.day), time_to_iso_int(t) - millisecond_of(t)>>
to_iso_long(t) == <<date_to_iso_int(t.day), time_to_iso_int(t)>>
parse_iso_long(value) ==
    LET iso_date == IF value[1] < 0 /\ value[2] # 0 THEN value[1] + 1 ELSE value[1]
        iso_time == IF iso_date = value[1] THEN value[2] ELSE value[2] - Billion
        date == date_parse_iso_int(iso_date)
        \* The four parts of a LocalTime whose sum may pass the end of the day.
        time == time_parse_iso_int(iso_time)
    IN  LocalDateTime(date, time)

\* The milliseconds since the epoch, as days and milliseconds.
to_std_chrono(t) == DateTimeDifference(t, [day |-> Epoch, ms |-> 0])
from_std_chrono(value) == DateTimePlus([day |-> Epoch, ms |-> 0], value)
=============================================================================
