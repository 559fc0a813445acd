---------------------------- MODULE CalendarWalk ----------------------------
(* Arithmetic with the calendar classes: the same periods are added to a      *)
(* LocalDate, a LocalTime and a LocalDateTime, which compute with days, with  *)
(* times of day and with moments, and the results are stored and read.        *)
EXTENDS NodaTime

CONSTANTS
    Starts,     \* the moments a walk starts from
    Periods,    \* the periods that are added and subtracted
    Amounts,    \* how many units are added
    MaxSteps    \* bound: the operations of a walk

\* Days and a millisecond of a day: a time, a moment or a period.
Durations == [day : Int, ms : 0 .. DayMs - 1]
ASSUME CalendarAssumption ==
    Starts \subseteq Durations /\ Periods \subseteq Durations /\ Amounts \subseteq Int

VARIABLES
    date,       \* a LocalDate
    time,       \* a LocalTime
    moment,     \* a LocalDateTime
    origin,     \* the date, time and moment that the elapsed Period counts from
    elapsed,    \* the sum of what was added since
    whole,      \* whether only whole days were added
    steps

calendarVars == <<date, time, moment, origin, elapsed, whole, steps>>

CalendarInit ==
    /\ moment \in Starts
    /\ date = moment.day
    /\ time = Moment(Epoch, moment.ms)
    /\ origin = [date |-> date, time |-> time, moment |-> moment]
    /\ elapsed = from_days(0)
    /\ whole = TRUE
    /\ steps = 0

Step == steps < MaxSteps /\ steps' = steps + 1

\* plus(period) and minus(period) of the three classes.
AddPeriod ==
    /\ Step
    /\ \E p \in Periods :
          /\ date' = DatePlus(date, p)
          /\ time' = TimePlus(time, p)
          /\ moment' = DateTimePlus(moment, p)
          /\ elapsed' = PeriodPlus(elapsed, p)
          /\ whole' = (whole /\ p.ms = 0)
    /\ UNCHANGED origin
SubtractPeriod ==
    /\ Step
    /\ \E p \in Periods :
          /\ date' = DateMinus(date, p)
          /\ time' = TimeMinus(time, p)
          /\ moment' = DateTimeMinus(moment, p)
          /\ elapsed' = PeriodMinus(elapsed, p)
          /\ whole' = (whole /\ p.ms = 0)
    /\ UNCHANGED origin

\* plus_hours and the like; LocalDate has none of them, and LocalTime no days or weeks.
AddUnits ==
    /\ Step
    /\ \E n \in Amounts :
          \/ \E unit \in TimeUnits :
                /\ time' = TimePlusUnits(time, unit, n)
                /\ moment' = DateTimePlusUnits(moment, unit, n)
                /\ elapsed' = PeriodPlus(elapsed, from_units(unit, n))
                /\ whole' = FALSE
                /\ UNCHANGED date
          \/ \E unit \in {"days", "weeks"} :
                /\ date' = DatePlusUnits(date, unit, n)
                /\ time' = TimePlus(time, from_units(unit, n))
                /\ moment' = DateTimePlusUnits(moment, unit, n)
                /\ elapsed' = PeriodPlus(elapsed, from_units(unit, n))
                /\ UNCHANGED whole
    /\ UNCHANGED origin

\* Months, years and weekdays are no Period: counting starts again.
Recount ==
    /\ origin' = [date |-> date', time |-> time, moment |-> moment']
    /\ elapsed' = from_days(0)
    /\ UNCHANGED <<time, whole>>
AddMonthsOrYears ==
    /\ Step
    /\ \E n \in Amounts, unit \in {"months", "years"} :
          date' = DatePlusUnits(date, unit, n) /\ moment' = DateTimePlusUnits(moment, unit, n)
    /\ Recount
NextWeekday ==
    /\ Step
    /\ \E target \in 0 .. 6 :
          date' = next_weekday(date, target) /\ moment' = DateTimeNext(moment, target)
    /\ Recount
PreviousWeekday ==
    /\ Step
    /\ \E target \in 0 .. 6 :
          date' = previous_weekday(date, target) /\ moment' = DateTimePrevious(moment, target)
    /\ Recount

CalendarNext ==
    \/ AddPeriod \/ SubtractPeriod \/ AddUnits \/ AddMonthsOrYears
    \/ NextWeekday \/ PreviousWeekday
CalendarSpec == CalendarInit /\ [][CalendarNext]_calendarVars

------------------------------------------------------------------------------
\* Adding and taking differences agree, whichever of the operations made the way: the
\* difference to the origin is the sum of the periods, also before 1970 and over midnight.
ElapsedIsDifference ==
    /\ DateTimeDifference(moment, origin.moment) = elapsed
    /\ TimeDifference(time, origin.time) = elapsed
    /\ whole => between_dates(origin.date, date) = elapsed

\* The three classes stay together: the time is the moment's time of day however often it
\* passed midnight, and the date, which drops the hours of each period by itself, is the
\* moment's as long as whole days were added; and ElapsedIsDifference.
DateAndTimeFollow ==
    /\ ElapsedIsDifference
    /\ compare_times(time, Moment(Epoch, moment.ms)) = 0
    /\ whole => compare_date_times(LocalDateTime(date, time), moment) = 0

\* The integers of documents and JSON bring back the value, and they are in its order, on
\* which queries rely: the earlier moment has the smaller long, and so on.
LessLong(a, b) == a[1] < b[1] \/ (a[1] = b[1] /\ a[2] < b[2])
StoredFaithfully ==
    LET minute == LocalMinute(hour_of(time), minute_of(time))
        from == origin.moment
    IN  /\ parse_iso_long(to_iso_long(moment)) = moment
        /\ from_std_chrono(to_std_chrono(moment)) = moment
        /\ date_parse_iso_int(date_to_iso_int(date)) = date
        /\ compare_times(time_parse_iso_int(time_to_iso_int(time)), time) = 0
        /\ minute_parse_iso_int(minute_to_iso_int(minute)) = minute
        /\ (compare_date_times(from, moment) = -1) <=> LessLong(to_iso_long(from), to_iso_long(moment))
        /\ (compare_dates(origin.date, date) = -1) <=> date_to_iso_int(origin.date) < date_to_iso_int(date)
        /\ (compare_times(origin.time, time) = -1) <=> time_to_iso_int(origin.time) < time_to_iso_int(time)
=============================================================================
