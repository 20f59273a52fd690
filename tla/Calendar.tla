------------------------------ MODULE Calendar ------------------------------
(***************************************************************************)
(* The US equity calendar of src/spy_der/runtime/calendar.py: which days   *)
(* trade, when a session closes early, which session comes next.           *)
(*                                                                         *)
(* A day is its number in the proleptic Gregorian calendar (Date), a       *)
(* moment is a minute of Eastern wall time, 1440 to the day.  The          *)
(* conversion between UTC and Eastern time is the library's (zoneinfo) and *)
(* is left out: every comparison the code makes is between two moments.    *)
(***************************************************************************)
EXTENDS Integers, FiniteSets

CONSTANTS FirstYear, LastYear     \* the years the walk below covers

VARIABLES session                 \* the session the runner works on or waits for

calVars == <<session>>

DayMinutes == 1440
RegularOpen == 570                \* 09:30
RegularClose == 960               \* 16:00
EarlyClose == 780                 \* 13:00
NoSession == [day |-> 0, open |-> 0, close |-> 0, early |-> FALSE]

(* datetime.date(y, m, d) as a day number; 1970-01-01 is day 0.            *)
Date(y, m, d) ==
    LET yy == IF m <= 2 THEN y - 1 ELSE y
        yoe == yy % 400
        doy == (153 * (IF m > 2 THEN m - 3 ELSE m + 9) + 2) \div 5 + d - 1
    IN  (yy \div 400) * 146097 + yoe * 365 + yoe \div 4 - yoe \div 100 + doy - 719468

Weekday(n) == (n + 3) % 7         \* Monday is 0

YearOf(n) ==                      \* 365.2425 days to the year, give or take one
    LET y == 1970 + (n * 400) \div 146097
    IN  IF n < Date(y, 1, 1) THEN y - 1 ELSE IF n >= Date(y + 1, 1, 1) THEN y + 1 ELSE y

(* The Meeus/Jones/Butcher computation of Gregorian Easter.                *)
EasterWith(y, f) ==
    LET a == y % 19
        b == y \div 100      c == y % 100
        d == b \div 4        e == b % 4
        g == (b - f + 1) \div 3
        h == (19 * a + b - d - g + 15) % 30
        i == c \div 4        k == c % 4
        lunar == (32 + 2 * e + 2 * i - h - k) % 7
        m == (a + 11 * h + 22 * lunar) \div 451
        rest == h + lunar - 7 * m + 114
    IN  Date(y, rest \div 31, (rest % 31) + 1)

EasterUncorrected(y) == EasterWith(y, 0)

EasterSunday(y) == EasterWith(y, (y \div 100 + 8) \div 25)

NthWeekday(y, m, weekday, n) ==
    LET first == Date(y, m, 1)
    IN  first + ((weekday - Weekday(first)) % 7) + 7 * (n - 1)

LastWeekday(y, m, weekday) ==
    LET last == Date(IF m = 12 THEN y + 1 ELSE y, (m % 12) + 1, 1) - 1
    IN  last - ((Weekday(last) - weekday) % 7)

(* Saturday moves back, Sunday on; New Year's Day on a Saturday is not     *)
(* observed.  The result is the set of days off, empty or one day.         *)
Observed(y, m, d) ==
    LET n == Date(y, m, d)
    IN  CASE Weekday(n) = 5 -> IF m = 1 /\ d = 1 THEN {} ELSE {n - 1}
          [] Weekday(n) = 6 -> {n + 1}
          [] OTHER -> {n}

FixedHolidays(y) ==
    Observed(y, 1, 1) \cup Observed(y, 7, 4) \cup Observed(y, 12, 25)
        \cup (IF y >= 2022 THEN Observed(y, 6, 19) ELSE {})

Years == FirstYear - 1 .. LastYear + 2

(* Computed once a year, as the lru_cache has it.                          *)
HolidayTable ==
    [ y \in Years |-> FixedHolidays(y) \cup
        { NthWeekday(y, 1, 0, 3), NthWeekday(y, 2, 0, 3), LastWeekday(y, 5, 0),
          NthWeekday(y, 9, 0, 1), NthWeekday(y, 11, 3, 4), EasterSunday(y) - 2 } ]

MarketHolidays(y) == HolidayTable[y]

(* The day before a holiday of fixed date, when both are weekdays.         *)
Eve(y, m, d) ==
    { n \in {Date(y, m, d)} : /\ Weekday(n) < 5
                              /\ Weekday(n + 1) < 5
                              /\ n \notin MarketHolidays(y) }

EarlyTable ==
    [ y \in Years |-> ({NthWeekday(y, 11, 3, 4) + 1} \ MarketHolidays(y))
                        \cup Eve(y, 7, 3) \cup Eve(y, 12, 24) ]

EarlyCloses(y) == EarlyTable[y]

IsTradingDay(n) == Weekday(n) < 5 /\ n \notin MarketHolidays(YearOf(n))

IsEarlyClose(n) == IsTradingDay(n) /\ n \in EarlyCloses(YearOf(n))

SessionFor(n) ==
    IF ~IsTradingDay(n) THEN NoSession
    ELSE [ day |-> n, open |-> n * DayMinutes + RegularOpen,
           close |-> n * DayMinutes +
                       (IF IsEarlyClose(n) THEN EarlyClose ELSE RegularClose),
           early |-> IsEarlyClose(n) ]

InSession(s, moment) == s.open <= moment /\ moment < s.close

DayOf(moment) == moment \div DayMinutes

(* The session in progress: the Eastern day's, or the day before's.        *)
CurrentSession(moment) ==
    LET s(n) == SessionFor(n)
        today == DayOf(moment)
    IN  CASE s(today) # NoSession /\ InSession(s(today), moment) -> s(today)
          [] s(today - 1) # NoSession /\ InSession(s(today - 1), moment) -> s(today - 1)
          [] OTHER -> NoSession

(* The first session that opens after the moment, among limit_days + 1 days. *)
NextSessionWithin(moment, first, limit) ==
    LET days == DayOf(moment) + first .. DayOf(moment) + limit
        opens(n) == IsTradingDay(n) /\ SessionFor(n).open > moment
    IN  IF \A n \in days : ~opens(n) THEN NoSession
        ELSE SessionFor(CHOOSE n \in days :
                          opens(n) /\ \A k \in days : k < n => ~opens(k))

NextSessionAfterTomorrow(moment) == NextSessionWithin(moment, 2, 30)

NextSession(moment) == NextSessionWithin(moment, 0, 30)

-----------------------------------------------------------------------------
(* A runner that waits for one session after the other, as the supervisor  *)
(* does: it sleeps until the session that follows the close of this one.   *)

CalendarInit == session = NextSession(Date(FirstYear, 1, 1) * DayMinutes)

AwaitNextSession ==
    /\ YearOf(session.day) <= LastYear
    /\ session' = NextSession(session.close)

-----------------------------------------------------------------------------
(* From every close the search finds a session, no trading day is passed   *)
(* over, and no closure lasts more than three days: so the 30 days that    *)
(* next_session looks ahead and the 10 that the live feed looks back       *)
(* (calendar.py:221, tradier.py:240) always reach a session.               *)
NoSessionMissed ==
    [][ session # session' =>
          /\ session' # NoSession
          /\ session'.day - session.day \in 1 .. 4
          /\ \A n \in session.day + 1 .. session'.day - 1 : ~IsTradingDay(n)
      ]_calVars

(* The full closures of a year are weekdays, ten of them, nine when New    *)
(* Year's Day is a Saturday, and one fewer before 2022: the weekend rule   *)
(* of _observed (calendar.py:65) neither loses a holiday nor lets two      *)
(* fall together.                                                          *)
HolidaysAreWeekdays ==
    LET y == YearOf(session.day)
    IN  /\ \A n \in MarketHolidays(y) : Weekday(n) < 5
        /\ Cardinality(MarketHolidays(y)) =
             10 - (IF Weekday(Date(y, 1, 1)) = 5 THEN 1 ELSE 0)
                - (IF y < 2022 THEN 1 ELSE 0)

(* A shortened session is a trading day next to a full closure             *)
(* (early_closes, calendar.py:111): the two tables never claim one day.    *)
EarlyClosesAbutHolidays ==
    LET y == YearOf(session.day)
    IN  \A n \in EarlyCloses(y) :
            IsTradingDay(n) /\ {n - 1, n + 1} \cap MarketHolidays(y) # {}

(* Easter by its ecclesiastical definition: the Sunday after the paschal   *)
(* full moon, which follows from the golden number and the century's       *)
(* corrections; what easter_sunday computes (calendar.py:32) against it.   *)
EasterIsAfterFullMoon ==
    LET y == YearOf(session.day)
        golden == (y % 19) + 1
        century == y \div 100 + 1
        solar == (3 * century) \div 4 - 12
        moon == (8 * century + 5) \div 25 - 5
        raw == (11 * golden + 20 + moon - solar) % 30
        epact == IF (raw = 25 /\ golden > 11) \/ raw = 24 THEN raw + 1 ELSE raw
        day == IF 44 - epact < 21 THEN 74 - epact ELSE 44 - epact
        full == Date(y, 3, 1) + day - 1
    IN  EasterSunday(y) = full + 1 + ((6 - Weekday(full + 1)) % 7)

(* The holiday and early-close tables of every year against what defines   *)
(* them (market_holidays, early_closes, easter_sunday, calendar.py:32).    *)
HolidayTablesHold ==
    HolidaysAreWeekdays /\ EarlyClosesAbutHolidays /\ EasterIsAfterFullMoon

=============================================================================
