-------------------------------- MODULE Times --------------------------------
(* The converters of cv_units.c for moments, dates and times of day.  As in     *)
(* Positions, a behaviour writes a moment in one description after another.     *)
(*                                                                            *)
(* A moment is counted in minutes; seconds, and the rounding of doubles, are     *)
(* left out.  A year_decimal is its year, and the minutes into the year with     *)
(* the days that year has.  Dates and times of day are strings as well.          *)
EXTENDS Integers, Sequences, FiniteSets, SequencesExt, FiniteSetsExt

CONSTANTS
    Moments,    \* [year, month, day, hour, minute]
    Dates,      \* [year, month, day], with a year of two digits
    Clocks,     \* [hour, minute, second]
    Lossy       \* <<from, to, month>> whose conversion is known to go wrong

VARIABLES
    moment,     \* what was written first
    form,       \* the description it is written as now
    record      \* the values of its variables

vars == <<moment, form, record>>

Calendar == {"month", "day", "hour", "minute"}
Names(d) == CASE d = "century, year" -> Calendar \cup {"century", "year"}
              [] d = "year" -> Calendar \cup {"century_and_year"}
              [] d = "serial" -> {"serial_day_1980"}
              [] d = "ipe" -> {"ipe_date"}
              [] d = "decimal" -> {"year_decimal"}
              [] OTHER -> {d}
Strings == {"mm/dd/yy", "dd/mm/yy", "yymmdd"}
ClockStrings == {"h:m:s", "hhmmss"}
MomentForms == {"century, year", "year", "serial", "ipe", "decimal"}

Has(r, n) == n \in DOMAIN r
Value(r, n) == IF Has(r, n) THEN r[n] ELSE 0
Day == 24 * 60
Ipe == 1040874840       \* minutes from the year 1 to 1980
IsLeap(y) == (y % 4 = 0 /\ y % 100 # 0) \/ y % 400 = 0
Table(leap) == IF leap THEN <<31, 60, 91, 121, 152, 182, 213, 244, 274, 305, 335, 366>>
               ELSE <<31, 59, 90, 120, 151, 181, 212, 243, 273, 304, 334, 365>>
UpTo(leap, m) == IF m = 0 THEN 0 ELSE Table(leap)[m]
\* (short)(a / b)
Truncated(a, b) == IF a < 0 THEN -((-a) \div b) ELSE a \div b

-----------------------------------------------------------------------------
(* From calendar variables *)

Year(r) ==
    IF ~Has(r, "year") THEN r["century_and_year"]
    ELSE IF r["year"] < 100 /\ Value(r, "century") > 0 THEN r["year"] + 100 * r["century"] ELSE r["year"]

\* cv_ymd2ser replaces midnight by 1:01 (and a second)
Filled(r) ==
    LET m == Value(r, "month") d == Value(r, "day") t == 60 * Value(r, "hour") + Value(r, "minute")
        One(x) == IF x = 0 THEN 1 ELSE x
    IN  IF d = 0 \/ t = 0 THEN [month |-> One(m), day |-> One(d), minutes |-> 61]
        ELSE [month |-> m, day |-> d, minutes |-> t]

YmdKnown(r) == Has(r, "year") \/ Has(r, "century_and_year")
\* The first two months count as the last of the year before
Ymd2Ser_SameYear(r) ==
    LET f == Filled(r) y == Year(r) m == f.month IN
    ((14610 * y + 4) \div 40 + Truncated(306001 * (m + 1) - 630000, 10000) + f.day - 723182
        + 2 - y \div 100 + (y \div 100) \div 4) * Day + f.minutes
Ymd2Ser(r) ==
    LET f == Filled(r)
        early == f.month < 3
        y == Year(r) - (IF early THEN 1 ELSE 0)
        m == f.month + (IF early THEN 12 ELSE 0)
    IN  ((14610 * y + 4) \div 40 + Truncated(306001 * (m + 1) - 630000, 10000) + f.day - 723182
            + 2 - y \div 100 + (y \div 100) \div 4) * Day + f.minutes

\* The same for year_decimal
Ymd2Dec(r) ==
    LET f == Filled(r)
        y == Year(r)
        days == UpTo(FALSE, f.month - 1) + f.day - 1 + (IF IsLeap(y) /\ f.month >= 3 THEN 1 ELSE 0)
    IN  [year |-> y, minutes |-> days * Day + f.minutes, days |-> IF IsLeap(y) THEN 366 ELSE 365]

-----------------------------------------------------------------------------
(* To calendar variables: year, month, day *)

\* cv_ser2ymd, for the years from 1901: in years of 365.25 days, and months of 30.6001;
\* after February the day of the year is overwritten
Ser2Ymd(serial) ==
    LET whole == serial \div Day
        adj == whole + 28855
        year == 1901 + (4 * adj) \div 1461
        centuries == (79 * 1461 - 4 * adj) \div 146100
        correct == centuries - centuries \div 4
        extra == adj - correct - ((year - 1901) * 1461) \div 4
        leap == IF IsLeap(year) THEN 1 ELSE 0
        late == extra > 59 + leap
        days == IF late THEN leap ELSE extra + 365
        first == IF late THEN 1 ELSE 13
        month == Truncated((days + 63) * 10000 - first * 306001, 306001)
        day == days - Truncated((month + first) * 306001 - 630000, 10000)
    IN  CASE day = 0 /\ month = 13 -> [year |-> year, month |-> 12, day |-> 31]
          [] day = 31 /\ month = 0 -> [year |-> year - 1, month |-> 12, day |-> 31]
          [] OTHER -> [year |-> year, month |-> month, day |-> day]

\* cv_ydec2ymd: the first month whose end is not before the moment, so that
\* the first minute of a month belongs to the month before
Dec2Ymd(d) ==
    LET leap == IsLeap(d.year)
        month == CHOOSE m \in 0 .. 12 : /\ d.minutes <= UpTo(leap, m) * Day
                                        /\ \A k \in 0 .. m - 1 : d.minutes > UpTo(leap, k) * Day
        rest == d.minutes - (IF month > 1 THEN UpTo(leap, month - 1) * Day ELSE 0)
    IN  [year |-> d.year, month |-> month, day |-> rest \div Day + 1, hour |-> (rest % Day) \div 60,
         minute |-> rest % 60]

\* What a variable of the calendar has of it
Component(n, c) == CASE n = "century" -> c.year \div 100
                     [] n = "century_and_year" -> c.year
                     [] n = "year" -> c.year % 100
                     [] OTHER -> c[n]
Clock(serial, n) == IF n = "hour" THEN (serial % Day) \div 60 ELSE serial % 60

-----------------------------------------------------------------------------
(* Dates and times of day as strings *)

Digits == <<"0", "1", "2", "3", "4", "5", "6", "7", "8", "9">>
Two(n) == <<Digits[(n \div 10) + 1], Digits[(n % 10) + 1]>>
Number(s) == FoldLeft(LAMBDA n, c : 10 * n + (CHOOSE i \in DOMAIN Digits : Digits[i] = c) - 1, 0, s)
\* Without its leading blanks, and where there are five digits with a zero
Stripped(s) == LET n == Min({i \in DOMAIN s : s[i] # " "} \cup {Len(s) + 1}) IN SubSeq(s, n, Len(s))
Six(s) == LET t == Stripped(s) IN IF Len(t) = 5 THEN <<"0">> \o t ELSE t
\* Zeros at the start become blanks
Blanked(s) == [i \in DOMAIN s |-> IF \A k \in 1 .. i : s[k] = "0" THEN " " ELSE s[i]]

\* The three numbers of a string, in its order
Split(s, mark) ==
    LET t == Stripped(s)
        marks == SetToSortSeq({i \in DOMAIN t : t[i] = mark}, <)
    IN  <<Number(SubSeq(t, 1, marks[1] - 1)), Number(SubSeq(t, marks[1] + 1, marks[2] - 1)),
          Number(SubSeq(t, marks[2] + 1, Len(t)))>>
Pairs(s) == LET t == Six(s) IN <<Number(SubSeq(t, 1, 2)), Number(SubSeq(t, 3, 4)), Number(SubSeq(t, 5, 6))>>

\* cv_date_string
ReadDate(d, s) ==
    LET t == IF d = "yymmdd" THEN Pairs(s) ELSE Split(s, "/") IN
    CASE d = "mm/dd/yy" -> [month |-> t[1], day |-> t[2], year |-> t[3]]
      [] d = "dd/mm/yy" -> [day |-> t[1], month |-> t[2], year |-> t[3]]
      [] d = "yymmdd" -> [year |-> t[1], month |-> t[2], day |-> t[3]]
WriteDate(d, c) ==
    Blanked(CASE d = "mm/dd/yy" -> Two(c.month) \o <<"/">> \o Two(c.day) \o <<"/">> \o Two(c.year)
              [] d = "dd/mm/yy" -> Two(c.day) \o <<"/">> \o Two(c.month) \o <<"/">> \o Two(c.year)
              [] d = "yymmdd" -> Two(c.year) \o Two(c.month) \o Two(c.day))

\* cv_time_string: with colons it has room for seven characters
ReadClock(d, s) == IF d = "h:m:s" THEN Split(s, ":") ELSE Pairs(s)
WriteClock(d, t) ==
    Blanked(IF d = "h:m:s" THEN SubSeq(Two(t[1]) \o <<":">> \o Two(t[2]) \o <<":">> \o Two(t[3]), 1, 7)
            ELSE Two(t[1]) \o Two(t[2]) \o Two(t[3]))

-----------------------------------------------------------------------------
(* convert_functions for a name: {} if none of its functions knows how *)

FromSerial(r, n) ==
    IF ~Has(r, "serial_day_1980") THEN {}
    ELSE LET s == r["serial_day_1980"] IN {IF n \in {"hour", "minute"} THEN Clock(s, n) ELSE Component(n, Ser2Ymd(s))}
Calculated(r, n) ==
    CASE n = "serial_day_1980" ->
             IF Has(r, "ipe_date") THEN {r["ipe_date"] - Ipe} ELSE IF YmdKnown(r) THEN {Ymd2Ser(r)} ELSE {}
      [] n = "ipe_date" ->
             IF Has(r, "serial_day_1980") THEN {r["serial_day_1980"] + Ipe}
             ELSE IF YmdKnown(r) THEN {Ymd2Ser(r) + Ipe} ELSE {}
      [] n = "year_decimal" -> IF YmdKnown(r) THEN {Ymd2Dec(r)} ELSE {}
      [] n \in Strings -> IF form \in Strings THEN {WriteDate(n, ReadDate(form, r[form]))} ELSE {}
      [] n \in ClockStrings -> IF form \in ClockStrings THEN {WriteClock(n, ReadClock(form, r[form]))} ELSE {}
      [] OTHER -> IF Has(r, "year_decimal") THEN {Component(n, Dec2Ymd(r["year_decimal"]))} ELSE FromSerial(r, n)
Converted(r, n) == IF Has(r, n) THEN {r[n]} ELSE Calculated(r, n)

-----------------------------------------------------------------------------
Init ==
    \/ /\ moment \in Moments /\ form = "year"
       /\ record = [n \in Names("year") |-> Component(n, moment)]
    \/ /\ moment \in Dates /\ form = "mm/dd/yy"
       /\ record = [n \in {form} |-> WriteDate(n, moment)]
    \/ /\ moment \in Clocks /\ form = "h:m:s"
       /\ record = [n \in {form} |->
                       Two(moment.hour) \o <<":">> \o Two(moment.minute) \o <<":">> \o Two(moment.second)]

Month == IF "month" \in DOMAIN moment THEN moment.month ELSE 0
Write(d) ==
    LET values == [n \in Names(d) |-> Converted(record, n)] IN
    /\ <<form, d, Month>> \notin Lossy
    /\ \A n \in Names(d) : values[n] # {}
    /\ record' = [n \in Names(d) |-> CHOOSE v \in values[n] : TRUE]
    /\ form' = d
    /\ UNCHANGED moment
Next == \E d \in (MomentForms \cup Strings \cup ClockStrings) \ {form} : Write(d)
Spec == Init /\ [][Next]_vars

-----------------------------------------------------------------------------
(* Properties *)

\* Days from 1980 to a date, year by year and month by month
DaysTo(y, m, d) ==
    LET Length(k) == IF k = 2 THEN IF IsLeap(y) THEN 29 ELSE 28 ELSE IF k \in {4, 6, 9, 11} THEN 30 ELSE 31
        Leaps(a, b) == Cardinality({k \in a .. b : IsLeap(k)})
        years == IF y >= 1980 THEN 365 * (y - 1980) + Leaps(1980, y - 1) ELSE -(365 * (1980 - y) + Leaps(y, 1979))
    IN  years + FoldSet(LAMBDA k, n : n + Length(k), 0, 1 .. m - 1) + d - 1
Minutes(c) == DaysTo(c.year, c.month, c.day) * Day + 60 * c.hour + c.minute
OnCalendar ==
    [year |-> Year(record), month |-> record["month"], day |-> record["day"], hour |-> record["hour"],
     minute |-> record["minute"]]

\* Dates and times with all their digits
Zeros(s) == [i \in DOMAIN s |-> IF s[i] = " " THEN "0" ELSE s[i]]
Digital ==
    LET N(c) == Two(moment[c]) IN
    CASE form = "mm/dd/yy" -> N("month") \o <<"/">> \o N("day") \o <<"/">> \o N("year")
      [] form = "dd/mm/yy" -> N("day") \o <<"/">> \o N("month") \o <<"/">> \o N("year")
      [] form = "yymmdd" -> N("year") \o N("month") \o N("day")
      [] form = "h:m:s" -> N("hour") \o <<":">> \o N("minute") \o <<":">> \o N("second")
      [] form = "hhmmss" -> N("hour") \o N("minute") \o N("second")

\* Whatever a moment, a date or a time was written as on the way, it is the same.
MomentKept ==
    CASE form \in {"year", "century, year"} -> OnCalendar = moment
      [] form = "serial" -> record["serial_day_1980"] = Minutes(moment)
      [] form = "ipe" -> record["ipe_date"] - Ipe = Minutes(moment)
      [] form = "decimal" ->
           LET d == record["year_decimal"] IN
           d.year = moment.year /\ d.minutes = Minutes(moment) - DaysTo(moment.year, 1, 1) * Day
      [] OTHER -> Zeros(record[form]) = Digital
=============================================================================
