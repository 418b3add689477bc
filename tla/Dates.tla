------------------------------- MODULE Dates --------------------------------
(***************************************************************************)
(* The date functions of the handler: a constraint selects rows by their   *)
(* date, time or both (date, start_time, date_time, date_range, ...) and   *)
(* adds columns that show them (DODS_Date, DODS_JDate, ...).  Which        *)
(* variables of a row are its date is said by attributes (the factories).  *)
(*                                                                         *)
(* A text is a date and a time, either of which may be missing: the parts  *)
(* they are made of and what is between them.  A date is also its day of   *)
(* the year and its Julian day, as in DODS_Date.  A                        *)
(* decimal year is its year and the seconds since it began: fourteen       *)
(* digits keep a second.  What refuses an argument, by an exception or an  *)
(* assertion, is the empty set of results; more than one result is a value *)
(* that was never set.                                                     *)
(***************************************************************************)
EXTENDS Integers, Sequences, SequencesExt, FiniteSets, FiniteSetsExt, TLC

CONSTANTS Requests,      \* [shows, tests]: the functions of a constraint
          Datasets       \* [rows, form, base, monthDay, has]

VARIABLES request, dataset, clauses, row, columns, sent, failed
dateVars == <<request, dataset, clauses, row, columns, sent, failed>>

-----------------------------------------------------------------------------
(* date_proc *)

IsLeap(y) == y % 4 = 0 /\ (y % 100 # 0 \/ y % 400 = 0)
DaysInYear(y) == IF IsLeap(y) THEN 366 ELSE 365
DaysInMonth(y, m) == IF m = 2 THEN (IF IsLeap(y) THEN 29 ELSE 28) ELSE IF m \in {4, 6, 9, 11} THEN 30 ELSE 31
Exists(y, m, d) == y > 0 /\ m \in 1 .. 12 /\ d \in 1 .. DaysInMonth(y, m)
Past(b) == IF b THEN 1 ELSE 0
JulianDay(y, m, d) ==
    y * 367 + ((m * 275) \div 9) - (((y + Past(m > 2)) * 7) \div 4)
      - (((((y - Past(m < 3)) \div 100) + 1) * 3) \div 4) + d + 1721029
MonthDayToDays(y, m, d) == d + MapThenSumSet(LAMBDA k : DaysInMonth(y, k), 1 .. m - 1)
DaysToMonthDay(y, n) ==
    LET m == CHOOSE k \in 1 .. 12 : n - MonthDayToDays(y, k, 0) \in 1 .. DaysInMonth(y, k)
    IN  <<m, n - MonthDayToDays(y, m, 0)>>

-----------------------------------------------------------------------------
(* DODS_Date *)

ByMonth(y, m, d, form) ==
    IF ~Exists(y, m, d) THEN {}
    ELSE {[year |-> y, month |-> m, day |-> d, number |-> MonthDayToDays(y, m, d),
           julian |-> JulianDay(y, m, d), form |-> form]}
ByDay(y, n) ==
    IF y <= 0 \/ n \notin 1 .. DaysInYear(y) THEN {}
    ELSE {[year |-> y, month |-> p[1], day |-> p[2], number |-> n, julian |-> JulianDay(y, p[1], p[2]), form |-> "yd"]
             : p \in {DaysToMonthDay(y, n)}}

\* parse_fractional_time: the length of the year is that of _year, which the
\* constructor has not set
Seconds == 24 * 3600
Fractional(s) ==
    UNION {LET days == DaysInYear(s.year)
               scaled == (s.seconds \div days) * length + ((2 * (s.seconds % days) * length + days) \div (2 * days))
               n == (scaled \div Seconds) + 1
           IN  IF n = length + 1 THEN ByDay(s.year + 1, 1) ELSE ByDay(s.year, n)
           : length \in {365, 366}}

ReadDate(s) ==
    CASE s.mark = "." -> Fractional(s)
      [] s.mark = "/" /\ Len(s.parts) = 3 -> ByMonth(s.parts[1], s.parts[2], s.parts[3], "ymd")
      [] s.mark = "/" /\ Len(s.parts) = 2 -> ByDay(s.parts[1], s.parts[2])
      [] s.mark = "-" /\ Len(s.parts) = 3 -> ByMonth(s.parts[1], s.parts[2], s.parts[3], "ymd")
      [] s.mark = "-" /\ Len(s.parts) = 2 -> ByMonth(s.parts[1], s.parts[2], 1, "ym")
      [] s.mark = "" -> ByMonth(s.parts[1], 1, 1, "ymd")      \* "-1-1" is added
      [] s.mark \notin {".", ""} /\ ~ (s.mark \in {"/", "-"} /\ Len(s.parts) \in {2, 3}) -> {}

WriteDate(d, form) ==
    IF form = "yd" THEN [mark |-> "/", parts |-> <<d.year, d.number>>]
    ELSE [mark |-> "/", parts |-> <<d.year, d.month, d.day>>]

FirstOfMonth(d) == JulianDay(d.year, d.month, 1)
LastOfMonth(d) == JulianDay(d.year, d.month, DaysInMonth(d.year, d.month))
\* The operators: only the second date may stand for its month
DateEq(a, b) == IF b.form = "ym" THEN b.julian \in FirstOfMonth(a) .. LastOfMonth(a) ELSE a.julian = b.julian
DateLe_Mirrored(a, b) == IF b.form = "ym" THEN b.julian <= LastOfMonth(a) ELSE a.julian <= b.julian
DateLe(a, b) == IF b.form = "ym" THEN b.julian >= FirstOfMonth(a) ELSE a.julian <= b.julian
DateGe(a, b) == IF b.form = "ym" THEN b.julian <= LastOfMonth(a) ELSE a.julian >= b.julian

-----------------------------------------------------------------------------
(* DODS_Time: seconds since midnight, in halves *)

Time(h, m, s) == IF h \in 0 .. 23 /\ m \in 0 .. 59 /\ s \in 0 .. 119 THEN {2 * 60 * (60 * h + m) + s} ELSE {}
ReadTime(t) == IF t = <<>> THEN {} ELSE Time(t[1], IF Len(t) > 1 THEN t[2] ELSE 0, IF Len(t) > 2 THEN t[3] ELSE 0)
NoDate == [mark |-> "none", parts |-> <<>>]
WriteTime(n) == <<n \div (2 * 3600), (n \div (2 * 60)) % 60, n % (2 * 60)>>

-----------------------------------------------------------------------------
(* DODS_Date_Time: a date, a colon and a time, or a decimal year *)

\* A point anywhere makes it a decimal year: that of the digits in front
HasPoint(s) == s.date.mark = "." \/ (Len(s.time) = 3 /\ s.time[3] % 2 = 1)
ReadDecimal(y, n) == {[date |-> d, time |-> 2 * (n % Seconds)] : d \in ByDay(y, (n \div Seconds) + 1)}
ReadDateTime(s) ==
    CASE s.date.mark = "." -> ReadDecimal(s.date.year, s.date.seconds)
      [] s.date.mark # "." /\ HasPoint(s) -> {[date |-> d, time |-> 0] : d \in ByDay(s.date.parts[1], 1)}
      \* without a colon the date is read as the time as well
      [] ~HasPoint(s) /\ s.time = <<>> -> {[date |-> d, time |-> t] : d \in ReadDate(s.date), t \in ReadTime(<<s.date.parts[1]>>)}
      [] ~HasPoint(s) /\ s.time # <<>> -> {[date |-> d, time |-> t] : d \in ReadDate(s.date), t \in ReadTime(s.time)}
WriteDateTime(x, form) ==
    IF form = "decimal"
    THEN [date |-> [mark |-> ".", year |-> x.date.year, seconds |-> (x.date.number - 1) * Seconds + x.time \div 2], time |-> <<>>]
    ELSE [date |-> WriteDate(x.date, form), time |-> WriteTime(x.time)]

BothEq(a, b) == DateEq(a.date, b.date) /\ a.time = b.time
BothLe(a, b) == BothEq(a, b) \/ a.date.julian < b.date.julian \/ (DateEq(a.date, b.date) /\ a.time < b.time)
BothGe(a, b) == BothEq(a, b) \/ a.date.julian > b.date.julian \/ (DateEq(a.date, b.date) /\ a.time > b.time)

-----------------------------------------------------------------------------
(* The factories: which is "date", "start" or "end" *)

RowDate(which, n) ==
    LET v == dataset.rows[n][which].date
    IN  IF which \notin dataset.has THEN {}
        ELSE CASE dataset.form = "ymd" -> ByMonth(v[1] + dataset.base, v[2], v[3], "ymd")
               [] dataset.form = "yd" -> ByDay(v[1] + dataset.base, v[2])
               [] dataset.form = "ym" -> ByMonth(v[1] + dataset.base, v[2], dataset.monthDay, "ym")
RowTime(which, n) == IF which \notin dataset.has THEN {} ELSE ReadTime(dataset.rows[n][which].time)
RowDateTime(which, n) == {[date |-> d, time |-> t] : d \in RowDate(which, n), t \in RowTime(which, n)}

-----------------------------------------------------------------------------
(* The functions, as ff_register_functions names them *)

Compare(kind, which) == [does |-> "compare", kind |-> kind, which |-> which, form |-> "ymd", args |-> <<>>]
Show(kind, which, form) == [does |-> "show", kind |-> kind, which |-> which, form |-> form, args |-> <<>>]
Selections ==
    [date |-> Compare("date", "date"), start_date |-> Compare("date", "start"), end_date |-> Compare("date", "end"),
     time |-> Compare("time", "date"), start_time |-> Compare("time", "start"), end_time |-> Compare("time", "end"),
     date_time |-> Compare("both", "date"), start_date_time |-> Compare("both", "start"), end_date_time |-> Compare("both", "end"),
     date_range |-> [Compare("date", "date") EXCEPT !.does = "range"]]
Projections ==
    [DODS_Time |-> Show("time", "date", "ymd"), DODS_StartTime |-> Show("time", "start", "ymd"), DODS_EndTime |-> Show("time", "end", "ymd"),
     DODS_JDate |-> Show("date", "date", "yd"),
     DODS_Date |-> Show("date", "date", "ymd"), DODS_StartDate |-> Show("date", "start", "ymd"), DODS_EndDate |-> Show("date", "end", "ymd"),
     DODS_Date_Time |-> Show("both", "date", "ymd"), DODS_StartDate_Time |-> Show("both", "start", "ymd"),
     DODS_EndDate_Time |-> Show("both", "end", "ymd"),
     DODS_Decimal_Year |-> Show("both", "date", "decimal"), DODS_StartDecimal_Year |-> Show("both", "start", "decimal"),
     DODS_EndDecimal_Year |-> Show("both", "end", "decimal")]
Column(name) == Projections[name]
Condition(t) == [Selections[t.name] EXCEPT !.args = t.args]

Instance(f, n) ==
    CASE f.kind = "date" -> RowDate(f.which, n)
      [] f.kind = "time" -> RowTime(f.which, n)
      [] f.kind = "both" -> RowDateTime(f.which, n)
ReadArgument(kind, s) ==
    CASE kind = "date" -> ReadDate(s.date) [] kind = "time" -> ReadTime(s.time) [] kind = "both" -> ReadDateTime(s)
Eq(kind, a, b) == CASE kind = "date" -> DateEq(a, b) [] kind = "time" -> a = b [] kind = "both" -> BothEq(a, b)
Le(kind, a, b) == CASE kind = "date" -> DateLe(a, b) [] kind = "time" -> a <= b [] kind = "both" -> BothLe(a, b)
Ge(kind, a, b) == CASE kind = "date" -> DateGe(a, b) [] kind = "time" -> a >= b [] kind = "both" -> BothGe(a, b)

Comparison(f) ==
    LET k == f.kind
        Read(i) == ReadArgument(k, f.args[i])
    IN  IF Len(f.args) = 1 THEN {Eq(k, t1, c) : t1 \in Read(1), c \in Instance(f, row)}
        ELSE {Le(k, t1, c) /\ Ge(k, t2, c) : t1 \in Read(1), t2 \in Read(2), c \in Instance(f, row)}
InRange(s, e, t1, t2) ==
    \/ DateGe(s, t1) /\ DateLe(s, t2)
    \/ DateGe(e, t1) /\ DateLe(e, t2)
    \/ DateLe(s, t1) /\ DateGe(e, t2)
RangeComparison(f) ==
    {InRange(s, e, t1, t2)
     : t1 \in ReadArgument("date", f.args[1]), t2 \in ReadArgument("date", f.args[2]), s \in RowDate("start", row), e \in RowDate("end", row)}
Test(f) ==
    CASE f.does = "range" -> IF Len(f.args) = 2 THEN RangeComparison(f) ELSE {}
      [] f.does = "compare" -> IF Len(f.args) \in {1, 2} THEN Comparison(f) ELSE {}
      [] f.does = "show" -> IF Instance(f, row) = {} THEN {} ELSE {TRUE}

\* sel_dods_*: the text for the new column
Shown(f) ==
    LET v == CHOOSE x \in Instance(f, row) : TRUE
    IN  CASE f.kind = "date" -> [date |-> WriteDate(v, f.form), time |-> <<>>]
          [] f.kind = "time" -> [date |-> NoDate, time |-> WriteTime(v)]
          [] f.kind = "both" -> WriteDateTime(v, f.form)

-----------------------------------------------------------------------------
(* What is asked, and of what *)

IsNumbers(t, n) == t \in Seq(Int) /\ Len(t) \in n
IsDateText(d) ==
    \/ d.mark = "." /\ d.year \in Nat /\ d.seconds \in Nat
    \/ d.mark \in {"/", "-", ""} /\ IsNumbers(d.parts, 1 .. 3)
    \/ d = NoDate
IsText(s) == IsDateText(s.date) /\ IsNumbers(s.time, 0 .. 3)
IsRequest(r) ==
    /\ r.shows \in Seq(DOMAIN Projections) /\ r.tests \in Seq(ToSet(r.tests))
    /\ \A t \in ToSet(r.tests) : t.name \in DOMAIN Selections /\ t.args \in Seq(ToSet(t.args)) /\ \A s \in ToSet(t.args) : IsText(s)
IsDataset(d) ==
    /\ d.form \in {"ymd", "yd", "ym"} /\ d.base \in Int /\ d.monthDay \in Int
    /\ d.rows \in Seq(ToSet(d.rows))
    /\ \A r \in ToSet(d.rows), which \in {"date", "start", "end"} :
          IsNumbers(r[which].date, {IF d.form = "ymd" THEN 3 ELSE 2}) /\ IsNumbers(r[which].time, 1 .. 3)
ASSUME RequestsAssumption == \A r \in Requests : IsRequest(r)
ASSUME DatasetsAssumption == \A d \in Datasets : IsDataset(d)

-----------------------------------------------------------------------------
DatesInit ==
    /\ request \in Requests /\ dataset \in Datasets
    /\ clauses = <<>> /\ columns = <<>>
    /\ row = 0 /\ sent = <<>> /\ failed = FALSE

\* proj_dods_*, while the constraint is parsed: a column and a clause to fill it
Project ==
    /\ row = 0 /\ Len(columns) < Len(request.shows)
    /\ columns' = Append(columns, [date |-> NoDate, time |-> <<>>])
    /\ clauses' = Append(clauses, Column(request.shows[Len(columns) + 1]))
    /\ UNCHANGED <<request, dataset, row, sent, failed>>
Parsed ==
    /\ row = 0 /\ Len(columns) = Len(request.shows)
    /\ clauses' = clauses \o [i \in DOMAIN request.tests |-> Condition(request.tests[i])]
    /\ row' = 1
    /\ UNCHANGED <<request, dataset, columns, sent, failed>>

\* A row is sent if every clause says so; they are asked in turn
ReadRow ==
    /\ row \in 1 .. Len(dataset.rows) /\ ~failed
    /\ \E asked \in {[i \in DOMAIN clauses |-> Test(clauses[i])]} :
         LET stops == {i \in DOMAIN clauses : TRUE \notin asked[i]}
             first == IF stops = {} THEN Len(clauses) + 1 ELSE CHOOSE i \in stops : \A j \in stops : i <= j
         IN  \E shown \in {[i \in DOMAIN columns |-> IF i < first THEN Shown(clauses[i]) ELSE columns[i]]} :
               \/ /\ first <= Len(clauses) /\ asked[first] = {}
                  /\ failed' = TRUE /\ UNCHANGED <<row, columns, sent>>
               \/ /\ first > Len(clauses)
                  /\ columns' = shown /\ sent' = Append(sent, [row |-> row, columns |-> shown])
                  /\ row' = row + 1 /\ UNCHANGED failed
               \/ /\ \E i \in DOMAIN clauses : i <= first /\ FALSE \in asked[i]
                  /\ columns' = shown /\ row' = row + 1 /\ UNCHANGED <<sent, failed>>
    /\ UNCHANGED <<request, dataset, clauses>>

DatesNext == Project \/ Parsed \/ ReadRow
DatesSpec == DatesInit /\ [][DatesNext]_dateVars

-----------------------------------------------------------------------------
(* Properties *)

\* The calendar, counted another way
Before31 == <<0, 31, 59, 90, 120, 151, 181, 212, 243, 273, 304, 334>>
Ordinal(y, m, d) ==
    365 * (y - 1) + ((y - 1) \div 4) - ((y - 1) \div 100) + ((y - 1) \div 400)
      + Before31[m] + (IF m > 2 /\ IsLeap(y) THEN 1 ELSE 0) + d
\* An argument as a number of days, or of months
Months(s) ==
    CASE s.mark = "/" /\ Len(s.parts) = 2 -> 12 * s.parts[1] + DaysToMonthDay(s.parts[1], s.parts[2])[1]
      [] s.mark = "" -> 12 * s.parts[1] + 1
      [] s.mark \in {"/", "-"} /\ ~ (s.mark = "/" /\ Len(s.parts) = 2) -> 12 * s.parts[1] + s.parts[2]
Days(s) ==
    CASE s.mark = "/" /\ Len(s.parts) = 2 -> Ordinal(s.parts[1], 1, 1) + s.parts[2] - 1
      [] s.mark = "" -> Ordinal(s.parts[1], 1, 1)
      [] s.mark = "-" /\ Len(s.parts) = 2 -> Ordinal(s.parts[1], s.parts[2], 1)
      [] s.mark \in {"/", "-"} /\ Len(s.parts) # 2 -> Ordinal(s.parts[1], s.parts[2], s.parts[3])
ByMonths == dataset.form = "ym"
Moment(s) == IF ByMonths THEN Months(s) ELSE Days(s)
\* What a row says, in the same way; a row of a month has the month's first day
RowDay(which, n) ==
    LET v == dataset.rows[n][which].date
        y == v[1] + dataset.base
    IN  CASE dataset.form = "ymd" -> Ordinal(y, v[2], v[3])
          [] dataset.form = "yd" -> Ordinal(y, 1, 1) + v[2] - 1
          [] dataset.form = "ym" -> Ordinal(y, v[2], 1)
Said(which, n) ==
    LET v == dataset.rows[n][which].date
    IN  IF ByMonths THEN 12 * (v[1] + dataset.base) + v[2] ELSE RowDay(which, n)
Clock(t) == Time(t[1], IF Len(t) > 1 THEN t[2] ELSE 0, IF Len(t) > 2 THEN t[3] ELSE 0)
Before(a, b) == a[1] < b[1] \/ (a[1] = b[1] /\ a[2] <= b[2])

\* What a test means for a row; {} where the functions say something else: a
\* decimal year, fractions of a second, times in rows of months
Plain(f) ==
    /\ Len(f.args) \in IF f.does = "range" THEN {2} ELSE {1, 2}
    /\ \A i \in DOMAIN f.args :
       CASE f.kind = "date" -> f.args[i].date.mark # "."
         [] f.kind = "time" -> TRUE
         [] f.kind = "both" -> ~HasPoint(f.args[i]) /\ f.args[i].time # <<>> /\ ~ByMonths
At(f, i) ==
    CASE f.kind = "date" -> {<<Moment(f.args[i].date), 0>>}
      [] f.kind = "time" -> {<<0, t>> : t \in Clock(f.args[i].time)}
      [] f.kind = "both" -> {<<Moment(f.args[i].date), t>> : t \in Clock(f.args[i].time)}
Now(f, n) ==
    {<<IF f.kind = "time" THEN 0 ELSE Said(f.which, n), IF f.kind = "date" THEN 0 ELSE t>> :
        t \in IF f.kind = "date" THEN {0} ELSE Clock(dataset.rows[n][f.which].time)}
\* The last day of an argument of date_range, where a month is all of its days
IsMonth(s) == s.mark = "-" /\ Len(s.parts) = 2
LastDay(s) == Days(s) + IF IsMonth(s) THEN DaysInMonth(s.parts[1], s.parts[2]) - 1 ELSE 0
\* A row and a range have a day in common; {} if either ends before it begins, if only one of
\* the range's ends is a month and the other a day of it, or of days for rows of months
Overlap(f, n) ==
    LET a(i) == f.args[i].date
        inOrder == LastDay(a(1)) < Days(a(2)) \/ (Days(a(1)) = Days(a(2)) /\ LastDay(a(1)) = LastDay(a(2)))
    IN  IF /\ inOrder /\ RowDay("start", n) <= RowDay("end", n)
           /\ ByMonths => IsMonth(a(1)) /\ IsMonth(a(2))
        THEN {RowDay("start", n) <= LastDay(a(2)) /\ Days(a(1)) <= RowDay("end", n)} ELSE {}
Meaning(f, n) ==
    CASE ~Plain(f) -> {}
      [] Plain(f) /\ f.does = "range" -> Overlap(f, n)
      [] Plain(f) /\ f.does = "compare" /\ Len(f.args) = 1 -> {x = a : a \in At(f, 1), x \in Now(f, n)}
      [] Plain(f) /\ f.does = "compare" /\ Len(f.args) = 2 ->
            {Before(a, x) /\ Before(x, b) : a \in At(f, 1), b \in At(f, 2), x \in Now(f, n)}

\* A row that has been read is sent if, and only if, it is at the moment or in
\* the period that each function of the constraint names, its ends included;
\* for date_range, if it has a day in common with the range (comparison and
\* range_comparison of ff_ce_functions.cc)
RowsSelected ==
    \A n \in 1 .. row - 1 :
        \A meanings \in {[i \in DOMAIN request.tests |-> Meaning(Condition(request.tests[i]), n)]} :
            LET known == {i \in DOMAIN meanings : meanings[i] # {}}
                meant == \A i \in known : TRUE \in meanings[i]
                isSent == \E k \in DOMAIN sent : sent[k].row = n
            IN  /\ isSent => meant
                /\ known = DOMAIN meanings /\ meant => isSent

SameDay(d, e) == Ordinal(d.year, d.month, d.day) = Ordinal(e.year, e.month, e.day)
Says(f, v, again) ==
    CASE f.kind = "date" -> \A d \in again : SameDay(d, v)
      [] f.kind = "time" -> again = {v}
      [] f.kind = "both" -> again # {} /\ (v.time % 2 = 0 => \A x \in again : x.time = v.time /\ SameDay(x.date, v.date))
\* The columns a constraint adds say the moment of the row they are sent with:
\* read again by the same functions they give it back, but for the fractions of
\* a second
ColumnsRight ==
    \A k \in DOMAIN sent : \A i \in DOMAIN request.shows : \A f \in {Column(request.shows[i])} :
        \A v \in Instance(f, sent[k].row) : Says(f, v, ReadArgument(f.kind, sent[k].columns[i]))

\* A client gets the rows that it asks for, and with them columns that say
\* their dates and times (the functions of ff_register_functions)
DatesRight == RowsSelected /\ ColumnsRight
=============================================================================
