------------------------------ MODULE MCValues -------------------------------
(* What happens to the values on their way, each by itself: records are        *)
(* converted, positions and times written in another way, codes looked up.     *)
EXTENDS Integers, Sequences, FiniteSets, SequencesExt, FiniteSetsExt

CONSTANTS Nil, LossyTimes

VARIABLES job, mids, template, warned, out, mm, rec, var, error,
          position, form, record,
          moment, timeForm, timeRecord,
          item, answer, start, survey, offsets,
          part

conversionVars == <<job, mids, template, warned, out, mm, rec, var, error>>
positionVars == <<position, form, record>>
timeVars == <<moment, timeForm, timeRecord>>
catalogVars == <<item, answer, start, survey, offsets>>

-----------------------------------------------------------------------------
(* Formats and records *)

V(n, k, t, l, p) == [name |-> n, kind |-> k, type |-> t, len |-> l, prec |-> p]
X == <<"x">>
Types == {"int8", "uint8", "float64"}
Precs(t) == IF t = "float64" THEN {2} ELSE {0, 1}
Numbers == {<<" ", " ", " ">>, <<" ", "1", "5">>, <<"1", " ", " ">>, <<"-", "4", " ">>, <<"2", "5", "6">>,
            <<" ", ".", "4">>, <<"9", ".", "5">>, <<"-", ".", "5">>, <<"a", "1", " ">>}
Fields(t) == CASE t = "int8" -> {<<-128000>>, <<5000>>, <<127000>>}
               [] t = "uint8" -> {<<0>>, <<255000>>, <<14000>>}
               [] t = "float64" -> {<<-128400>>, <<-128500>>, <<126500>>, <<255490>>, <<450>>, <<-500>>}
Job(ins, outs, records) ==
    [ins |-> ins, outs |-> outs, inAscii |-> FALSE, outAscii |-> FALSE, records |-> records,
     tail |-> Nil, initial |-> Nil, missing |-> {0}]
Read(j) == [j EXCEPT !.inAscii = TRUE]
ToText(j) == [j EXCEPT !.outAscii = TRUE]
\* One number, from and to each type and length
OneNumber ==
    UNION {{Job(<<V(X, "value", t, 3, p)>>, <<V(X, "value", u, l, q)>>, <<<<f>>>>) :
               f \in Fields(t), l \in {2, 5}, q \in Precs(u)} : t, u \in Types, p \in {0, 1, 2}}
Plain == {j \in OneNumber : j.ins[1].prec \in Precs(j.ins[1].type)}
FromText ==
    {Read([j EXCEPT !.records = <<<<f>>, <<g>>>>]) :
        j \in {i \in Plain : i.records = <<<<CHOOSE f \in Fields(i.ins[1].type) : TRUE>>>>}, f, g \in Numbers}
\* Several variables of all kinds
A3 == <<"a", "b", "c">>
Other == {V(<<"c">>, "constant", "text", 3, 0), V(<<"i">>, "initial", "text", 2, 0), V(<<"e">>, "eqn", "float64", 6, 2),
          V(<<"e">>, "eqn", "uint8", 4, 0), V(<<"x", "abs">>, "value", "int8", 4, 0), V(<<"x", "side">>, "value", "text", 1, 0),
          V(<<"t">>, "value", "text", 2, 0), V(<<"t">>, "value", "text", 5, 0), V(<<"t">>, "value", "int8", 5, 0),
          V(<<"n">>, "value", "float64", 6, 2)}
Mixed ==
    {[Job(<<V(X, "value", "int8", 3, 0), V(<<"t">>, "value", "text", 3, 0)>>, <<V(X, "value", "float64", 6, 2), o>>,
          <<<<n1, A3>>, <<n2, A3>>, <<n3, A3>>>>)
      EXCEPT !.inAscii = TRUE, !.outAscii = a, !.tail = t, !.initial = i] :
        o \in Other, n1, n2, n3 \in {<<" ", "-", "5">>, <<"1", " ", "2">>, <<" ", " ", "0">>}, a \in BOOLEAN,
        t \in {Nil, <<<<" ", " ", "7">>, A3>>}, i \in {Nil, <<"i">>, <<"i", "n", "i">>}}
MCJobs == Plain \cup {ToText(j) : j \in Plain} \cup FromText \cup {ToText(j) : j \in FromText} \cup Mixed

C == INSTANCE Conversion WITH Jobs <- MCJobs

-----------------------------------------------------------------------------
(* Positions: on the equator, on the meridian, next to them, and all signs.    *)

MCAngles == {0, 1, -1, 59, -60, 3599, -3599, -3600, 3661, 45296, -45296}
Sided == {"abs, side", "abs, sign", "dms, side", "dms, sign", "dms, geog", "dms, WMO"}
Parts == {"dms", "dm"}
\* From a side to signed parts (cv_dms overwrites what it has made of the letter); from a sign to a
\* signed number (cv_deg looks at it only if it is a code); from parts to a side (cv_nsew looks at
\* the degrees, which may be 0); and the seconds, where they are not written
MCLossy == (Sided \X Parts) \cup {<<"dms, sign", "signed">>} \cup (Parts \X Sided) \cup {<<"dms", "dm">>}

P == INSTANCE Positions WITH
        Angles <- MCAngles, Lossy <- MCLossy, Descriptions <- Sided \cup Parts \cup {"signed", "negate", "east"}

-----------------------------------------------------------------------------
(* Times: around the ends of months, leap years and centuries, from 1901 to    *)
(* 2079, but not at midnight, and no year 00.                                  *)

Day(y, m, d) == [year |-> y, month |-> m, day |-> d]
Ends(m) == CASE m = 2 -> {1, 2, 27, 28} [] m \in {4, 6, 9, 11} -> {1, 30} [] OTHER -> {1, 2, 30, 31}
MCMoments ==
    {[year |-> y, month |-> m, day |-> d, hour |-> t[1], minute |-> t[2]] :
        <<m, d>> \in {<<m, d>> \in (1 .. 12) \X (1 .. 31) : d \in Ends(m)},
        y \in {1901, 1904, 1950, 1979, 1980, 1981, 1999, 2000, 2001, 2079},
        t \in {<<0, 1>>, <<12, 0>>, <<23, 59>>}}
    \cup {[year |-> y, month |-> 2, day |-> 29, hour |-> 23, minute |-> 59] : y \in {1904, 1980, 2000}}
MCDates == {Day(y, m, d) : y \in {1, 9, 10, 99}, m \in {1, 9, 12}, d \in {1, 9, 31}}
MCClocks == {[hour |-> h, minute |-> m, second |-> s] : h \in {0, 1, 10, 23}, m \in {0, 9, 59}, s \in {0, 7, 59}}
\* After February cv_ser2ymd overwrites the day of the year (see the README);
\* h:m:s loses the last digit of the seconds
HhmmssLoses == {<<"hhmmss", "h:m:s", 0>>}
MCLossyTimes == ({"serial"} \X {"year", "century, year"} \X (3 .. 12)) \cup HhmmssLoses

T == INSTANCE Times WITH
        Moments <- MCMoments, Dates <- MCDates, Clocks <- MCClocks, Lossy <- LossyTimes,
        form <- timeForm, record <- timeRecord

-----------------------------------------------------------------------------
(* Catalogues: short words with repeats, lines of the letters of the codes,     *)
(* and two surveys one after the other.                                        *)

Words(letters, n) == UNION {[1 .. k -> letters] : k \in 1 .. n}
MCLines == Words({"a", "b"}, 7) \cup Words({"b", "f", "m", "d", "v"}, 4)
MCPatterns == Words({"a", "b"}, 4)
MCMagnitudes == [mb : {-1, 0, 50, 990}, ms1 : {-1, 650}, ms2 : {-1, 7, 999}]
At(t, s, f) == [time |-> t, starts |-> s, since |-> f]
Files == {<<At(3, TRUE, 3), At(4, FALSE, 3), At(5, FALSE, 3)>>, <<At(6, TRUE, 6), At(8, TRUE, 8), At(9, FALSE, 8)>>,
          <<At(1, TRUE, 1)>>}
MCSurveys == {<<f, g>> : f, g \in Files}

K == INSTANCE Catalogs WITH Lines <- MCLines, Patterns <- MCPatterns, Magnitudes <- MCMagnitudes,
                            Surveys <- MCSurveys, Unknown <- "?"

-----------------------------------------------------------------------------
NoConversion ==
    /\ job = Nil /\ mids = <<>> /\ template = <<>> /\ warned = FALSE /\ out = <<>> /\ mm = <<>>
    /\ rec = 0 /\ var = 0 /\ error = "none"
NoPosition == position = Nil /\ form = "none" /\ record = <<>>
NoTime == moment = Nil /\ timeForm = "none" /\ timeRecord = <<>>
NoCatalog == item = Nil /\ answer = {} /\ start = 0 /\ survey = <<>> /\ offsets = <<>>

Init ==
    \/ part = "conversion" /\ C!Init /\ NoPosition /\ NoTime /\ NoCatalog
    \/ part = "position" /\ P!Init /\ NoConversion /\ NoTime /\ NoCatalog
    \/ part = "time" /\ T!Init /\ NoConversion /\ NoPosition /\ NoCatalog
    \/ part = "catalog" /\ K!Init /\ NoConversion /\ NoPosition /\ NoTime
Next ==
    \/ part = "conversion" /\ C!Next /\ UNCHANGED <<positionVars, timeVars, catalogVars, part>>
    \/ part = "position" /\ P!Next /\ UNCHANGED <<conversionVars, timeVars, catalogVars, part>>
    \/ part = "time" /\ T!Next /\ UNCHANGED <<conversionVars, positionVars, catalogVars, part>>
    \/ part = "catalog" /\ K!Next /\ UNCHANGED <<conversionVars, positionVars, timeVars, part>>
Spec == Init /\ [][Next]_<<conversionVars, positionVars, timeVars, catalogVars, part>>

\* Of Conversion: a field holds the number that the input says
ConversionRight == part = "conversion" => C!ConversionRight
\* Of Positions: whatever a position is written as, it is the same
PositionKept == part = "position" => P!PositionKept
\* Of Times: and so are moments, dates and times of day
MomentKept == part = "time" => T!MomentKept
\* Of Catalogs: the first place is found, and codes, magnitudes and times are right
CatalogsRight == part = "catalog" => K!CatalogsRight
=============================================================================
