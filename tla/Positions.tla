------------------------------ MODULE Positions ------------------------------
(* The converters of cv_units.c for latitudes and longitudes: a variable that   *)
(* the input does not have is calculated from others, by the first function    *)
(* of the table of proclist.c that knows how.  A format's description of a       *)
(* position is a set of variables; a behaviour writes the position in one       *)
(* description after another, as a chain of newform runs does.                 *)
(*                                                                            *)
(* A number is a count of 3600ths; a letter or a sign is a string.  A name is   *)
(* the sequence of what its underscores separate.                             *)
EXTENDS Integers, Sequences, FiniteSets, SequencesExt

CONSTANTS
    Angles,         \* the latitudes and longitudes, in seconds
    Descriptions,   \* what positions are written as (see Names)
    Lossy           \* pairs of descriptions between which the code loses the sign

VARIABLES
    position,   \* what was written first: [latitude, longitude]
    form,       \* the description it is written as now
    record      \* the values of its variables

vars == <<position, form, record>>

Bases == {"latitude", "longitude"}
Side(b) == IF b = "latitude" THEN "ns" ELSE "ew"
Abs3(b) == {<<b, p, "abs">> : p \in {"deg", "min", "sec"}}
Names(d) ==
    LET Of(b) == CASE d = "signed" -> {<<b>>}
                   [] d = "dms" -> {<<b, "deg">>, <<b, "min">>, <<b, "sec">>}
                   [] d = "dm" -> {<<b, "deg">>, <<b, "min">>}
                   [] d = "abs, side" -> {<<b, "abs">>, <<b, Side(b)>>}
                   [] d = "abs, sign" -> {<<b, "abs">>, <<b, "sign">>}
                   [] d = "dms, side" -> Abs3(b) \cup {<<b, Side(b)>>}
                   [] d = "dms, sign" -> Abs3(b) \cup {<<b, "sign">>}
                   [] d = "dms, geog" -> Abs3(b) \cup {<<"geog_quad_code">>}
                   [] d = "dms, WMO" -> Abs3(b) \cup {<<"WMO_quad_code">>}
                   [] d = "negate" -> {<<b, "negate">>}
                   [] d = "east" -> IF b = "latitude" THEN {<<b>>} ELSE {<<b, "east">>}
    IN  UNION {Of(b) : b \in Bases}

-----------------------------------------------------------------------------
(* The functions: {} when they do not know how, as their return value 0.       *)
(* r is the input record, n the name of the output variable.                   *)

Has(r, n) == n \in DOMAIN r
FirstOf(r, names) == LET s == SelectSeq(names, LAMBDA n : Has(r, n)) IN IF s = <<>> THEN <<>> ELSE s[1]
Size(x) == IF x < 0 THEN -x ELSE x
Trunc(x) == (IF x < 0 THEN -1 ELSE 1) * (Size(x) \div 3600) * 3600
Part(b, p) == <<<<b, p>>, <<b, p, "abs">>>>

\* Whether the letter of r's variable n, and what geog and WMO quadrants say, is south or west
IsNegative(r, n, b) ==
    CASE n = <<"geog_quad_code">> -> r[n] \in (IF b = "latitude" THEN {"3", "4"} ELSE {"2", "4"})
      [] n = <<"WMO_quad_code">> -> r[n] \in (IF b = "latitude" THEN {"3", "5"} ELSE {"5", "7"})
      [] OTHER -> r[n] \in {"S", "W"}

\* cv_deg: the minutes and the seconds count in the direction that the sum has so far
CvDeg_NoSign(r, b) ==
    LET V(p) == LET n == FirstOf(r, Part(b, p)) IN IF n = <<>> THEN 0 ELSE r[n]
    IN  IF \A p \in {"deg", "min", "sec"} : FirstOf(r, Part(b, p)) = <<>> THEN {}
        ELSE {V("deg") + V("min") \div 60 + V("sec") \div 3600}
Sum(r, b) ==
    LET V(p) == LET n == FirstOf(r, Part(b, p)) IN IF n = <<>> THEN 0 ELSE r[n]
        Sign(x) == IF x < 0 THEN -1 ELSE 1
        deg == V("deg")
        sum == deg + V("min") \div (60 * Sign(deg))
    IN  sum + V("sec") \div (3600 * (IF sum < 0 \/ deg < 0 THEN -1 ELSE 1))
CvDeg(r, b) ==
    LET code == FirstOf(r, <<<<b, "ns">>, <<b, "ew">>, <<b, "sign">>, <<"geog_quad_code">>, <<"WMO_quad_code">>>>)
        known == FirstOf(r, Part(b, "deg")) # <<>>
    IN  IF \A p \in {"deg", "min", "sec"} : FirstOf(r, Part(b, p)) = <<>> THEN {}
        ELSE {IF known /\ code # <<>> THEN IF IsNegative(r, code, b) THEN -Sum(r, b) ELSE Sum(r, b) ELSE Sum(r, b)}

\* cv_deg_nsew, and cv_degabs_nsew, with the degrees in `from'
Directed(r, b, from) ==
    LET side == FirstOf(r, <<<<b, "ns">>, <<b, "ew">>>>) IN
    IF Has(r, from) /\ side # <<>>
    THEN {IF r[side] \in {"S", "W"} THEN -Size(r[from]) ELSE Size(r[from])} ELSE {}
CvDegNsew(r, b) == Directed(r, b, <<b, "abs">>)
CvDegabsNsew(r, b) == Directed(r, b, <<b, "deg", "abs">>)

CvLonEast(r, n) ==
    IF n = <<"longitude">>
    THEN IF ~Has(r, <<"longitude", "east">>) THEN {}
         ELSE {LET x == r[<<"longitude", "east">>] IN IF x < 180 * 3600 THEN x ELSE x - 360 * 3600}
    ELSE IF ~Has(r, <<"longitude">>) THEN {}
         ELSE {IF r[<<"longitude">>] > 0 THEN r[<<"longitude">>] ELSE 360 * 3600 + r[<<"longitude">>]}

\* The minutes and the seconds of an angle, as cv_dms and cv_degabs make them;
\* `precise': the output variable has a precision, and takes the seconds with it
Minutes(r, x, precise, secs) ==
    LET m == 60 * (Size(x) % 3600) IN
    IF precise THEN m + (IF secs = <<>> THEN 0 ELSE Size(r[secs]) \div 60) ELSE Trunc(m)
Seconds(x) == 60 * ((60 * (Size(x) % 3600)) % 3600)

\* cv_dms: between -1 and 0 it is the minutes, or else the seconds, that are negative
CvDms(r, n, precise) ==
    LET b == n[1]
        from == FirstOf(r, <<<<b>>, <<b, "abs">>>>)
        x == r[from]
        small == x < 0 /\ x > -3600
        m == Minutes(r, x, precise, FirstOf(r, <<<<b, "sec">>>>))
    IN  CASE from = <<>> -> {}
          [] from # <<>> /\ n[2] = "deg" -> {Trunc(x)}
          [] from # <<>> /\ n[2] = "min" -> {IF small THEN -m ELSE m}
          [] OTHER -> {IF small /\ 60 * (Size(x) % 3600) < 3600 THEN -Seconds(x) ELSE Seconds(x)}

\* cv_deg_abs: the sizes are added
CvDegAbs(r, b) ==
    LET V(p) == LET n == FirstOf(r, Part(b, p)) IN IF n = <<>> THEN 0 ELSE Size(r[n])
    IN  IF \A p \in {"deg", "min", "sec"} : FirstOf(r, Part(b, p)) = <<>> THEN {}
        ELSE {V("deg") + V("min") \div 60 + V("sec") \div 3600}

\* cv_abs: for x_abs and x_sign from x
CvAbs(r, n) ==
    IF ~Has(r, Front(n)) THEN {}
    ELSE IF Last(n) = "abs" THEN {Size(r[Front(n)])} ELSE {IF r[Front(n)] >= 0 THEN "+" ELSE "-"}

CvDegabs(r, n, precise) ==
    LET b == n[1]
        from == FirstOf(r, <<<<b>>, <<b, "abs">>>>)
    IN  CASE from = <<>> -> {}
          [] from # <<>> /\ n[2] = "deg" -> {Size(Trunc(r[from]))}
          [] from # <<>> /\ n[2] = "min" -> {Minutes(r, r[from], precise, FirstOf(r, <<<<b, "sec">>>>))}
          [] OTHER -> {Seconds(r[from])}

CvNsew(r, n) ==
    LET from == FirstOf(r, <<<<n[1]>>, <<n[1], "deg">>>>)
    IN  IF from = <<>> THEN {}
        ELSE {IF n[2] = "ns" THEN IF r[from] < 0 THEN "S" ELSE "N" ELSE IF r[from] < 0 THEN "W" ELSE "E"}

\* cv_geog_quad: whether the latitude is south, the longitude west
Half(r, b) ==
    LET n == FirstOf(r, <<<<b>>, <<b, Side(b)>>, <<b, "sign">>>>) IN
    IF n = <<>> THEN {}
    ELSE {IF n = <<b>> THEN r[n] <= 0 ELSE r[n] \in {"S", "W", "-"}}
CvGeogQuad(r, n) ==
    {IF n = <<"geog_quad_code">>
     THEN IF south THEN IF west THEN "4" ELSE "3" ELSE IF west THEN "2" ELSE "1"
     ELSE IF south THEN IF west THEN "5" ELSE "3" ELSE IF west THEN "7" ELSE "1" :
        south \in Half(r, "latitude"), west \in Half(r, "longitude")}

CvGeogSign(r, n) ==
    LET side == <<n[1], Side(n[1])>>
        sign == <<n[1], "sign">>
    IN  IF n[2] = "sign"
        THEN IF ~Has(r, side) THEN {} ELSE {IF r[side] \in {"S", "W"} THEN "-" ELSE "+"}
        ELSE IF ~Has(r, sign) THEN {}
        ELSE {IF n[2] = "ns" THEN IF r[sign] = "-" THEN "S" ELSE "N"
              ELSE IF r[sign] \in {"+", " "} THEN "E" ELSE "W"}

\* cv_units: x_abs, x_sign and x_negate from x, and x from x_abs, with x_sign if it is there, or
\* from x_negate
CvUnits(r, n) ==
    LET abs == Append(n, "abs")
        sign == Append(n, "sign")
        negate == Append(n, "negate")
    IN  CASE Len(n) > 1 /\ Last(n) \in {"abs", "sign"} /\ Has(r, Front(n)) -> CvAbs(r, n)
          [] Len(n) > 1 /\ Last(n) = "negate" /\ Has(r, Front(n)) -> {-r[Front(n)]}
          [] Has(r, abs) -> {IF Has(r, sign) THEN IF r[sign] = "-" THEN -r[abs] ELSE r[abs] ELSE Size(r[abs])}
          [] ~Has(r, abs) /\ Has(r, negate) -> {-r[negate]}
          [] OTHER -> {}

\* convert_functions, from its end, and cv_find_convert_var: what the functions for a name answer, in turn
Answers(r, n, precise) ==
    LET b == n[1]
        Own == CASE n = <<"latitude">> -> <<CvDegNsew(r, b), CvDeg(r, b)>>
                 [] n = <<"longitude">> -> <<CvLonEast(r, n), CvDegNsew(r, b), CvDeg(r, b)>>
                 [] n = <<"longitude", "east">> -> <<CvLonEast(r, n)>>
                 [] b \in {"geog_quad_code", "WMO_quad_code"} -> <<CvGeogQuad(r, n)>>
                 [] Len(n) = 3 -> <<CvDegabs(r, n, precise)>> \o (IF n[2] = "deg" THEN <<CvAbs(r, n)>> ELSE <<>>)
                 [] Len(n) = 2 /\ n[2] = "deg" -> <<CvDms(r, n, precise), CvDegabsNsew(r, b)>>
                 [] Len(n) = 2 /\ n[2] \in {"min", "sec"} -> <<CvDms(r, n, precise)>>
                 [] n = <<b, "abs">> -> <<CvDegAbs(r, b), CvAbs(r, n)>>
                 [] n = <<b, "sign">> -> <<CvGeogSign(r, n), CvAbs(r, n)>>
                 [] n = <<"latitude", "ns">> -> <<CvNsew(r, n), CvGeogSign(r, n)>>
                 [] n = <<"longitude", "ew">> -> <<CvGeogSign(r, n), CvNsew(r, n)>>
                 [] OTHER -> <<>>
    IN  Own \o <<CvUnits(r, n)>>
Converted(r, n, precise) ==
    IF Has(r, n) THEN {r[n]}
    ELSE LET known == SelectSeq(Answers(r, n, precise), LAMBDA a : a # {})
         IN  IF known = <<>> THEN {} ELSE known[1]

-----------------------------------------------------------------------------
Init ==
    /\ position \in [Bases -> Angles]
    /\ form = "signed"
    /\ record = [n \in {<<b>> : b \in Bases} |-> position[n[1]]]

Write(d) ==
    LET values == [n \in Names(d) |-> Converted(record, n, d = "dm")] IN
    /\ \A n \in Names(d) : values[n] # {}
    /\ <<form, d>> \notin Lossy
    /\ record' = [n \in Names(d) |-> CHOOSE v \in values[n] : TRUE]
    /\ form' = d
    /\ UNCHANGED position
Next == \E d \in Descriptions \ {form} : Write(d)
Spec == Init /\ [][Next]_vars

-----------------------------------------------------------------------------
(* Properties *)

\* What a record says, in seconds: the size of the parts, and the sign that any of them has
Says(b) ==
    LET parts == {n \in DOMAIN record : n[1] = b /\ Last(n) \notin {"ns", "ew", "sign", "negate"}}
        Weight(n) == IF Len(n) = 1 THEN 1 ELSE CASE n[2] = "min" -> 60 [] n[2] = "sec" -> 3600 [] OTHER -> 1
        V(n) == Size(record[n]) \div Weight(n)
        Of(w) == LET s == {n \in parts : Weight(n) = w} IN IF s = {} THEN 0 ELSE V(CHOOSE n \in s : TRUE)
        south == \/ \E n \in parts : record[n] < 0
                 \/ \E n \in DOMAIN record :
                        \/ n[1] = b /\ Last(n) \in {"ns", "ew", "sign"} /\ record[n] \in {"S", "W", "-"}
                        \/ n = <<"geog_quad_code">> /\ record[n] \in (IF b = "latitude" THEN {"3", "4"} ELSE {"2", "4"})
                        \/ n = <<"WMO_quad_code">> /\ record[n] \in (IF b = "latitude" THEN {"3", "5"} ELSE {"5", "7"})
    IN  IF form = "negate" THEN -record[<<b, "negate">>]
        ELSE (IF south THEN -1 ELSE 1) * (Of(1) + Of(60) + Of(3600))

\* Whatever a position was written as on the way, it is the same position.
PositionKept ==
    \A b \in Bases : (Says(b) - position[b]) % (360 * 3600) = 0
=============================================================================
