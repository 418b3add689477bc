------------------------------ MODULE Conversion -----------------------------
(* How ff_process_format_data_mapping (proclist.c) turns the records of an     *)
(* input buffer into those of an output buffer, one variable after another,    *)
(* by way of a middle format, and keeps the smallest and the largest value of  *)
(* each variable (mm_make.c).                                                  *)
(*                                                                            *)
(* A number is a count of thousandths.  A field is a sequence: of characters,  *)
(* or of the one number that a binary field holds.  The converters are in       *)
(* Positions, Times and Catalogs: here x_abs, a number, and x_side, a letter,   *)
(* are calculated from x.                                                      *)
EXTENDS Integers, Sequences, FiniteSets, SequencesExt, FiniteSetsExt

CONSTANTS
    Jobs,       \* formats and records (see MCValues)
    Nil

VARIABLES
    job,
    mids,       \* the middle format: for each output variable where it comes from
    template,   \* the middle data: what every output record starts as
    warned,     \* an output variable has no input
    out,        \* the output buffer: records
    mm,         \* for each output variable the MAX_MIN
    rec, var,   \* the record and the variable that are next
    error

vars == <<job, mids, template, warned, out, mm, rec, var, error>>

\* A job: ins and outs, variables [name, kind, type, len, prec], where kind is "value", "constant",
\* "initial" or "eqn" and type is "text", "int8", "uint8" or "float64"; inAscii, outAscii; records;
\* tail, what is behind the last whole record of the buffer, or Nil; initial, the contents of the
\* file of an INITIAL variable, or Nil; missing, the values that stand for none.
Unit == 1000
Limits == [int8 |-> <<-128, 127>>, uint8 |-> <<0, 255>>]
IsInteger(v) == v.type \in DOMAIN Limits
Power(n) == IF n = 0 THEN 1 ELSE 10
Filled(c, n) == [i \in 1 .. n |-> c]

-----------------------------------------------------------------------------
(* Numbers and text *)

Digits == <<"0", "1", "2", "3", "4", "5", "6", "7", "8", "9">>
IsDigit(c) == c \in ToSet(Digits)
Digit(c) == (CHOOSE i \in DOMAIN Digits : Digits[i] = c) - 1
Read(s) == FoldLeft(LAMBDA n, c : 10 * n + Digit(c), 0, s)

\* ff_varstring_to_double, with strtod: {} if it is no number; behind the leading
\* blanks every blank is a zero
LeadingBlanks(s) == CHOOSE n \in 0 .. Len(s) :
                        /\ \A i \in 1 .. n : s[i] = " "
                        /\ n < Len(s) => s[n + 1] # " "
Blank(s) == LET n == LeadingBlanks(s) IN [i \in 1 .. Len(s) - n |-> IF s[n + i] = " " THEN "0" ELSE s[n + i]]
Stated(s) ==
    IF LeadingBlanks(s) = Len(s) THEN {0}
    ELSE LET t == Blank(s)
             sign == IF t[1] = "-" THEN -1 ELSE 1
             u == IF t[1] = "-" THEN Tail(t) ELSE t
             points == {i \in DOMAIN u : u[i] = "."}
             p == IF points = {} THEN Len(u) + 1 ELSE Min(points)
             whole == SubSeq(u, 1, p - 1)
             part == SubSeq(u, p + 1, Len(u)) \o <<"0", "0", "0">>
         IN  IF (\A i \in DOMAIN u \ {p} : IsDigit(u[i])) /\ \E i \in DOMAIN u : IsDigit(u[i])
             THEN {sign * (Read(whole) * Unit + Read(SubSeq(part, 1, 3)))} ELSE {}

\* sprintf("%d") of a whole number of units, and "%.2f"
Shown(n) ==
    LET Places[m \in Nat] == IF m < 10 THEN <<Digits[m + 1]>> ELSE Append(Places[m \div 10], Digits[(m % 10) + 1])
    IN  Places[n]
Minus(n) == IF n < 0 THEN <<"-">> ELSE <<>>
Distance(n) == IF n < 0 THEN -n ELSE n
Printed(v, n) ==
    LET m == Distance(n) IN
    IF IsInteger(v) THEN Minus(n) \o Shown(m \div Unit)
    ELSE Minus(n) \o Shown(m \div Unit) \o <<".", Digits[((m % Unit) \div 100) + 1], Digits[((m % 100) \div 10) + 1]>>

\* ROUND: half a unit goes away from zero
Rounded_Down(n) == (IF n < 0 THEN -1 ELSE 1) * (Distance(n) \div Unit) * Unit
Rounded(n) == (IF n < 0 THEN -1 ELSE 1) * ((2 * Distance(n) + Unit) \div (2 * Unit)) * Unit

\* btype_to_btype from a double: {} if the type cannot hold it
Held(v, n) == IF IsInteger(v) => n \in Limits[v.type][1] * Unit .. Limits[v.type][2] * Unit THEN {n} ELSE {}

\* ff_get_double: an integer stands for a tenth of itself if it has a precision
GetDouble(v, field) ==
    LET held == IF job.inAscii THEN Stated(field) ELSE {field[1]}
    IN  {IF IsInteger(v) THEN n \div Power(v.prec) ELSE n : n \in held}

-----------------------------------------------------------------------------
(* The middle format and its data *)

InputOf(name) == LET at == {i \in DOMAIN job.ins : job.ins[i].name = name} IN IF at = {} THEN Nil ELSE Min(at)

\* make_middle_format: an input of the same name, or of the name with _eqn, or a
\* converter, which is asked with the first record; or there is none
Middle(o) ==
    LET same == InputOf(o.name)
        eqn == InputOf(Append(o.name, "eqn"))
        source == IF Len(o.name) = 2 /\ o.name[2] \in {"abs", "side"} THEN InputOf(<<o.name[1]>>) ELSE Nil
        asked == source # Nil /\ job.records # <<>> /\ job.ins[source].type # "text"
                   /\ GetDouble(job.ins[source], job.records[1][source]) # {}
    IN  CASE same # Nil -> [way |-> "copy", from |-> same]
          [] same = Nil /\ eqn # Nil -> [way |-> "copy", from |-> eqn]
          [] same = Nil /\ eqn = Nil /\ asked -> [way |-> "convert", from |-> source]
          [] OTHER -> [way |-> IF o.kind \in {"constant", "initial"} \/ (o.kind = "eqn" /\ job.records # <<>>)
                               THEN "own" ELSE "orphan",
                       from |-> Nil]

\* initialize_middle_data: a constant is its own name, at the right
RightJustified(s, n, fill) ==
    IF Len(s) >= n THEN SubSeq(s, 1, n) ELSE Filled(fill, n - Len(s)) \o s
Ground(o) == IF job.outAscii \/ o.type = "text" THEN " " ELSE "NUL"
Template(o) ==
    CASE o.kind = "initial" -> SubSeq(job.initial, 1, o.len)
      [] o.kind = "constant" -> RightJustified(o.name, o.len, IF job.outAscii THEN " " ELSE "NUL")
      [] OTHER -> Filled(Ground(o), o.len)

\* mm_make
None == [min |-> Nil, max |-> Nil, minRec |-> 0, maxRec |-> 0, cur |-> 0]

Init ==
    /\ job \in Jobs
    /\ mids = <<>> /\ template = <<>> /\ warned = FALSE
    /\ out = <<>> /\ mm = [o \in DOMAIN job.outs |-> None]
    /\ rec = 0 /\ var = 1 /\ error = "none"

MakeMiddle ==
    /\ rec = 0 /\ error = "none"
    /\ mids' = [i \in DOMAIN job.outs |-> Middle(job.outs[i])]
    /\ warned' = \E i \in DOMAIN job.outs : Middle(job.outs[i]).way = "orphan"
    /\ LET short == \E i \in DOMAIN job.outs :
                       job.outs[i].kind = "initial" /\ (job.initial = Nil \/ Len(job.initial) < job.outs[i].len)
       IN  IF short THEN error' = "initial" /\ UNCHANGED <<template, rec>>
           ELSE /\ template' = [i \in DOMAIN job.outs |-> Template(job.outs[i])]
                /\ rec' = 1 /\ UNCHANGED error
    /\ UNCHANGED <<job, out, mm, var>>

-----------------------------------------------------------------------------
(* Records *)

\* bytes_left > 0: what is behind the last record counts as one
Record == IF rec <= Len(job.records) THEN job.records[rec] ELSE job.tail
Left == rec <= Len(job.records) \/ (rec = Len(job.records) + 1 /\ job.tail # Nil)

StartRecord ==
    /\ rec > 0 /\ error = "none" /\ Left /\ Len(out) < rec
    /\ out' = Append(out, template)
    /\ var' = 1
    /\ UNCHANGED <<job, mids, template, warned, mm, rec, error>>

\* mm_set, MM_MAX_MIN: the same for every type; a flag for missing data is no
\* extreme, but it is counted
Highest(m, n) == IF m.max = Nil \/ n > m.max THEN [m EXCEPT !.max = n, !.maxRec = m.cur] ELSE m
Lowest(m, n) == IF m.min = Nil \/ n < m.min THEN [m EXCEPT !.min = n, !.minRec = m.cur] ELSE m
MmSet(m, n) ==
    LET counted == [m EXCEPT !.cur = @ + 1]
    IN  IF n \in job.missing THEN counted ELSE Lowest(Highest(counted, n), n)

\* ff_put_binary_data: what does not fit is stars
NumberField(o, n) ==
    IF ~job.outAscii THEN <<n>>
    ELSE LET s == Printed(o, n) IN IF Len(s) > o.len THEN Filled("*", o.len) ELSE s
\* ... into the field, from its right
Placed(field, s) ==
    IF Len(s) >= Len(field) THEN SubSeq(s, 1, Len(field)) ELSE SubSeq(field, 1, Len(field) - Len(s)) \o s

\* A letter is in the eight bytes of a double, and stays at their start:
\* right_justify_conversion_output stops at the byte of zero behind it
Letter(n) == IF n < 0 THEN "S" ELSE "N"
RightJustify(c, n) == [i \in 1 .. n |-> CASE i = 1 -> c [] i > 1 /\ i <= 8 -> "NUL" [] OTHER -> " "]
\* What a converter reads; if it cannot, it leaves a zero, and nobody looks
ReadAgain(m) ==
    LET n == GetDouble(job.ins[m.from], Record[m.from]) IN IF n = {} THEN {0} ELSE n

\* The number for the output variable: {} if there is none
Number(o, m) ==
    IF o.kind = "eqn" THEN LET i == InputOf(<<"x">>) IN IF i = Nil THEN {} ELSE GetDouble(job.ins[i], Record[i])
    ELSE IF m.way = "convert" THEN {Distance(n) : n \in ReadAgain(m)}
    ELSE GetDouble(job.ins[m.from], Record[m.from])
ForType(o, n) == IF IsInteger(o) THEN Rounded(n * Power(o.prec)) ELSE n

Fail(what) == error' = what /\ UNCHANGED <<out, mm, var>>
Put(field) == out' = [out EXCEPT ![rec][var] = field] /\ var' = var + 1

ConvertVariable ==
    /\ rec > 0 /\ error = "none" /\ Len(out) = rec /\ var <= Len(job.outs)
    /\ LET o == job.outs[var]
           m == mids[var]
           skipped == o.kind \in {"constant", "initial"} \/ m.way = "orphan"
           type == CASE m.way = "copy" -> job.ins[m.from].type
                     [] m.way = "convert" -> IF o.type = "text" THEN "text" ELSE "float64"
                     [] OTHER -> o.type
           copied == type = "text"
       IN  CASE skipped -> var' = var + 1 /\ UNCHANGED <<out, mm, error>>
             [] ~skipped /\ copied /\ o.type # "text" -> Fail("text")
             [] ~skipped /\ copied /\ o.type = "text" /\ m.way = "copy" ->
                  /\ Put(Placed(out[rec][var], Record[m.from]))
                  /\ mm' = [mm EXCEPT ![var].cur = @ + 1]
                  /\ UNCHANGED error
             [] ~skipped /\ copied /\ o.type = "text" /\ m.way # "copy" ->
                  \E n \in ReadAgain(m) : Put(RightJustify(Letter(n), o.len)) /\ UNCHANGED <<mm, error>>
             [] OTHER ->
                  LET read == Number(o, m)
                      held == UNION {Held(o, ForType(o, n)) : n \in read}
                  IN  IF held = {} \/ o.type = "text" THEN Fail(IF read = {} THEN "number" ELSE "range")
                      ELSE \E n \in held :
                             /\ mm' = [mm EXCEPT ![var] = MmSet(@, n)]
                             /\ Put(IF job.outAscii THEN Placed(out[rec][var], NumberField(o, n)) ELSE <<n>>)
                             /\ UNCHANGED error
    /\ UNCHANGED <<job, mids, template, warned, rec>>

EndRecord ==
    /\ rec > 0 /\ error = "none" /\ Len(out) = rec /\ var > Len(job.outs)
    /\ rec' = rec + 1
    /\ UNCHANGED <<job, mids, template, warned, out, mm, var, error>>

\* bytes_left is less than zero
Finish ==
    /\ rec > Len(job.records) + 1 /\ error = "none"
    /\ error' = "bytes not processed"
    /\ UNCHANGED <<job, mids, template, warned, out, mm, rec, var>>

Next == MakeMiddle \/ StartRecord \/ ConvertVariable \/ EndRecord \/ Finish
Spec == Init /\ [][Next]_vars

-----------------------------------------------------------------------------
(* Properties *)

\* What a field of characters says: each digit times its place, blanks are zeros
PlaceValue(s) ==
    LET digits == {i \in DOMAIN s : s[i] \notin {".", "-"} /\ i > LeadingBlanks(s)}
        point == IF \E i \in DOMAIN s : s[i] = "." THEN CHOOSE i \in DOMAIN s : s[i] = "." ELSE Len(s) + 1
        Ten[k \in Nat] == IF k = 0 THEN 1 ELSE 10 * Ten[k - 1]
        Weight(i) == IF i < point THEN Unit * Ten[point - i - 1] ELSE Unit \div Ten[i - point]
        At(i) == IF s[i] = " " THEN 0 ELSE Digit(s[i]) * Weight(i)
    IN  (IF "-" \in ToSet(s) THEN -1 ELSE 1) * FoldSet(LAMBDA i, n : n + At(i), 0, digits)
Meant(i, field) ==
    LET n == IF job.inAscii THEN PlaceValue(field) ELSE field[1]
    IN  IF IsInteger(job.ins[i]) THEN n \div Power(job.ins[i].prec) ELSE n

\* A number that was converted is, in the field, within half a unit of the last place, the number that
\* the input says; or the field is stars, and it could not have been printed in it.
Close(o, m, n) ==
    LET scale == Power(IF IsInteger(o) THEN o.prec ELSE 0) IN
    IF IsInteger(o) THEN 2 * Distance(m - n * scale) <= Unit /\ m % Unit = 0 ELSE m = n
NumberKept(i, j) ==
    LET o == job.outs[j]
        source == IF o.kind = "eqn" THEN InputOf(<<"x">>) ELSE mids[j].from
        n == Meant(source, job.records[i][source])
        want == IF mids[j].way = "convert" THEN Distance(n) ELSE n
        field == out[i][j]
    IN  IF ~job.outAscii THEN Close(o, field[1], want)
        ELSE IF "*" \in ToSet(field)
        THEN ToSet(field) = {"*"} /\ \A m \in {Rounded(want * Power(o.prec))} :
                                        Len(Shown(Distance(m) \div Unit)) + (IF want < 0 THEN 1 ELSE 0) > o.len - 3
        ELSE Close(o, PlaceValue(field), want)

\* Constants, initial values and variables without an input are in every record
\* as they are in the template, and text as far as there is room.
Converted == {i \in DOMAIN out : i < rec /\ i <= Len(job.records)}
FieldsRight ==
    \A i \in Converted : \A j \in DOMAIN job.outs :
        LET o == job.outs[j] IN
        CASE o.kind \in {"constant", "initial"} \/ mids[j].way = "orphan" -> out[i][j] = template[j]
          [] o.type = "text" /\ mids[j].way = "convert" ->
                 out[i][j] = <<IF Meant(mids[j].from, job.records[i][mids[j].from]) < 0 THEN "S" ELSE "N">>
          [] o.type = "text" /\ mids[j].way = "copy" ->
                 LET s == job.records[i][mids[j].from] n == Distance(o.len - Len(s)) IN
                 IF Len(s) <= o.len THEN out[i][j] = Filled(" ", n) \o s ELSE s = out[i][j] \o SubSeq(s, o.len + 1, Len(s))
          [] OTHER -> NumberKept(i, j)

\* The smallest and the largest value are values of the column, with the first
\* record that has them, and no other value is beyond them.
Column(j) == {<<i, out[i][j][1]>> : i \in DOMAIN out}
ExtremesRight ==
    ~job.outAscii =>
        \A j \in {k \in DOMAIN job.outs : mm[k].max # Nil /\ job.outs[k].type # "text"} :
            LET got == {p \in Column(j) : p[1] < rec \/ j < var}
                real == {p \in got : p[2] \notin job.missing}
            IN  /\ <<mm[j].maxRec, mm[j].max>> \in real /\ <<mm[j].minRec, mm[j].min>> \in real
                /\ \A p \in real : /\ p[2] <= mm[j].max /\ p[2] >= mm[j].min
                                   /\ p[2] = mm[j].max => mm[j].maxRec <= p[1]
                                   /\ p[2] = mm[j].min => mm[j].minRec <= p[1]

ConversionRight == FieldsRight /\ ExtremesRight
=============================================================================
