------------------------------- MODULE Headers -------------------------------
(* Headers without a format (setdbin.c, ff_utils.c): a file of names and values *)
(* is read with the delimiters that the name tables give, its variables get     *)
(* their places and types from it, and it is written again with the output's    *)
(* delimiters and names. A file of variables' names restricts a format.         *)
(*                                                                            *)
(* A text is a sequence of characters; an offset counts from 0, a place from 1. *)
EXTENDS Integers, Sequences, SequencesExt, FiniteSets, FiniteSetsExt

CONSTANTS
    HeaderJobs, \* [mode, text, item, value, distance, names, outItem, outValue, width, rename, precision, ...];
                \* a delimiter is Nil where the tables have none
    Nil

VARIABLES
    given,      \* the job
    pc,
    offset,     \* where the text is read
    eol,        \* the item delimiter, a text whose characters all delimit
    format,     \* its variables: [kind, name, start, end, type, precision]
    index       \* the next variable

vars == <<given, pc, offset, eol, format, index>>

Space == {" ", "tab", "lf", "cr"}
LineSpace == {" ", "tab"}
Digits == <<"0", "1", "2", "3", "4", "5", "6", "7", "8", "9">>
Unprintable == {"bell"}

\* strcspn and strspn: how far from offset i there is no character of S, or are only such
CSpan(t, i, S) == Min({k \in i .. Len(t) : k = Len(t) \/ t[k + 1] \in S}) - i
Span(t, i, S) == Min({k \in i .. Len(t) : k = Len(t) \/ t[k + 1] \notin S}) - i
Piece(t, s, e) == SubSeq(t, s + 1, Min({e, Len(t)}))
Trim(t) == LET kept == {k \in DOMAIN t : t[k] \notin Space} IN IF kept = {} THEN <<>> ELSE SubSeq(t, Min(kept), Max(kept))
\* strstr: the offset, or -1
Find(t, name) ==
    LET at == {k \in 0 .. Len(t) - Len(name) : Piece(t, k, k + Len(name)) = name} IN IF at = {} THEN -1 ELSE Min(at)
\* text_delim_offset: it also stops at what cannot be printed
DelimOffset(t, i, S) == CSpan(t, i, S \cup Unprintable)
Length(v) == v.end - v.start + 1

Given(delim, default) == IF delim = Nil THEN default ELSE delim
InItem == Given(given.item, <<"lf">>)
\* With _distance there is no value delimiter
InValue == IF given.distance # 0 THEN <<>> ELSE Given(given.value, <<"=">>)
\* get_output_delims: names of a given width need none
OutItem == Given(given.outItem, <<"lf">>)
OutValue == Given(given.outValue, IF given.width # 0 THEN <<>> ELSE <<"=">>)

Init ==
    /\ given \in HeaderJobs
    /\ pc = IF given.mode = "restrict" THEN "trim" ELSE IF InItem = <<"lf">> THEN "search" ELSE "read"
    /\ format = IF given.mode = "restrict" THEN given.format ELSE <<>>
    /\ offset = 0 /\ eol = InItem /\ index = 1

-----------------------------------------------------------------------------
(* search_for_EOL, get_buffer_eol_str *)

EolIn(b) ==
    LET i == CSpan(b, 0, {"lf", "cr"}) IN
    IF i = Len(b) THEN <<>>
    ELSE IF Piece(b, i, i + 2) = <<"cr", "lf">> THEN <<"cr", "lf">> ELSE <<b[i + 1]>>
\* Two characters at a time, with what lies behind the buffer, which has no NUL
SearchEol ==
    /\ pc = "search"
    /\ \E behind \in {<<>>, <<"lf">>, <<"cr">>} :
       LET buffer == Piece(given.text, offset, Min({offset + 2, Len(given.text)}))
           seen == EolIn(buffer \o behind)
       IN  IF buffer = <<>> THEN pc' = "read" /\ offset' = 0 /\ UNCHANGED eol
           ELSE /\ eol' = seen
                /\ IF seen # <<>> /\ buffer[1] = seen[1] THEN pc' = "read" /\ offset' = 0
                   ELSE /\ pc' = pc
                        /\ offset' = offset + Len(buffer) - (IF seen = <<>> THEN 0 ELSE 1)
    /\ UNCHANGED <<given, format, index>>

-----------------------------------------------------------------------------
(* The type of a value: alphanum_type, set_var_typeprec *)

ClassOf(c) ==
    CASE c \in {"+", "-"} -> "sign" [] c = "e" -> "e" [] c = "." -> "point"
      [] c \in ToSet(Digits) -> "digit" [] c \in Space -> "space" [] OTHER -> "other"
NextStatus(st, c) ==
    CASE c = "sign" /\ st = "initial" -> "sign"
      [] c = "sign" /\ st = "enotation" -> "signed_e"
      [] c = "e" /\ st \in {"integer", "float"} -> "enotation"
      [] c = "point" /\ st \in {"initial", "sign"} -> "decimal"
      [] c = "point" /\ st = "integer" -> "float"
      [] c = "digit" /\ st \in {"initial", "sign", "integer"} -> "integer"
      [] c = "digit" /\ st \in {"decimal", "float"} -> "float"
      [] c = "digit" /\ st \in {"enotation", "signed_e", "decimal_e"} -> "decimal_e"
      [] c = "space" /\ st = "initial" -> st
      [] c = "space" /\ st \in {"integer", "end_integer"} -> "end_integer"
      [] c = "space" /\ st \in {"float", "end_float"} -> "end_float"
      [] c = "space" /\ st \in {"decimal_e", "end_e"} -> "end_e"
      [] OTHER -> "text"
AlphanumType(cs) ==
    LET st == FoldLeft(LAMBDA s, c : NextStatus(s, ClassOf(c)), "initial", cs) IN
    CASE st \in {"end_integer", "integer"} -> "int32"
      [] st \in {"float", "end_float"} -> "float64"
      [] st \in {"decimal_e", "end_e"} -> "enote"
      [] OTHER -> "text"
\* The characters behind the point, without the exponent; the point may be found outside the value
TypePrec_WithExponent(t, s, e) ==
    LET type == AlphanumType(Piece(t, s, e))
        point == DelimOffset(t, s, {"."})
    IN  [type |-> type, precision |-> IF type \in {"text", "int32"} \/ point + s + 1 >= e THEN 0 ELSE e - s - 1 - point]
TypePrec(t, s, e) ==
    LET type == AlphanumType(Piece(t, s, e))
        point == DelimOffset(t, s, {"."})
        exponent == DelimOffset(t, s, {"e"})
    IN  [type |-> type,
         precision |->
            IF type \in {"text", "int32"} \/ point + s + 1 >= e THEN 0
            ELSE (e - s - 1 - point) - (IF type = "enote" /\ exponent + s + 1 < e THEN e - s - exponent ELSE 0)]

Variable(kind, name, s, e) == [kind |-> kind, name |-> name, start |-> s + 1, end |-> e, type |-> "constant", precision |-> 0]
WithType(v, tp) == [v EXCEPT !.type = tp.type, !.precision = tp.precision]

-----------------------------------------------------------------------------
(* create_fully_dynamic_header_format: names and values in turn *)

\* finishup_input_header: a control-Z is a blank
Text == [k \in DOMAIN given.text |-> IF given.text[k] = "sub" THEN " " ELSE given.text[k]]
ValueDelim == ToSet(InValue)
ItemDelim == ToSet(eol)

ReadItem ==
    /\ pc = "read" /\ given.mode = "dynamic" /\ CSpan(Text, offset, ValueDelim) + offset < Len(Text)
    /\ LET n == offset + CSpan(Text, offset, ValueDelim)
           d == n + Span(Text, n, ValueDelim)
           s == d + Span(Text, d, LineSpace)
           e == s + CSpan(Text, s, ItemDelim)
           next == e + Span(Text, e, ItemDelim)
           name == Piece(Text, offset, n)
       IN  /\ format' = format \o <<Variable("name", name, offset, n), Variable("delimValue", InValue, n, d),
                                    WithType(Variable("value", Trim(name), s, e), TypePrec(Text, s, e))>>
                         \o (IF e = Len(Text) THEN <<>> ELSE <<Variable("delimItem", eol, e, next)>>)
           /\ offset' = next
    /\ UNCHANGED <<given, pc, eol, index>>
\* No delimiter any more: what is left is not an item
ItemsRead ==
    /\ pc = "read" /\ given.mode = "dynamic" /\ CSpan(Text, offset, ValueDelim) + offset >= Len(Text)
    /\ pc' = IF format = <<>> THEN "failed" ELSE "rewrite"
    /\ UNCHANGED <<given, offset, eol, format, index>>

-----------------------------------------------------------------------------
(* header_to_format, set_var_info: the variables of a format are looked for *)

\* [start, end] of a variable's value behind base, Nil if there is none
PlaceIn(t, name) ==
    LET p == Find(t, name)
        behind == p + Len(name)
        delim == behind + DelimOffset(t, behind, ValueDelim)
        s0 == IF p = -1 THEN 0 ELSE IF given.distance # 0 THEN p + given.distance
              ELSE IF ValueDelim = {} THEN behind ELSE delim + Span(t, delim, ValueDelim)
        s == s0 + Span(t, s0, Space)
        from == IF p = -1 THEN 0 ELSE p
        e == Max({0} \cup {k \in 1 .. from + DelimOffset(t, from, ItemDelim) : t[k] \notin Space})
    IN  IF (p = -1 /\ (given.distance # 0 \/ ValueDelim # {})) \/ e <= s THEN Nil ELSE [start |-> s, end |-> e]
\* Without a name delimiter the next variable is looked for behind this value
NextBase ==
    LET i == DelimOffset(Text, offset, ItemDelim) + offset IN
    IF ValueDelim = {} /\ given.distance = 0 /\ i < Len(Text) /\ Text[i + 1] \in ItemDelim THEN i + 1 ELSE offset
ReadNamed ==
    /\ pc = "read" /\ given.mode = "named" /\ index <= Len(given.names)
    /\ LET name == given.names[index]
           place == PlaceIn(Piece(Text, offset, Len(Text)), name)
           s == offset + place.start
           e == offset + place.end
       IN  format' = IF place = Nil THEN format
                     ELSE Append(format, WithType(Variable("value", name, s, e), TypePrec(Text, s, e)))
    /\ offset' = NextBase /\ index' = index + 1
    /\ UNCHANGED <<given, pc, eol>>
NamesRead ==
    /\ pc = "read" /\ given.mode = "named" /\ index > Len(given.names)
    /\ pc' = IF format = <<>> THEN "failed" ELSE "done"
    /\ UNCHANGED <<given, offset, eol, format, index>>

-----------------------------------------------------------------------------
(* make_output_header: every variable becomes a constant, what is behind it moves *)

\* nt_find_geovu_name, nt_find_user_name
OutName(n) == IF n \in DOMAIN given.rename THEN given.rename[n] ELSE n
NameVars == {k \in DOMAIN format : format[k].kind = "name"}
\* calculate_distance: a name that a table keeps as it is keeps its width
WidthOf(v) ==
    LET n == Trim(v.name) IN
    IF n \in DOMAIN given.rename /\ given.rename[n] = n THEN Length(v) ELSE Len(OutName(n)) + 1
Distance == IF given.width # 0 THEN given.width ELSE Max({0} \cup {WidthOf(format[k]) : k \in NameVars})
Padded(t, n) == [k \in 1 .. n |-> IF k <= Len(t) THEN t[k] ELSE " "]

\* A number read and printed: digits, a point, an exponent; <<digits as a number, how many behind the point>>
DigitOf(c) == CHOOSE d \in 0 .. 9 : Digits[d + 1] = c
Number(ds) == FoldLeft(LAMBDA n, c : (n * 10) + DigitOf(c), 0, SelectSeq(ds, LAMBDA c : c \in ToSet(Digits)))
RECURSIVE Decimal(_)
Decimal(n) == IF n < 10 THEN <<Digits[n + 1]>> ELSE Append(Decimal(n \div 10), Digits[(n % 10) + 1])
Printed(cs, precision) ==
    LET t == Trim(cs)
        e == CSpan(t, 0, {"e"})
        mantissa == Piece(t, 0, e)
        behind == Len(mantissa) - Min({Len(mantissa), CSpan(mantissa, 0, {"."}) + 1})
        power == IF e = Len(t) THEN 0 ELSE Number(Piece(t, e + 1, Len(t))) * (IF "-" \in ToSet(Piece(t, e + 1, Len(t))) THEN -1 ELSE 1)
        shift == precision + power - behind
        n == IF shift >= 0 THEN Number(mantissa) * (10 ^ shift)
             ELSE (Number(mantissa) + ((10 ^ (-shift)) \div 2)) \div (10 ^ (-shift))
        digits == Decimal(n)
        all == [k \in 1 .. Max({0, precision + 1 - Len(digits)}) |-> "0"] \o digits
    IN  (IF t[1] = "-" THEN <<"-">> ELSE <<>>) \o SubSeq(all, 1, Len(all) - precision)
        \o (IF precision = 0 THEN <<>> ELSE <<".">> \o SubSeq(all, Len(all) - precision + 1, Len(all)))

\* update_variable_precision: x_min and x_max are printed like the data's x
PrecisionOf(v) == IF v.name \in DOMAIN given.precision THEN given.precision[v.name] ELSE v.precision
\* change_param_value: the value is that of the first variable with this name
ValueText(v) ==
    LET cs == Piece(Text, v.from - 1, v.from - 1 + v.size)
    IN  IF v.type = "text" THEN cs ELSE Printed(cs, PrecisionOf(v))
\* check_dynamic_output_header_format: the output's format is the input's
CopyFormat ==
    /\ pc = "rewrite"
    /\ format' = [k \in DOMAIN format |-> format[k] @@ [from |-> format[k].start, size |-> Length(format[k])]]
    /\ offset' = Distance
    /\ pc' = "constants" /\ index' = 1
    /\ UNCHANGED <<given, eol>>

NewName(v) ==
    CASE v.kind = "delimItem" -> OutItem
      [] v.kind = "delimValue" -> OutValue
      [] v.kind = "name" -> Padded(OutName(Trim(v.name)), offset)   \* change_param_name
      [] v.kind = "value" -> ValueText(v)
\* update_format_var
Moved(vs, i, diff) ==
    [k \in DOMAIN vs |->
        IF k = i THEN [vs[k] EXCEPT !.end = @ + diff]
        ELSE IF vs[k].start > vs[i].start THEN [vs[k] EXCEPT !.start = @ + diff, !.end = @ + diff]
        ELSE vs[k]]
MakeConstant ==
    /\ pc = "constants" /\ index <= Len(format)
    /\ LET new == NewName(format[index])
           vs == Moved(format, index, Len(new) - Length(format[index]))
       IN  format' = [k \in DOMAIN vs |-> IF k = index THEN [vs[k] EXCEPT !.name = new] ELSE vs[k]]
    /\ index' = index + 1
    /\ UNCHANGED <<given, pc, offset, eol>>
WriteHeader ==
    /\ pc = "constants" /\ index > Len(format)
    /\ pc' = "done"
    /\ UNCHANGED <<given, offset, eol, format, index>>
\* What is written: blanks where no variable is
Written ==
    [p \in 1 .. Max({v.end : v \in ToSet(format)}) |->
        LET at == {k \in DOMAIN format : format[k].start <= p /\ p <= format[k].end}
        IN  IF at = {} THEN " " ELSE LET k == Max(at) IN format[k].name[p - format[k].start + 1]]

-----------------------------------------------------------------------------
(* dbset_variable_restriction: trim_format, make_contiguous_format *)

Named(t, name) ==
    LET p == Find(t, name)
        e == p + Len(name)
    IN  p # -1 /\ (p = 0 \/ t[p] \in Space) /\ (e = Len(t) \/ t[e + 1] \in Space)
TrimFormat ==
    /\ pc = "trim"
    /\ IF index <= Len(format) /\ ~(format[index].kind = "eol" /\ index = Len(format))
       THEN /\ IF Named(given.text, format[index].name) THEN index' = index + 1 /\ UNCHANGED format
               ELSE format' = RemoveAt(format, index) /\ UNCHANGED index
            /\ UNCHANGED pc
       ELSE /\ pc' = IF format = <<>> THEN "failed" ELSE "close"
            /\ UNCHANGED <<format, index>>
    /\ UNCHANGED <<given, offset, eol>>
MakeContiguous ==
    /\ pc = "close"
    /\ format' = [k \in DOMAIN format |->
                    LET before == FoldLeft(LAMBDA n, v : n + Length(v), 0, SubSeq(format, 1, k - 1))
                    IN  [format[k] EXCEPT !.start = before + 1, !.end = before + Length(format[k])]]
    /\ pc' = "done"
    /\ UNCHANGED <<given, offset, eol, index>>

Next == \/ SearchEol \/ ReadItem \/ ItemsRead \/ ReadNamed \/ NamesRead \/ CopyFormat
        \/ MakeConstant \/ WriteHeader \/ TrimFormat \/ MakeContiguous

-----------------------------------------------------------------------------
(* Properties *)

\* A header that is read and written again has, in the same order, the output's names, the
\* same values, and the output's delimiters, and nothing else: whatever its line ends, the
\* characters behind the buffer and the widths are (finishup_input_header, make_output_header).
\* The values given have decimals that their mantissa can hold: those a negative exponent adds
\* are lost when the value is printed (ff_utils.c:1060), so 1.25e-2 is not among them
OutputRight ==
    given.mode = "dynamic" /\ pc = "done" => SelectSeq(Written, LAMBDA c : c # " ") = SelectSeq(given.expected, LAMBDA c : c # " ")
\* Each variable that the header gives a value is at that value, the others are dropped
\* (set_var_info)
NamedRight ==
    given.mode = "named" /\ pc = "done" =>
        [k \in DOMAIN format |-> <<format[k].name, Piece(Text, format[k].start - 1, format[k].end)>>] = given.expected
\* A restricted format has the variables that are named, side by side (make_contiguous_format)
RestrictionRight ==
    given.mode = "restrict" /\ pc = "done" =>
        /\ [k \in DOMAIN format |-> <<format[k].name, Length(format[k])>>] = given.expected
        /\ \A k \in DOMAIN format : format[k].start = IF k = 1 THEN 1 ELSE format[k - 1].end + 1
HeadersRight ==
    /\ OutputRight /\ NamedRight /\ RestrictionRight
    /\ pc = "failed" => given.expected = <<>>
=============================================================================
