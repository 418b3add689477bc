------------------------------- MODULE MCSetUp -------------------------------
(* What db_init is made of, each by itself: a behaviour makes the conduits,     *)
(* searches for a format file, or works with the name tables.                  *)
EXTENDS SetUp

CONSTANT SearchJobs

VARIABLES search, path, place, dir, found,
          tables, headers, offset, stored, last, steps,
          given, pc, at0, eol, format, index,
          part

searchVars == <<search, path, place, dir, found>>
tableVars == <<tables, headers, offset, stored, last, steps>>
headerVars == <<given, pc, at0, eol, format, index>>

-----------------------------------------------------------------------------
(* Formats for the conduits *)

Var(n, s, l, r) == [name |-> n, start |-> s, len |-> l, array |-> TRUE, rec |-> r]
Format(n, k, e, io, a, vs) == [name |-> <<n>>, kind |-> k, enc |-> e, io |-> io, array |-> a, vars |-> vs]
Table(n, k, e, io) == Format(n, k, e, io, FALSE, <<Var("t", 1, 4, Nil)>>)
AB == <<Var("a", 1, 2, Nil), Var("b", 3, 4, Nil)>>
BC == <<Var("b", 1, 4, Nil), Var("c", 5, 2, <<"R">>)>>
Calculated == <<Var("a_eqn", 1, 2, Nil), Var("b", 3, 4, <<"keyword">>)>>
Record == Table("R", "record", "binary", "none")
FileHeader == Table("H", "file", "ascii", "in")
Tables == {FileHeader, Table("O", "file", "ascii", "out"), Table("P", "rec", "binary", "in"),
           Table("D", "data", "binary", "in"), Table("E", "data", "ascii", "none"),
           Table("X", "data", "binary", "none")}
Arrays == {Format("F", "data", "binary", "in", TRUE, AB), Format("G", "data", "binary", "in", TRUE, BC),
           Format("I", "data", "ascii", "out", TRUE, Calculated), Format("K", "data", "ascii", "out", TRUE, BC),
           Format("L", "data", "binary", "out", TRUE, <<Var("a", 1, 2, <<"H">>)>>)}
\* Arrays in a header of the output only, an array beside what is none, a record on one side
ArrayHeaders == {Format("Q", "rec", "ascii", io, TRUE, AB) : io \in {"out", "none"}}
Mixed == Format("S", "data", "binary", "in", TRUE, <<Var("a", 1, 2, Nil), [Var("b", 3, 2, Nil) EXCEPT !.array = FALSE]>>)
OneSided == Format("M", "data", "ascii", "out", TRUE, <<Var("b", 7, 2, <<"R">>), Var("a", 9, 2, Nil)>>)
FormatFiles == {SetToSeq(s) : s \in kSubset(2, Tables) \cup kSubset(3, Tables)}
               \cup {<<x, y>> : x, y \in Arrays \cup {Record}}
               \cup {<<x, y, z>> : x, y \in Arrays, z \in {Record, FileHeader}}
               \cup {<<x, y>> : x \in Arrays, y \in Tables}
               \cup {<<x, y>> : x \in Arrays \cup Tables, y \in ArrayHeaders}
               \cup {<<Mixed>>} \cup {<<x, OneSided, Record>> : x \in Arrays \cup {Mixed}}
\* The output's formats are those of the same file
MCJobs == {[inputFormats |-> f, outputFormats |-> f, inExt |-> e, outExt |-> "none", inTitle |-> t, outTitle |-> Nil,
            goesOn |-> g, eqns |-> {<<"a", "a_eqn">>}, inFile |-> TRUE, outFile |-> o] :
           f \in FormatFiles, e \in {"dat", "bin"}, t \in {Nil, <<"E">>}, g, o \in BOOLEAN}
\* What ConduitsAreRight supposes of them
ASSUME MCFormatsAreNamed == FormatsAreNamed

-----------------------------------------------------------------------------
(* Data files and format files *)

Paths == {<<"/", "a", "/", "b", "/", "f", ".", "x">>, <<"/", "a", "a", "/", "f", ".", "x">>,
          <<"/", "f", ".", "x">>, <<"/", "a", "/", "f">>, <<"f", ".", "x">>, <<"/", "a", "/", ".", "x">>,
          <<"a", "/", "b", "/", "f", ".", "x">>,
          <<"/", "c", "/", "d", "#", "a", "#", "b", "#", "f", ".", "x">>}
Relative == {<<"a", "a", "/", "b", "/", "f", ".", "x">>}
Places == {<<>>, <<"/", "a">>, <<"/", "a", "/", "b">>, <<"/", "b">>, <<"/", "c">>, <<"a">>}
Fmt == {<<"f", ".", "fmt">>, <<"x", ".", "fmt">>, <<".", "f", ".", "fmt">>, <<".", "x", ".", "fmt">>}
Files == [dir : Places, name : Fmt]
\* Two files are told apart with a format directory; without one the current directory
\* is searched twice
MCSearchJobs == [path : Paths, formatDir : {<<"/", "b">>}, files : {{f, g} : f, g \in Files} \cup {{}}]
                \cup [path : Paths, formatDir : {<<>>}, files : {{f} : f \in Files} \cup {{}}]
RelativeJobs == [path : Relative, formatDir : {<<>>}, files : {{f} : f \in Files} \cup {{}}]

F == INSTANCE FileSearch WITH job <- search

-----------------------------------------------------------------------------
(* Sections of name tables, and headers *)

A == <<"A">>
B == <<"B">>
P == <<"p">>
Q == <<"q">>
Short == <<"x">>
Long == <<"y", "z">>
T == <<"t">>
Begin(what) == <<<<"begin">>, <<what>>>>
End(what) == <<<<"end">>, <<what>>>>
Sections == {
    <<Begin("constant"), <<A, T, Short>>, <<B, T, Long>>, End("constant")>>,
    <<<<<<"output_eqv">>>>, Begin("constant"), <<A, T, Long>>, End("constant"),
      Begin("equiv"), <<B, P>>, End("equiv")>>,
    <<Begin("equiv"), <<A, P>>, <<T, Short, T, Long>>, <<T, Long, T, Short>>, <<>>, <<B, Q>>, End("equiv")>>,
    <<Begin("equiv"), <<B, P>>, <<T, Short, T, Long>>, End("equiv")>>,
    <<Begin("equiv"), <<A, P>>, Begin("constant")>>,
    <<Begin("constant"), <<A, T, Short>>>>,
    <<Begin("constant"), <<A, T>>, End("constant")>> }
Field(n, s, e) == [name |-> n, flags |-> {}, start |-> s, end |-> e, trans |-> <<>>]
APQ == [vars |-> <<Field(A, 1, 1), Field(P, 2, 3), Field(Q, 4, 4)>>, buf |-> <<"a", "p", "p", "q">>]
BP == [vars |-> <<Field(B, 1, 2), Field(P, 3, 3)>>, buf |-> <<"b", "b", "p">>]
HeaderSets == {[p \in {"in", "out"} \X {"rec", "file"} |-> Nil],
               [p \in {"in", "out"} \X {"rec", "file"} |->
                   CASE p = <<"out", "file">> -> APQ
                     [] p = <<"in", "rec">> -> Nil
                     [] OTHER -> BP]}

N == INSTANCE NameTables WITH Headers <- HeaderSets, Env <- [n \in {A} |-> Short], Names <- {A, B},
                              Values <- {Short, Long}, MaxSteps <- 3

-----------------------------------------------------------------------------
(* Headers of two items, with values of all kinds: the characters in the file, *)
(* and what is printed of them, the same number (with a negative exponent, one *)
(* that the mantissa's decimals can hold: the code prints no more of them)     *)

Value(cs, shown) == [cs |-> cs, shown |-> shown]
HeaderValues ==
    {Value(<<"5">>, <<"5">>), Value(<<"+", "0", "7">>, <<"7">>), Value(<<"-", "1", ".", "5">>, <<"-", "1", ".", "5">>),
     Value(<<"2", ".", "5", "0">>, <<"2", ".", "5", "0">>), Value(<<".", "5">>, <<"0", ".", "5">>), Value(<<"5", ".">>, <<"5">>),
     Value(<<"1", ".", "2", "5", "e", "2">>, <<"1", "2", "5", ".", "0", "0">>), Value(<<"1", "e", "+", "2">>, <<"1", "0", "0">>),
     Value(<<"1", ".", "5", "0", "e", "-", "1">>, <<"0", ".", "1", "5">>),
     Value(<<"1", "5", "e">>, <<"1", "5", "e">>), Value(<<"e", "5">>, <<"e", "5">>), Value(<<".">>, <<".">>), Value(<<"-">>, <<"-">>),
     Value(<<"1", " ", "2">>, <<"1", "2">>), Value(<<"1", ".", "2", ".", "3">>, <<"1", ".", "2", ".", "3">>),
     Value(<<"1", "-">>, <<"1", "-">>), Value(<<"x", "=">>, <<"x", "=">>), Value(<<>>, <<>>)}
Item(name, blank, gap, v) == [name |-> name, blank |-> blank, gap |-> gap, value |-> v]
ItemText(i, delim, end) == i.name \o i.blank \o delim \o i.gap \o i.value.cs \o end
Blanks == {<<>>, <<" ">>}
First(bs, v) == {Item(<<"a">>, b, g, v) : b, g \in bs}
Second == Item(<<"b", "c">>, <<>>, <<" ">>, Value(<<"3", ".", "1">>, <<"3", ".", "1">>))
HeaderOf(mode, is, item, delim, ends, closed) ==
    [mode |-> mode, item |-> item, value |-> delim, distance |-> 0, width |-> 0, names |-> <<>>,
     outItem |-> Nil, outValue |-> Nil, rename |-> <<>>, precision |-> <<>>,
     text |-> FlattenSeq([k \in DOMAIN is |-> ItemText(is[k], delim, IF k = Len(is) /\ ~closed THEN <<>> ELSE ends)])]
WithOutput(j, is, names, shown, closed) ==
    j @@ [expected |-> FlattenSeq([k \in DOMAIN is |->
              names[k] \o (IF j.outValue # Nil THEN j.outValue ELSE IF j.width # 0 THEN <<>> ELSE <<"=">>) \o shown[k]
                \o (IF k = Len(is) /\ ~closed THEN <<>> ELSE IF j.outItem = Nil THEN <<"lf">> ELSE j.outItem)])]
Dynamic(is, item, ends, delim, closed) ==
    WithOutput([HeaderOf("dynamic", is, item, delim, ends, closed) EXCEPT
                    !.item = IF item = <<"lf">> THEN Nil ELSE item, !.value = IF delim = <<"=">> THEN Nil ELSE delim], is,
               [k \in DOMAIN is |-> is[k].name], [k \in DOMAIN is |-> is[k].value.shown], closed)
Minimum == Item(<<"a", "_", "m", "i", "n">>, <<>>, <<>>, Value(<<"5">>, <<"5", ".", "0", "0">>))
Translated(is) ==
    {WithOutput([HeaderOf("dynamic", is, <<"lf">>, <<"=">>, <<"lf">>, TRUE) EXCEPT
                    !.rename = r, !.width = w, !.outItem = o, !.outValue = IF o = Nil THEN Nil ELSE <<":">>, !.precision = [n \in {Minimum.name} |-> 2]],
                is, [k \in DOMAIN is |-> LET n == IF is[k].name \in DOMAIN r THEN r[is[k].name] ELSE is[k].name
                                          IN  SubSeq(n, 1, IF w = 0 \/ w > Len(n) THEN Len(n) ELSE w)],
                [k \in DOMAIN is |-> is[k].value.shown], TRUE) :
        w \in {0, 2, 9}, o \in {<<"cr", "lf">>, <<";">>, Nil},
        r \in {<<>>, [n \in {<<"a">>} |-> <<"n", "e", "w">>], [n \in {<<"a">>} |-> <<"a">>], [n \in {<<"b", "c">>, <<"a">>} |-> <<"d">>]}}
NamedOf(is, names, distance, delim, expected) ==
    [HeaderOf("named", is, <<"lf">>, delim, <<"lf">>, TRUE) EXCEPT !.names = names, !.distance = distance]
        @@ [expected |-> SelectSeq([k \in DOMAIN names |->
                IF \E i \in ToSet(is) : i.name = names[k] /\ i.value.cs # <<>>
                THEN <<names[k], (CHOOSE i \in ToSet(is) : i.name = names[k]).value.cs>> ELSE <<>>], LAMBDA v : v # <<>>)]
NamedItems == {<<x, y>> : x \in UNION {First(Blanks, v) : v \in HeaderValues}, y \in {Second}}
InOrder(j) == [j EXCEPT !.text = <<"5", "lf", " ", "3", ".", "1", " ", "lf">>,
                        !.expected = <<<<<<"x">>, <<"5">>>>, <<<<"y">>, <<"3", ".", "1">>>>>>, !.names = <<<<"x">>, <<"y">>>>]
Selected(fmt, text, expected) ==
    [HeaderOf("restrict", <<>>, <<"lf">>, <<"=">>, <<"lf">>, TRUE) EXCEPT !.text = text] @@ [format |-> fmt, expected |-> expected]
Vars3 == <<[kind |-> "value", name |-> <<"a">>, start |-> 1, end |-> 2], [kind |-> "value", name |-> <<"b">>, start |-> 3, end |-> 6],
           [kind |-> "value", name |-> <<"c">>, start |-> 8, end |-> 8]>>
WithEol == Append(Vars3, [kind |-> "eol", name |-> <<"e", "o", "l">>, start |-> 9, end |-> 9])
Words == {<<"a">>, <<"b">>, <<"c">>, <<"d">>}
MCHeaderJobs ==
    {Dynamic(<<x, Second>>, i, f, d, l) : x \in UNION {First(Blanks, v) : v \in HeaderValues}, i \in {<<"lf">>},
        f \in {<<"lf">>, <<"cr", "lf">>, <<"cr">>}, d \in {<<"=">>}, l \in BOOLEAN}
      \cup {Dynamic(<<x>>, i, i, d, l) : x \in UNION {First(Blanks, v) : v \in HeaderValues \ {Value(<<"x", "=">>, <<"x", "=">>)}},
                i \in {<<"lf">>, <<";">>}, d \in {<<":">>, <<"=", "=">>}, l \in BOOLEAN}
      \cup UNION {Translated(<<x, Second, Minimum>>) : x \in First(Blanks, Value(<<"5">>, <<"5">>))}
      \cup {NamedOf(is, ns, 0, <<"=">>, <<>>) : is \in NamedItems, ns \in {<<<<"a">>, <<"b", "c">>>>, <<<<"b", "c">>, <<"a">>>>, <<<<"d">>, <<"a">>>>, <<<<"d">>>>}}
      \cup {NamedOf(<<Item(<<"a">>, <<>>, <<" ">>, v), Second>>, <<<<"a">>>>, 2, <<" ">>, <<>>) : v \in {x \in HeaderValues : x.cs # <<>>}}
      \cup {InOrder(NamedOf(<<>>, <<>>, 0, <<>>, <<>>))}
      \cup {Selected(f, FlattenSeq([k \in DOMAIN ws |-> Append(ws[k], "lf")]),
                     LET kept == SelectSeq(f, LAMBDA v : v.kind = "eol" \/ v.name \in ToSet(ws)) IN [k \in DOMAIN kept |-> <<kept[k].name, kept[k].end - kept[k].start + 1>>]) :
                f \in {Vars3, WithEol}, ws \in {<<v, w>> : v, w \in Words}}

H == INSTANCE Headers WITH HeaderJobs <- MCHeaderJobs, offset <- at0

-----------------------------------------------------------------------------
AnyJob == CHOOSE j \in Jobs : TRUE
NoSetUp ==
    /\ job = AnyJob
    /\ flist = <<>> /\ fdl = <<>> /\ fds = <<>> /\ usage = <<>> /\ conduits = <<>>
    /\ stage = "none" /\ at = Nil /\ made = 0 /\ lost = {}
NoSearch == search = Nil /\ path = <<>> /\ place = "none" /\ dir = <<>> /\ found = {}
NoTables == tables = Nil /\ headers = Nil /\ offset = Nil /\ stored = Nil /\ last = Nil /\ steps = 0
NoHeaders == given = Nil /\ pc = Nil /\ at0 = Nil /\ eol = Nil /\ format = Nil /\ index = Nil

PartsInit ==
    \/ part = "set-up" /\ Init /\ NoSearch /\ NoTables /\ NoHeaders
    \/ part = "search" /\ F!Init /\ NoSetUp /\ NoTables /\ NoHeaders
    \/ part = "tables" /\ N!Init /\ NoSetUp /\ NoSearch /\ NoHeaders
    \/ part = "headers" /\ H!Init /\ NoSetUp /\ NoSearch /\ NoTables
SearchStep == part = "search" /\ F!Next /\ UNCHANGED <<vars, tableVars, headerVars, part>>
PartsNext ==
    \/ part = "set-up" /\ Next /\ UNCHANGED <<searchVars, tableVars, headerVars, part>>
    \/ SearchStep
    \/ part = "tables" /\ N!Next /\ UNCHANGED <<vars, searchVars, headerVars, part>>
    \/ part = "headers" /\ H!Next /\ UNCHANGED <<vars, searchVars, tableVars, part>>
allVars == <<vars, searchVars, tableVars, headerVars, part>>
PartsSpec == PartsInit /\ [][PartsNext]_allVars /\ WF_allVars(SearchStep)

\* Of FileSearch: the nearest format file is found, and the search ends
SearchRight == part = "search" => F!SearchRight

\* Of NameTables: tables and headers hold what was stored, and what was put is asked
NamesRight == part = "tables" => N!NamesRight

\* Of Headers: what is read is written again, names find their values, a restricted
\* format is what is named
HeadersRight == part = "headers" => H!HeadersRight

\* The search for a file at a relative path (the run relativePaths)
SearchEnds == part = "search" => F!SearchEnds
=============================================================================
