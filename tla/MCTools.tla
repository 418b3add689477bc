------------------------------- MODULE MCTools -------------------------------
(* What surrounds a conversion, each by itself: the date functions of a        *)
(* request, the programs' command lines, readfile, chkform, checkvar's         *)
(* histograms, the equations.                                                  *)
EXTENDS Dates, FileChecks, FileViewer, CommandLine, TLC

VARIABLES equation, state, stack, einfo, code, result, values, next,
          survey, which, seen, root, bins, sorterfactor, summaries,
          part

equationVars == <<equation, state, stack, einfo, code, result, values, next>>
histogramVars == <<survey, which, seen, root, bins, sorterfactor, summaries>>

-----------------------------------------------------------------------------
(* Dates: around the ends of a leap year, a common one and a century *)

Slash(p) == [mark |-> "/", parts |-> p]
Dash(p) == [mark |-> "-", parts |-> p]
Point(y, s) == [mark |-> ".", year |-> y, seconds |-> s]
DatesOnly == {Slash(<<1992, 2, 29>>), Slash(<<1992, 60>>), Slash(<<1993, 365>>), Dash(<<1992, 3>>), Dash(<<1993, 3, 1>>),
              [mark |-> "", parts |-> <<1993>>], Point(1993, 8710000), Slash(<<1993, 2, 29>>)}
Times == {<<12>>, <<12, 30>>, <<23, 59, 118>>, <<0, 0, 0>>, <<24>>}
Text(d, t) == [date |-> d, time |-> t]
DateTexts == {Text(d, <<>>) : d \in DatesOnly}
TimeTexts == {Text([mark |-> "none", parts |-> <<>>], t) : t \in Times}
BothTexts == {[date |-> d, time |-> t] : d \in {Slash(<<1992, 2, 29>>), Slash(<<1993, 60>>), Point(1993, 5140800)},
                                         t \in {<<>>, <<12, 30>>, <<23, 59, 1>>}}
Sequences1(S) == {<<s>> : s \in S}
Pairs(S) == {<<s, t>> : s, t \in S}
Calls(names, lists) == {[name |-> n, args |-> l] : n \in names, l \in lists}
Tests ==
    Calls({"date"}, Sequences1(DateTexts) \cup Pairs(DateTexts))
      \cup Calls({"start_date", "end_date"}, Sequences1(DateTexts))
      \cup Calls({"time", "start_time", "end_time"}, Sequences1(TimeTexts) \cup {<<>>})
      \cup Calls({"time"}, Pairs(TimeTexts))
      \cup Calls({"date_time"}, Sequences1(BothTexts) \cup Pairs(BothTexts))
      \cup Calls({"start_date_time", "end_date_time"}, Sequences1(BothTexts))
      \cup Calls({"date_range"}, Pairs(DateTexts))
Shows == {<<>>, <<"DODS_Decimal_Year", "DODS_JDate">>, <<"DODS_StartTime", "DODS_EndDate_Time">>, <<"DODS_StartDate">>}
DateRequests == {[shows |-> s, tests |-> <<t>>] : s \in Shows, t \in Tests}
                  \cup {[shows |-> s, tests |-> <<>>] : s \in Shows}
When(d, t) == [date |-> d, time |-> t]
Span(a, b, c, t) == [date |-> When(a, t), start |-> When(b, t), end |-> When(c, t)]
DataOf(form, base, rows, has) == [form |-> form, base |-> base, monthDay |-> 15, has |-> has, rows |-> rows]
All == {"date", "start", "end"}
DateDatasets ==
    {DataOf("ymd", 1900, <<Span(<<92, 2, 29>>, <<92, 2, 28>>, <<92, 3, 1>>, <<12, 30, 0>>),
                           Span(<<93, 3, 1>>, <<92, 3, 15>>, <<93, 12, 31>>, <<23, 59, 118>>)>>, All),
     DataOf("yd", 0, <<Span(<<1992, 366>>, <<1992, 59>>, <<1992, 366>>, <<0, 0, 0>>),
                       Span(<<1993, 60>>, <<1993, 60>>, <<1993, 60>>, <<12, 0, 1>>)>>, All),
     DataOf("ym", 1900, <<Span(<<92, 3>>, <<92, 2>>, <<93, 3>>, <<12, 30, 0>>),
                          Span(<<93, 2>>, <<93, 1>>, <<93, 1>>, <<12, 0, 0>>)>>, All)}

-----------------------------------------------------------------------------

(* Command lines: up to two options of all kinds, up to three of those that    *)
(* set the same arguments, and those for the log and the messages.             *)

Setting(words, sets) == [words |-> words, sets |-> sets, good |-> TRUE, complete |-> TRUE]
Bad(words) == [Setting(words, <<>>) EXCEPT !.good = FALSE]
Lone(word) == [Setting(<<word>>, <<>>) EXCEPT !.good = FALSE, !.complete = FALSE]
DataFile == Setting(<<"-d", "data">>, "input_file" :> "data")
Formats ==
    {Setting(<<"-f", "f1">>, "input_format_file" :> "f1" @@ "output_format_file" :> "f1" @@ "format_file" :> "set"),
     Setting(<<"-if", "f2">>, "input_format_file" :> "f2"), Setting(<<"-of", "f1">>, "output_format_file" :> "f1"),
     Setting(<<"-ft", "t">>, "input_format_title" :> "t" @@ "output_format_title" :> "t" @@ "format_title" :> "set"),
     Setting(<<"-ift", "u">>, "input_format_title" :> "u"), Setting(<<"-oft", "-u">>, "output_format_title" :> "-u"),
     Setting(<<"-g", "1">>, "SDE_grid_size" :> "1"),
     Setting(<<"-g", "2", "1">>, "SDE_grid_size" :> "2" @@ "SDE_grid_size2" :> "1"),
     Setting(<<"-g", "-5", "1", "2">>, "SDE_grid_size" :> "-5" @@ "SDE_grid_size2" :> "1" @@ "SDE_grid_size3" :> "2")}
Logs == {Setting(<<"-ol", "l1">>, "log_file" :> "l1"), Setting(<<"-el", "l1">>, "error_log" :> "l1"),
         Setting(<<"-el", "l2">>, "error_log" :> "l2"), Bad(<<"-ol", "no/l">>), Bad(<<"-el", "no/l">>)}
Others ==
    {Setting(<<"-b", "1">>, "cache_size" :> "1"), Setting(<<"-c", "-5">>, "records_to_read" :> "-5"),
     Setting(<<"-ep">>, "no_error_prompt" :> "set"), Setting(<<"-m", "2">>, "cv_maxbins" :> "2"),
     Setting(<<"-mm">>, "cv_maxmin_only" :> "set"), Setting(<<"-o", "out">>, "output_file" :> "out"),
     Setting(<<"-od", "dir">>, "cv_list_file_dir" :> "dir"), Setting(<<"-s">>, "cv_subset" :> "set"),
     Setting(<<"-p", "1">>, "cv_precision" :> "1" @@ "set_cv_precision" :> "set"),
     Setting(<<"-t", "f1">>, "sdts_terms_file" :> "f1"), Setting(<<"-q", "f1">>, "query_file" :> "f1"),
     Setting(<<"-v", "f1">>, "var_file" :> "f1"), Bad(<<"-b", "-5">>), Bad(<<"-c", "2x">>), Bad(<<"-x">>), Bad(<<"-d", "none">>),
     Bad(<<"-g", "1", "2x">>)} \cup {Lone(o) : o \in {"-b", "-d", "-o", "-g", "-if"}}
InputFirst == Setting(<<"data">>, "input_file" :> "data")
CommandOf(p, ss, r) ==
    LET words == [k \in DOMAIN ss |-> ss[k].words] IN
    [program |-> p, settings |-> ss, redirected |-> r, words |-> FlattenSeq(words),
     starts |-> [k \in 1 .. Len(ss) + 1 |-> 1 + Len(FlattenSeq(SubSeq(words, 1, k - 1)))]]
MCCommands ==
    {CommandOf("newform", <<s>>, r) : s \in Formats \cup Logs \cup Others \cup {DataFile, InputFirst}, r \in BOOLEAN}
      \cup {CommandOf("newform", <<InputFirst, s, t>>, FALSE) : s, t \in Formats \cup Others}
      \cup {CommandOf("newform", <<s, t, u, DataFile>>, FALSE) : s, t, u \in Formats}
      \cup {CommandOf(p, <<s, DataFile, t>>, r) :
               p \in {"newform", "chkform", "checkvar"}, s \in Logs, t \in Logs \cup Others, r \in BOOLEAN}
      \cup {CommandOf("newform", <<DataFile, s, Bad(<<"f1">>)>>, FALSE) :
               s \in {Setting(<<"-s">>, "cv_subset" :> "set"), Setting(<<"-o", "out">>, "output_file" :> "out")}}
      \cup {CommandOf(p, <<>>, r) : p \in {"newform", "chkform", "checkvar"}, r \in BOOLEAN}

-----------------------------------------------------------------------------
(* Sessions of readfile: lines of all kinds, on a file of 11 bytes *)

Lines == {<<"s">>, <<"i">>, <<"d">>, <<"u", "s">>, <<"u", "c">>, <<"u", "l">>, <<"u", "f">>, <<"t">>, <<"b">>,
          <<"p", "3 ">>, <<"p", "9 ">>, <<"p", "12 ">>, <<"P">>, <<"x">>, <<>>}
\* An empty line after a new position asks for another one, and after u and no type for a type
Repeats(ls) == \A k \in DOMAIN ls : ls[k] = <<>> => k > 1 /\ ls[k - 1] \notin {<<>>, <<"p", "3 ">>, <<"p", "9 ">>, <<"p", "12 ">>, <<"u", "f">>}
KeysOf(ls, p) == [k \in DOMAIN ls |-> IF ls[k] = <<>> THEN <<"\n">> ELSE IF p THEN ls[k] ELSE Append(ls[k], "\n")]
SessionOf(ls, p) ==
    [lines |-> ls, piped |-> p, keys |-> Append(FlattenSeq(KeysOf(ls, p)), "q"),
     starts |-> [k \in 1 .. Len(ls) + 1 |-> 1 + Len(FlattenSeq(SubSeq(KeysOf(ls, p), 1, k - 1)))]]
MCSessions == {SessionOf(ls, p) : ls \in {l \in UNION {[1 .. n -> Lines] : n \in 1 .. 3} : Repeats(l)}, p \in BOOLEAN}
                \cup {SessionOf(<<<<"u", "s">>, a, <<"u", b>>, <<>>>>, p) : a \in Lines \ {<<"p", "3 ">>}, b \in {"s", "i"}, p \in BOOLEAN}
MCLength == 11
MCPlaces == [p \in {"3 ", "9 ", "12 "} |-> IF p = "3 " THEN 3 ELSE IF p = "9 " THEN 9 ELSE 12]

(* Files for chkform: fields with every fault *)

FieldOf(k) == [kind |-> k, printable |-> TRUE, number |-> TRUE, fits |-> TRUE, point |-> TRUE, faulty |-> FALSE]
GoodField == FieldOf("integer")
Faulty == {[f EXCEPT !.faulty = TRUE] : f \in
              {[FieldOf("text") EXCEPT !.printable = FALSE, !.number = FALSE], [GoodField EXCEPT !.number = FALSE],
               [GoodField EXCEPT !.fits = FALSE], [FieldOf("real") EXCEPT !.point = FALSE], [FieldOf("real") EXCEPT !.printable = FALSE]}}
Right == {[FieldOf("text") EXCEPT !.number = FALSE], [FieldOf("text") EXCEPT !.point = FALSE], [GoodField EXCEPT !.point = FALSE], FieldOf("real")}
MCCheckJobs ==
    {[header |-> a, data |-> <<<<GoodField, g>>, <<f, GoodField>>, <<g, h>>>>, separate |-> s, caches |-> {1, 2}] :
        a \in {<<>>, <<<<GoodField>>, <<GoodField, CHOOSE f \in Faulty : TRUE>>>>} \cup {<<<<f>>>> : f \in {GoodField} \cup Faulty},
        f \in {GoodField} \cup Faulty, g \in Right, h \in Faulty, s \in BOOLEAN}
      \cup {[header |-> <<<<f>>>>, data |-> <<>>, separate |-> s, caches |-> {1}] : f \in Faulty, s \in BOOLEAN}

-----------------------------------------------------------------------------
(* Equations: expressions of up to three operators, written with the           *)
(* parentheses that they need, or with all, or with other signs                *)

MCRecord == [n \in {"a", "b", "s", "t"} |->
                CASE n = "a" -> <<2, 1>> [] n = "b" -> <<-3, 1>> [] n = "s" -> <<1, 2>> [] n = "t" -> <<2>>]
Name(n) == [name |-> n]
Two(o, l, r) == [op |-> o, left |-> l, right |-> r]
One(o, t) == [op |-> o, arg |-> t]
Half == [num |-> <<1, 2>>]
OpLevel == [o \in {"^", "*", "/", "%", "+", "-", "$>", "<=", ">=", "!=", "=", "<", ">", "&", "x|", "|"} |->
              CHOOSE k \in 1 .. 13 : o \in <<{"^"}, {"*", "/", "%"}, {"+", "-"}, {"$>"}, {"<="}, {">="}, {"!="}, {"="}, {"<"}, {">"}, {"&"}, {"x|"}, {"|"}>>[k]]
Other(o) == CASE o = "&" -> "and" [] o = "|" -> "||" [] o = "=" -> "==" [] o = "!=" -> "<>" [] o = "x|" -> "xor"
              [] o = "<=" -> "=<" [] o = ">=" -> "=>" [] o = "!" -> "not" [] OTHER -> o
IsLeaf(t) == ~("op" \in DOMAIN t)
IsTwo(t) == "left" \in DOMAIN t
TreeLevel(t) == IF IsLeaf(t) THEN 0 ELSE IF IsTwo(t) THEN OpLevel[t.op]
                ELSE IF t.op = "~" /\ ~IsLeaf(t.arg) THEN 2 ELSE 0
RECURSIVE TokensOf(_, _)
Enclosed(ts) == <<[op |-> "("]>> \o ts \o <<[op |-> ")"]>>
Inside(t, level, style) == IF TreeLevel(t) > level \/ (style = "full" /\ ~IsLeaf(t)) THEN Enclosed(TokensOf(t, style)) ELSE TokensOf(t, style)
TokensOf(t, style) ==
    LET sign == [op |-> IF style = "other" THEN Other(t.op) ELSE t.op] IN
    CASE IsLeaf(t) -> <<t>>
      [] IsTwo(t) -> Inside(t.left, OpLevel[t.op], style) \o <<sign>> \o Inside(t.right, OpLevel[t.op] - 1, style)
      [] OTHER -> <<sign>> \o IF IsLeaf(t.arg) THEN <<t.arg>> ELSE Enclosed(TokensOf(t.arg, style))
Leaves == {Name("a"), Name("b"), Half}
Numeric == DOMAIN OpLevel \ {"$>"}
Few == {"-", "*", "^", "<", "&"}
AllFunctions == {"acosh", "asinh", "atanh", "asech", "acsch", "acoth", "acos", "asin", "atan", "asec", "acsc", "acot",
    "cosh", "sinh", "tanh", "sech", "csch", "coth", "sqrt", "sign", "cos", "sin", "tan", "sec", "csc", "cot",
    "abs", "exp", "log", "fac", "deg", "rad", "rup", "rdn", "rnd", "sqr", "ten", "ln", "!", "~"}
Small == {Two(o, l, r) : o \in Numeric, l, r \in Leaves} \cup {One(f, l) : f \in AllFunctions, l \in Leaves}
Trees ==
    Leaves \cup Small
      \cup {Two(o, Two(p, Name("a"), Name("b")), Half) : o, p \in Numeric}
      \cup {Two(o, Name("b"), Two(p, Half, Name("a"))) : o, p \in Numeric}
      \cup {Two(o, Two(p, Name("a"), Name("b")), Two(q, Name("b"), Half)) : o, p, q \in Few}
      \cup {Two(o, Two("-", Two("+", Name("a"), Name("b")), Two("*", Name("a"), Half)), Two("-", Name("b"), Name("a"))) : o \in Numeric}
      \cup {Two(o, One(f, Two("+", Name("a"), Half)), One(g, Name("b"))) : o \in Few, f, g \in {"~", "!", "sqr", "fac", "sin"}}
      \cup {One(f, Two(o, Name("b"), Half)) : f \in {"~", "abs", "asin", "rnd"}, o \in Few}
      \cup {Two(o, l, r) : o \in DOMAIN OpLevel, l \in {Name("s"), Name("t"), Name("a")}, r \in {Name("t"), [text |-> <<2>>], [text |-> <<1, 3>>]}}
      \cup {Two("&", Two("=", Name("s"), [text |-> <<1, 2>>]), Two("<", Name("a"), Name("b"))), One("sin", Name("s")),
            Two("+", Half, Half), Two("+", Name("a"), Name("unknown"))}
Wrong == {<<Name("a"), [op |-> "+"]>>, <<[op |-> "*"], Name("a")>>, <<Name("a"), Name("b")>>, <<[op |-> "("], Name("a")>>,
          <<[op |-> "("], [op |-> ")"], Name("a")>>, <<Name("a"), [op |-> "+"], [op |-> "*"], Name("b")>>,
          <<[op |-> "sin"]>> \o Enclosed(<<>>) \o <<[op |-> "+"], Name("a")>>, <<[op |-> "cos"], [op |-> "sin"], Name("a")>>}
MCGiven == {[tokens |-> TokensOf(t, s), tree |-> t] : t \in Trees, s \in {"least", "full", "other"}}
             \cup {[tokens |-> ts, tree |-> Nil] : ts \in Wrong}

-----------------------------------------------------------------------------

(* Histograms: texts in every order; numbers around 0, far apart, and with     *)
(* fewer decimals wanted than they have                                        *)

Exactly(ns) == [k \in DOMAIN ns |-> [n |-> ns[k], below |-> FALSE]]
VariableOf(k, p, d, f, xs) == [kind |-> k, precision |-> p, decimals |-> d, flag |-> f, values |-> xs]
Orders(S) == {s \in [1 .. Cardinality(S) -> S] : \A i, j \in DOMAIN s : i # j => s[i] # s[j]}
SurveyOf(vs, w, m) == [variables |-> vs, wanted |-> w, maxbins |-> m, maxmin |-> FALSE]
Around == VariableOf("integer", 0, 0, {-4}, Exactly(<<-3, 2, -4, -1, 0, -5, 4, -4, -6, 5, 1, -8>>))
MCSurveys ==
    {SurveyOf(<<VariableOf("text", 0, 0, {}, Exactly(s \o <<3, 5>>))>>, {}, m) : s \in Orders(1 .. 6), m \in {1}}
      \cup {SurveyOf(<<VariableOf("text", 0, 0, {}, Exactly(<<4, 12, 2, 10, 6, 8, 1>> \o s))>>, {}, 1) : s \in Orders({3, 5, 7, 9, 11})}
      \cup {SurveyOf(<<VariableOf("integer", 1, 1, {-17}, Exactly(Append(s, 0))), Around>>, w, m) :
               s \in Orders({-38, -17, -20, 9, 41}), w \in {{}, {0}, {3}}, m \in {0, 1, 2, 4}}
      \cup {SurveyOf(<<Around, VariableOf("real", p, 2, f, <<[n |-> 29, below |-> TRUE], [n |-> -29, below |-> FALSE], [n |-> 30, below |-> b],
                                                            [n |-> -999, below |-> FALSE], [n |-> 400, below |-> FALSE]>>), Around>>, w, m) :
               p \in {1, 2, 3}, f \in {{}, {-999}}, b \in BOOLEAN, w \in {{}, {1}, {2}}, m \in {0, 1, 3}}
      \cup {[SurveyOf(<<Around, Around>>, {}, 6) EXCEPT !.maxmin = x] : x \in BOOLEAN}

-----------------------------------------------------------------------------

MCDashed == {"-5", "-u", "-x"} \cup OptionNames
MCNumbers == {"1", "2", "-5"}
MCExisting == {"data", "f1", "f2"}
MCCreatable == {"l1", "l2"}

Q == INSTANCE Equations WITH Given <- MCGiven, Record <- MCRecord, TextNames <- {"s", "t"}
H == INSTANCE Histograms WITH Surveys <- MCSurveys, MaximumBins <- 10

NoDates == request = Nil /\ dataset = Nil /\ clauses = Nil /\ row = 0 /\ columns = Nil /\ sent = <<>> /\ failed = Nil
NoCommand == command = Nil /\ args = Nil /\ place = Nil /\ told = Nil /\ pc = Nil /\ text = Nil /\ files = Nil /\ screen = Nil

NoViewer == session = Nil /\ keys = <<>> /\ at = Nil /\ lastOption = Nil /\ lastUnsigned = Nil /\ flip = Nil /\ shown = Nil
NoChecks == /\ work = Nil /\ read = Nil /\ buffers = Nil
            /\ fresh = Nil /\ lines = Nil /\ wrong = Nil /\ phase = Nil
NoEquation == /\ equation = Nil /\ state = Nil /\ stack = Nil /\ einfo = Nil
              /\ code = Nil /\ result = Nil /\ values = Nil /\ next = Nil
NoHistogram == survey = Nil /\ which = Nil /\ seen = Nil /\ root = Nil /\ bins = Nil /\ sorterfactor = Nil /\ summaries = Nil

Init == \/ part = "dates" /\ DatesInit /\ NoCommand /\ NoViewer /\ NoChecks /\ NoEquation /\ NoHistogram
        \/ part = "command" /\ CommandInit /\ NoDates /\ NoViewer /\ NoChecks /\ NoEquation /\ NoHistogram
        \/ part = "viewer" /\ ViewerInit /\ NoDates /\ NoCommand /\ NoChecks /\ NoEquation /\ NoHistogram
        \/ part = "checks" /\ ChecksInit /\ NoDates /\ NoCommand /\ NoViewer /\ NoEquation /\ NoHistogram
        \/ part = "equation" /\ Q!Init /\ NoDates /\ NoCommand /\ NoViewer /\ NoChecks /\ NoHistogram
        \/ part = "histogram" /\ H!Init /\ NoDates /\ NoCommand /\ NoViewer /\ NoChecks /\ NoEquation
Next ==
    \/ part = "dates" /\ DatesNext /\ UNCHANGED <<part, commandVars, viewerVars, checkVars, equationVars, histogramVars>>
    \/ part = "command" /\ CommandNext /\ UNCHANGED <<part, dateVars, viewerVars, checkVars, equationVars, histogramVars>>
    \/ part = "viewer" /\ ViewerNext /\ UNCHANGED <<part, dateVars, commandVars, checkVars, equationVars, histogramVars>>
    \/ part = "checks" /\ ChecksNext /\ UNCHANGED <<part, dateVars, commandVars, viewerVars, equationVars, histogramVars>>
    \/ part = "equation" /\ Q!Next /\ UNCHANGED <<part, dateVars, commandVars, viewerVars, checkVars, histogramVars>>
    \/ part = "histogram" /\ H!Next /\ UNCHANGED <<part, dateVars, commandVars, viewerVars, checkVars, equationVars>>
Spec == Init /\ [][Next]_<<part, dateVars, commandVars, viewerVars, checkVars, equationVars, histogramVars>>

\* Of Equations: the value of an equation is what it means
EquationRight == part = "equation" => Q!EquationRight
\* Of Histograms: every value is counted in its bin
HistogramsRight == part = "histogram" => H!HistogramsRight
=============================================================================
