------------------------------ MODULE Equations ------------------------------
(* Equations and queries, eval_eqn.c and eqn_util.c: the text is made uniform, *)
(* translated operator by operator into a list of instructions on numbered    *)
(* variables, each result taking the place of its term in the text, and the    *)
(* instructions are carried out on the values of a record.                    *)
(*                                                                            *)
(* A text is a sequence of tokens: operators and functions [op], operands      *)
(* [name], [text] (a string) and [num], and, for what has a number, [var].     *)
(* A number is a fraction <<numerator, denominator>>, a string a sequence of    *)
(* letters' numbers.                                                          *)
EXTENDS Integers, Sequences, SequencesExt, FiniteSets

CONSTANTS
    Given,      \* the equations: [tokens, tree]; no tree if it is not one
    Record,     \* the values of the record's variables, by name
    TextNames,  \* the ones that are text
    Nil

VARIABLES
    equation,
    state,
    stack,      \* the text and its terms that are being translated, innermost first
    einfo,      \* [names, strings, base, work, free, types]; base is the first work variable
    code,       \* einfo->equation
    result,     \* the variable that has the result
    values, next    \* eqn_vars, and the next instruction

vars == <<equation, state, stack, einfo, code, result, values, next>>

Op(o) == [op |-> o]
Var(k) == [var |-> k]
Num(x) == [num |-> x]
IsOp(t) == "op" \in DOMAIN t
Is(ts, k, o) == k \in DOMAIN ts /\ ts[k] = Op(o)
Kind(ts, k, f) == k \in DOMAIN ts /\ f \in DOMAIN ts[k]
Places(ts, ops) == {k \in DOMAIN ts : IsOp(ts[k]) /\ ts[k].op \in ops}
First(S) == CHOOSE k \in S : \A j \in S : k <= j

-----------------------------------------------------------------------------
(* ee_clean_up_equation *)

\* var_list, str_list and the numbers: what the tokens have in f, each once
Listed(ts, f) ==
    FoldLeft(LAMBDA l, t : IF f \in DOMAIN t /\ ~(\E k \in DOMAIN l : l[k] = t[f]) THEN Append(l, t[f]) ELSE l, <<>>, ts)
Synonym(t) ==
    IF ~IsOp(t) THEN t
    ELSE CASE t.op = "not" -> Op("!")
           [] t.op \in {"and", "&&"} -> Op("&")
           [] t.op = "xor" -> Op("x|")
           [] t.op \in {"or", "||"} -> Op("|")
           [] t.op = "==" -> Op("=")
           [] t.op \in {"<>", "><"} -> Op("!=")
           [] t.op = "=<" -> Op("<=")
           [] t.op = "=>" -> Op(">=")
           [] OTHER -> t
\* ~ before a variable: it is multiplied in parentheses, before a term: without them
NegatedVariables(ts) ==
    FlattenSeq([k \in DOMAIN ts |->
        IF Is(ts, k, "~") /\ Kind(ts, k + 1, "name") THEN <<Op("("), Num(<<-1, 1>>), Op("*")>>
        ELSE IF Kind(ts, k, "name") /\ Is(ts, k - 1, "~") THEN <<ts[k], Op(")")>>
        ELSE <<ts[k]>>])
NegatedTerms(ts) ==
    FlattenSeq([k \in DOMAIN ts |->
        IF Is(ts, k, "~") /\ Is(ts, k + 1, "(") THEN <<Num(<<-1, 1>>), Op("*")>> ELSE <<ts[k]>>])
\* A number with its sign; a ~ before anything else is the number 0
Numbers(ts) ==
    FlattenSeq([k \in DOMAIN ts |->
        IF Is(ts, k, "~") THEN IF Kind(ts, k + 1, "num") THEN <<>> ELSE <<Num(<<0, 1>>)>>
        ELSE IF Kind(ts, k, "num") /\ Is(ts, k - 1, "~") THEN <<Num(<<-ts[k].num[1], ts[k].num[2]>>)>>
        ELSE <<ts[k]>>])
Uniform(ts) == Numbers(NegatedTerms(NegatedVariables([k \in DOMAIN ts |-> Synonym(ts[k])])))

\* The variables' numbers: first the names, then the strings, then the numbers
IndexIn(l, x) == CHOOSE k \in DOMAIN l : l[k] = x
Numbered(t, names, strings, numbers) ==
    CASE "name" \in DOMAIN t -> Var(IndexIn(names, t.name) - 1)
      [] "text" \in DOMAIN t -> Var(Len(names) + IndexIn(strings, t.text) - 1)
      [] "num" \in DOMAIN t -> Var(Len(names) + Len(strings) + IndexIn(numbers, t.num) - 1)
      [] OTHER -> t

Balanced(ts) == Cardinality(Places(ts, {"("})) = Cardinality(Places(ts, {")"}))

Init ==
    /\ equation \in Given /\ state = "new"
    /\ stack = <<>> /\ einfo = Nil /\ code = <<>> /\ result = Nil /\ values = <<>> /\ next = 1

VarsExist(names) == names # <<>> /\ ToSet(names) \subseteq DOMAIN Record   \* ee_check_vars_exist
Einfo(names, strings, numbers) ==
    LET base == Len(names) + Len(strings) + Len(numbers)
        type(k) == IF k > Len(names) + Len(strings) THEN "numeric"
                   ELSE IF k > Len(names) \/ names[k] \in TextNames THEN "char" ELSE "numeric"   \* ee_set_var_types
    IN  [base |-> base, work |-> base, free |-> {}, types |-> [k \in 1 .. base |-> type(k)]]
VarValues(names, constants) ==   \* ee_set_var_values
    [k \in 1 .. Len(names) + Len(constants) |->
        IF k <= Len(names) THEN Record[names[k]] ELSE constants[k - Len(names)]]

CleanUp ==
    /\ state = "new"
    /\ LET ts == Uniform(equation.tokens)
           names == Listed(ts, "name")
           strings == Listed(ts, "text")
           numbers == Listed(ts, "num")
       IN  IF ~Balanced(ts) \/ ~VarsExist(names)
           THEN state' = "refused" /\ UNCHANGED <<stack, einfo, values>>
           ELSE /\ state' = "translate"
                /\ stack' = <<[k \in DOMAIN ts |-> Numbered(ts[k], names, strings, numbers)]>>
                /\ einfo' = Einfo(names, strings, numbers)
                /\ values' = VarValues(names, strings \o numbers)
    /\ UNCHANGED <<equation, code, result, next>>

-----------------------------------------------------------------------------
(* ee_translate_expression *)

\* The functions, in the order in which they are replaced, and their letters
FunctionList ==
    <<"acosh", "asinh", "atanh", "asech", "acsch", "acoth", "acos", "asin", "atan", "asec", "acsc", "acot",
      "cosh", "sinh", "tanh", "sech", "csch", "coth", "sqrt", "sign", "cos", "sin", "tan", "sec", "csc", "cot",
      "abs", "exp", "log", "fac", "deg", "rad", "rup", "rdn", "rnd", "sqr", "ten", "ln", "!">>
Functions1 == ToSet(FunctionList)
Comparisons == {"$>", "<=", ">=", "!=", "=", "<", ">"}
Binary == <<{"^"}, {"*", "/", "%"}, {"+", "-"}, {"$>"}, {"<="}, {">="}, {"!="}, {"="}, {"<"}, {">"}, {"&"}, {"x|"}, {"|"}>>
Levels == [k \in DOMAIN FunctionList |-> {FunctionList[k]}] \o Binary

\* ee_choose_new_var: a work variable that is not used any more, or the next one
ChooseNewVar_KeepsOther(x, y) ==
    LET isWork(v) == v >= einfo.base IN
    CASE isWork(x) -> [out |-> x, free |-> einfo.free \cup (IF isWork(y) THEN {x} ELSE {}), work |-> einfo.work]
      [] ~isWork(x) /\ isWork(y) -> [out |-> y, free |-> einfo.free, work |-> einfo.work]
      [] OTHER -> IF einfo.free # {} THEN [out |-> First(einfo.free), free |-> einfo.free \ {First(einfo.free)}, work |-> einfo.work]
                  ELSE [out |-> einfo.work, free |-> {}, work |-> einfo.work + 1]
ChooseNewVar(x, y) ==
    LET isWork(v) == v >= einfo.base IN
    CASE isWork(x) -> [out |-> x, free |-> einfo.free \cup (IF isWork(y) THEN {y} ELSE {}), work |-> einfo.work]
      [] ~isWork(x) /\ isWork(y) -> [out |-> y, free |-> einfo.free, work |-> einfo.work]
      [] OTHER -> IF einfo.free # {} THEN [out |-> First(einfo.free), free |-> einfo.free \ {First(einfo.free)}, work |-> einfo.work]
                  ELSE [out |-> einfo.work, free |-> {}, work |-> einfo.work + 1]
IsChar(v) == v < einfo.base /\ einfo.types[v + 1] = "char"

Text == Head(stack)
AtTerm == state = "translate" /\ \E k \in DOMAIN Text : Text[k] = Op("(")
NextLevel == LET levels == Levels IN {l \in DOMAIN levels : Places(Text, levels[l]) # {}}
AtOperator == state = "translate" /\ ~AtTerm /\ NextLevel # {}
OpPlace == First(Places(Text, Levels[First(NextLevel)]))
Operator == Text[OpPlace].op
Refuse == state' = "refused" /\ UNCHANGED <<equation, stack, einfo, code, result, values, next>>

\* ee_get_next_term_len, ee_extract_next_term: up to the parenthesis that closes the first one
Closing(ts) ==
    LET open == First(Places(ts, {"("}))
        Depth(k) == Cardinality(Places(SubSeq(ts, open, k), {"("})) - Cardinality(Places(SubSeq(ts, open, k), {")"}))
    IN  First({k \in open .. Len(ts) : Depth(k) = 0})
\* ee_replace
Replaced(ts, a, b, v) == SubSeq(ts, 1, a - 1) \o <<Var(v)>> \o SubSeq(ts, b + 1, Len(ts))

EnterTerm ==
    /\ AtTerm
    /\ stack' = <<SubSeq(Text, First(Places(Text, {"("})) + 1, Closing(Text) - 1)>> \o stack
    /\ UNCHANGED <<equation, state, einfo, code, result, values, next>>

Emit(o, x, y, a, b) ==
    LET new == ChooseNewVar(x, y) IN
    /\ code' = Append(code, [op |-> o, x |-> x, y |-> y, out |-> new.out])
    /\ einfo' = [einfo EXCEPT !.free = new.free, !.work = new.work]
    /\ stack' = <<Replaced(Text, a, b, new.out)>> \o Tail(stack)
    /\ UNCHANGED <<equation, state, result, values, next>>

\* ee_repl
ReplaceFunction ==
    /\ AtOperator /\ Operator \in Functions1
    /\ LET k == OpPlace IN
       IF ~Kind(Text, k + 1, "var") \/ IsChar(Text[k + 1].var) THEN Refuse
       ELSE Emit(<<"function", Operator>>, Text[k + 1].var, 0, k, k + 1)

\* The letters of the comparisons of strings are their own: S to Z
Instruction(o, x) == IF o \in Comparisons /\ IsChar(x) THEN <<"text", o>> ELSE <<"number", o>>
\* ee_replace_op, ee_check_for_char: strings are compared with strings, and only that
ReplaceOperator ==
    /\ AtOperator /\ Operator \notin Functions1
    /\ LET k == OpPlace
           x == Text[k - 1].var
           y == Text[k + 1].var
           refused == \/ IsChar(x) # IsChar(y)
                      \/ Operator = "$>" /\ ~IsChar(x)
                      \/ Operator \notin Comparisons /\ IsChar(x)
       IN  IF ~Kind(Text, k - 1, "var") \/ ~Kind(Text, k + 1, "var") THEN Refuse
           ELSE IF refused THEN Refuse
           ELSE Emit(Instruction(Operator, x), x, y, k - 1, k + 1)

\* The end of a term, or of the equation: one variable must be left
Left == state = "translate" /\ ~AtTerm /\ NextLevel = {}
IsOne == Len(Text) = 1 /\ Kind(Text, 1, "var")
RefuseRest == Left /\ ~IsOne /\ Refuse
LeaveTerm ==
    /\ Left /\ IsOne /\ Len(stack) > 1
    /\ LET outer == stack[2] IN
       stack' = <<Replaced(outer, First(Places(outer, {"("})), Closing(outer), Text[1].var)>> \o Tail(Tail(stack))
    /\ UNCHANGED <<equation, state, einfo, code, result, values, next>>
\* A result in variable 0 counts as a failure without an error: the equation is returned, its memory freed
FinishEquation ==
    /\ Left /\ IsOne /\ Len(stack) = 1
    /\ result' = Text[1].var
    /\ state' = IF Text[1].var = 0 THEN "freed" ELSE "evaluate"
    /\ values' = values \o [k \in 1 .. einfo.work - einfo.base |-> <<0, 1>>]
    /\ UNCHANGED <<equation, stack, einfo, code, next>>

-----------------------------------------------------------------------------
(* ee_evaluate_equation *)

Abs1(n) == IF n < 0 THEN -n ELSE n
Frac(n, d) ==
    LET s == IF d < 0 THEN -1 ELSE 1
        bound == IF Abs1(n) < Abs1(d) THEN Abs1(n) ELSE Abs1(d)
        g == IF n = 0 THEN Abs1(d)
             ELSE CHOOSE k \in 1 .. bound : /\ Abs1(n) % k = 0 /\ Abs1(d) % k = 0
                                            /\ \A j \in k + 1 .. bound : Abs1(n) % j # 0 \/ Abs1(d) % j # 0
    IN  <<(s * n) \div g, (s * d) \div g>>
Plus(x, y) == Frac((x[1] * y[2]) + (y[1] * x[2]), x[2] * y[2])
Times(x, y) == Frac(x[1] * y[1], x[2] * y[2])
Over(x, y) == Frac(x[1] * y[2], x[2] * y[1])
Minus(x) == <<-x[1], x[2]>>
Less(x, y) == x[1] * y[2] < y[1] * x[2]
Size1(x) == <<Abs1(x[1]), x[2]>>
Toward0(x) == IF x[1] < 0 THEN -(Abs1(x[1]) \div x[2]) ELSE x[1] \div x[2]
Floor(x) == x[1] \div x[2]
Power(x, n) == FoldLeft(Times, <<1, 1>>, [k \in 1 .. n |-> x])
Truth(b) == IF b THEN <<1, 1>> ELSE <<0, 1>>
IsTrue(x) == x[1] # 0
One == <<1, 1>>
Zero == <<0, 1>>

\* domain_error, for a function ...
Undefined(f, x) ==
    CASE f \in {"log", "ln", "fac"} -> x[1] <= 0
      [] f = "acosh" -> Less(x, One)
      [] f = "atanh" -> ~Less(Size1(x), One)
      [] f = "asech" -> x[1] <= 0 \/ Less(One, x)
      [] f \in {"acsch", "acot", "csch", "coth", "csc", "cot"} -> x[1] = 0
      [] f = "acoth" -> ~Less(One, Size1(x))
      [] f \in {"acos", "asin"} -> Less(One, Size1(x))
      [] f \in {"asec", "acsc"} -> Less(Size1(x), One)
      [] f = "sqrt" -> x[1] < 0
      [] OTHER -> FALSE
\* ... and an operator
Undefined2(o, x, y) ==
    \/ o \in {"/", "%"} /\ y[1] = 0
    \/ o = "^" /\ x[1] < 0 /\ y[2] # 1

\* Functions of whole numbers; each of the others stands for something else again
FunctionValue(f, x) ==
    CASE f = "!" -> Truth(~IsTrue(x))
      [] f = "abs" -> Size1(x)
      [] f = "sign" -> IF x[1] = 0 THEN Zero ELSE <<x[1] \div Abs1(x[1]), 1>>
      [] f = "sqr" -> Times(x, x)
      [] f = "rup" -> <<-Floor(Minus(x)), 1>>
      [] f = "rdn" -> <<Floor(x), 1>>
      [] f = "rnd" -> <<Floor(Plus(x, <<1, 2>>)), 1>>
      [] f = "fac" -> FoldLeft(Times, One, [k \in 1 .. Floor(x) |-> <<k, 1>>])
      [] OTHER -> Plus(x, <<IndexIn(FunctionList, f), 1>>)
NumberValue(o, x, y) ==
    CASE o = "*" -> Times(x, y)
      [] o = "/" -> Over(x, y)
      [] o = "%" -> Plus(x, Minus(Times(y, <<Toward0(Over(x, y)), 1>>)))
      [] o = "+" -> Plus(x, y)
      [] o = "-" -> Plus(x, Minus(y))
      [] o = "^" -> IF y[2] = 1 /\ y[1] \in 0 .. 5 THEN Power(x, y[1]) ELSE Plus(x, Plus(y, <<7, 1>>))
      [] o = "=" -> Truth(x = y)
      [] o = "!=" -> Truth(x # y)
      [] o = "<" -> Truth(Less(x, y))
      [] o = ">" -> Truth(Less(y, x))
      [] o = "<=" -> Truth(~Less(y, x))
      [] o = ">=" -> Truth(~Less(x, y))
      [] o = "&" -> Truth(IsTrue(x) /\ IsTrue(y))
      [] o = "|" -> Truth(IsTrue(x) \/ IsTrue(y))
      [] o = "x|" -> Truth(IsTrue(x) # IsTrue(y))
Before(s, t) ==
    \E k \in 0 .. Len(s) : /\ SubSeq(s, 1, k) = SubSeq(t, 1, k)
                           /\ \/ k = Len(s) /\ k < Len(t)
                              \/ k < Len(s) /\ k < Len(t) /\ s[k + 1] < t[k + 1]
TextValue(o, s, t) ==
    CASE o = "$>" -> Truth(\E k \in 0 .. Len(s) - Len(t) : SubSeq(s, k + 1, k + Len(t)) = t)
      [] o = "=" -> Truth(s = t)
      [] o = "!=" -> Truth(s # t)
      [] o = "<" -> Truth(Before(s, t))
      [] o = ">" -> Truth(Before(t, s))
      [] o = "<=" -> Truth(~Before(t, s))
      [] o = ">=" -> Truth(~Before(s, t))

This == code[next]
Operand(v) == values[v + 1]
AtInstruction == state = "evaluate" /\ next <= Len(code)
Store(v) == values' = [values EXCEPT ![This.out + 1] = v] /\ next' = next + 1 /\ UNCHANGED state
DomainError == state' = "undefined" /\ UNCHANGED <<values, next>>

EvaluateFunction ==
    /\ AtInstruction /\ This.op[1] = "function"
    /\ LET x == Operand(This.x)  f == This.op[2]
       IN  IF Undefined(f, x) THEN DomainError ELSE Store(FunctionValue(f, x))
    /\ UNCHANGED <<equation, stack, einfo, code, result>>
EvaluateNumbers ==
    /\ AtInstruction /\ This.op[1] = "number"
    /\ LET x == Operand(This.x)  y == Operand(This.y)  o == This.op[2]
       IN  IF Undefined2(o, x, y) THEN DomainError ELSE Store(NumberValue(o, x, y))
    /\ UNCHANGED <<equation, stack, einfo, code, result>>
EvaluateTexts ==
    /\ AtInstruction /\ This.op[1] = "text"
    /\ Store(TextValue(This.op[2], Operand(This.x), Operand(This.y)))
    /\ UNCHANGED <<equation, stack, einfo, code, result>>
Evaluated ==
    /\ state = "evaluate" /\ next > Len(code)
    /\ state' = "done"
    /\ UNCHANGED <<equation, stack, einfo, code, result, values, next>>

Next == \/ CleanUp \/ EnterTerm \/ ReplaceFunction \/ ReplaceOperator \/ RefuseRest \/ LeaveTerm
        \/ FinishEquation \/ EvaluateFunction \/ EvaluateNumbers \/ EvaluateTexts \/ Evaluated

-----------------------------------------------------------------------------
(* Properties *)

\* What an equation means: [type, value]; no type if it mixes numbers and texts, no value outside a function's domain
Nothing == [type |-> "none", value |-> {}]
NumberOf(defined, v) == [type |-> "numeric", value |-> IF defined THEN {v} ELSE {}]
ValueIn(m) == CHOOSE v \in m.value : TRUE
RECURSIVE Meaning(_)
Meaning(t) ==
    CASE "name" \in DOMAIN t -> IF t.name \notin DOMAIN Record THEN Nothing
                               ELSE [type |-> IF t.name \in TextNames THEN "char" ELSE "numeric", value |-> {Record[t.name]}]
      [] "text" \in DOMAIN t -> [type |-> "char", value |-> {t.text}]
      [] "num" \in DOMAIN t -> [type |-> "numeric", value |-> {t.num}]
      [] "arg" \in DOMAIN t ->
            LET m == Meaning(t.arg) IN
            IF m.type # "numeric" THEN Nothing
            ELSE IF m.value = {} THEN m
            ELSE IF t.op = "~" THEN NumberOf(TRUE, Minus(ValueIn(m)))
            ELSE NumberOf(~Undefined(t.op, ValueIn(m)), FunctionValue(t.op, ValueIn(m)))
      [] OTHER ->
            LET l == Meaning(t.left)  r == Meaning(t.right) IN
            IF l.type # r.type \/ l.type = "none" \/ (t.op = "$>" /\ l.type # "char") THEN Nothing
            ELSE IF l.type = "char" THEN IF t.op \in Comparisons THEN NumberOf(TRUE, TextValue(t.op, ValueIn(l), ValueIn(r))) ELSE Nothing
            ELSE IF l.value = {} \/ r.value = {} THEN NumberOf(FALSE, Zero)
            ELSE NumberOf(~Undefined2(t.op, ValueIn(l), ValueIn(r)), NumberValue(t.op, ValueIn(l), ValueIn(r)))

\* An equation that has a meaning is accepted, any other is refused, and the value is its
\* meaning: whatever the precedence, the parentheses and the work variables that terms
\* share; an operand out of an operator's domain is an error (ee_make_std_equation,
\* ee_clean_up_equation, ee_evaluate_equation). One without a variable is refused, and
\* one that is its first variable alone is taken for a failure.
EquationRight ==
    LET m == IF equation.tree = Nil THEN Nothing ELSE Meaning(equation.tree) IN
    CASE state = "refused" -> m.type = "none" \/ Listed(equation.tokens, "name") = <<>>
      [] state = "undefined" -> m.type # "none" /\ m.value = {}
      [] state = "done" -> m.value = {Operand(result)}
      [] state = "freed" -> equation.tree # Nil /\ "name" \in DOMAIN equation.tree
      [] OTHER -> TRUE
=============================================================================
