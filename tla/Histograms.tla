------------------------------ MODULE Histograms -----------------------------
(* checkvar, src/FFND/ff_utils.c: the values of each variable are counted in   *)
(* bins, kept in a balanced tree (avlins.c) whose bins are doubled in width    *)
(* when there are too many; the variables come one after the other.            *)
EXTENDS Integers, Sequences, SequencesExt, FiniteSets

CONSTANTS
    Surveys,        \* [variables, wanted, maxbins, maxmin]: wanted is {} or the -p precision
                    \* a variable: [kind, precision, decimals, flag, values]; a value [n, below] is the number
                    \* n / 10^decimals, or the double just below it; a text is its place in strcmp's order
    MaximumBins     \* MAXIMUM_MAXBINS

VARIABLES
    survey,
    which, seen,                \* the variable, and how many of its values have been read
    root, bins, sorterfactor,   \* the tree, how many bins it has, how many units wide they are
    summaries                   \* what has been printed

vars == <<survey, which, seen, root, bins, sorterfactor, summaries>>

Leaf == [size |-> 0]
Init ==
    /\ survey \in Surveys
    /\ which = 1 /\ seen = 0 /\ root = Leaf /\ bins = 0 /\ sorterfactor = 1
    /\ summaries = <<>>

-----------------------------------------------------------------------------
(* The tree *)

Node(bin, count) == [size |-> 1, bin |-> bin, count |-> count, bal |-> "B", kids |-> [L |-> Leaf, R |-> Leaf]]
Opposite(side) == IF side = "L" THEN "R" ELSE "L"

\* The side of p that was the higher has grown once more
Rebalanced(p, side) ==
    LET other == Opposite(side)
        p1 == p.kids[side]
        p2 == p1.kids[other]
    IN  IF p1.bal = side
        THEN [p1 EXCEPT !.bal = "B",
                        !.kids[other] = [p EXCEPT !.bal = "B", !.kids[side] = p1.kids[other]]]
        ELSE LET lower == [p1 EXCEPT !.bal = IF p2.bal = other THEN side ELSE "B", !.kids[other] = p2.kids[side]]
                 upper == [p EXCEPT !.bal = IF p2.bal = side THEN other ELSE "B", !.kids[side] = p2.kids[other]]
             IN  [p2 EXCEPT !.bal = "B", !.kids = [L |-> IF side = "L" THEN lower ELSE upper,
                                                   R |-> IF side = "L" THEN upper ELSE lower]]

\* ins: [tree, h (it has grown), met (the bin was there)]; a bin that was there gets the count
RECURSIVE Ins(_, _, _)
Ins(p, bin, count) ==
    IF p = Leaf THEN [tree |-> Node(bin, count), h |-> TRUE, met |-> FALSE]
    ELSE IF p.bin = bin THEN [tree |-> [p EXCEPT !.count = @ + count], h |-> FALSE, met |-> TRUE]
    ELSE LET side == IF p.bin > bin THEN "L" ELSE "R"
             below == Ins(p.kids[side], bin, count)
             q == [p EXCEPT !.kids[side] = below.tree]
         IN  CASE ~below.h -> [below EXCEPT !.tree = q]
               [] below.h /\ p.bal = "B" -> [below EXCEPT !.tree = [q EXCEPT !.bal = side]]
               [] below.h /\ p.bal = Opposite(side) -> [below EXCEPT !.tree = [q EXCEPT !.bal = "B"], !.h = FALSE]
               [] OTHER -> [below EXCEPT !.tree = Rebalanced(q, side), !.h = FALSE]

\* The bins and their counts as tcwrite and output_number_histogram write them
RECURSIVE InOrder(_)
InOrder(p) == IF p = Leaf THEN <<>> ELSE InOrder(p.kids.L) \o <<[bin |-> p.bin, count |-> p.count]>> \o InOrder(p.kids.R)

-----------------------------------------------------------------------------
(* The bins *)

\* C's fmod has the sign of the number: what is left of a negative one takes it
\* to the bin below
Fmod(n, factor) == IF n < 0 THEN -((-n) % factor) ELSE n % factor
BinOf_Truncates(n, factor) == n - Fmod(n, factor)
BinOf(n, factor) ==
    IF n < 0 /\ Fmod(n, factor) # 0 THEN n - (factor + Fmod(n, factor)) ELSE n - Fmod(n, factor)

\* collapse, at a node: the bin that is being added up goes to the new tree
\* when the walk leaves it
Collapse(c, node, factor) ==
    LET bin == BinOf(node.bin, factor) IN
    IF c.firstnode THEN [c EXCEPT !.firstnode = FALSE, !.thisbin = bin, !.cnt = node.count]
    ELSE IF bin <= c.thisbin THEN [c EXCEPT !.cnt = @ + node.count]
    ELSE [c EXCEPT !.newroot = Ins(@, c.thisbin, c.cnt).tree, !.bins = @ + 1, !.thisbin = bin, !.cnt = node.count]

\* collapse_tree
Collapsed(tree, factor) ==
    LET c == FoldLeft(LAMBDA d, node : Collapse(d, node, factor),
                      [firstnode |-> TRUE, thisbin |-> 0, cnt |-> 0, newroot |-> Leaf, bins |-> 0], InOrder(tree))
    IN  [root |-> Ins(c.newroot, c.thisbin, c.cnt).tree, bins |-> c.bins + 1]

Variable == survey.variables[which]
IsText == Variable.kind = "text"
Precision(v) == IF survey.wanted = {} THEN v.precision
                ELSE LET w == CHOOSE w \in survey.wanted : TRUE IN IF w < v.precision THEN w ELSE v.precision

\* Half away from zero: a real number as setup_lists and set_max_min scale it
Rounded(n, places) ==
    LET unit == 10 ^ places IN IF n < 0 THEN -((-n * 2 + unit) \div (2 * unit)) ELSE (n * 2 + unit) \div (2 * unit)
Places(v) == IF v.decimals > v.precision THEN v.decimals - v.precision ELSE 0
\* setup_lists: data_flag->value, in units of the variable's precision; set_max_min
FlagValue(v, f) == IF v.kind = "real" THEN Rounded(f, Places(v)) ELSE f
IsFlag(v, x) ==
    /\ v.kind # "text"
    /\ \E f \in v.flag :
        IF v.kind = "real" /\ v.precision # 0 THEN Rounded(x.n, Places(v)) = FlagValue(v, f)
        ELSE x.n = FlagValue(v, f) * 10 ^ Places(v)
\* fill_histo: the floor of the value at the precision wanted.  A product just
\* below a whole number has the floor below
Floor(v, x) == (x.n * 10 ^ Precision(v) - IF x.below THEN 1 ELSE 0) \div 10 ^ v.decimals

\* The tree is collapsed when it has more bins than memory is taken to hold, and
\* then if it has more than were asked for (a maxbins of less than 1 never collapses)
Limits == <<MaximumBins>> \o IF survey.maxbins < 1 THEN <<>> ELSE <<(3 * survey.maxbins) \div 2>>
CollapsedAt(t, limit) ==
    IF ~IsText /\ t.bins > limit
    THEN LET c == Collapsed(t.root, 2 * t.factor) IN [root |-> c.root, bins |-> c.bins, factor |-> 2 * t.factor]
    ELSE t

FillHisto(t, x) ==
    LET new == Ins(t.root, IF IsText THEN x.n ELSE BinOf(Floor(Variable, x), t.factor), 1)
    IN  [t EXCEPT !.root = new.tree, !.bins = IF new.met \/ IsText THEN @ ELSE @ + 1]

\* The loop over the values in the cache
NextValue ==
    /\ which <= Len(survey.variables) /\ seen < Len(Variable.values)
    /\ LET x == Variable.values[seen + 1]
           now == [root |-> root, bins |-> bins, factor |-> sorterfactor]
       IN  \E t \in {IF IsFlag(Variable, x) \/ survey.maxmin THEN now
                     ELSE FillHisto(FoldLeft(CollapsedAt, now, Limits), x)} :
               root' = t.root /\ bins' = t.bins /\ sorterfactor' = t.factor
    /\ seen' = seen + 1
    /\ UNCHANGED <<survey, which, summaries>>

\* print_summaries, after the last cache of a variable: the next one begins anew
PrintSummaries ==
    /\ which <= Len(survey.variables) /\ seen = Len(Variable.values)
    /\ summaries' = Append(summaries, [tree |-> root, factor |-> sorterfactor, bins |-> bins])
    /\ root' = Leaf /\ bins' = 0 /\ sorterfactor' = 1
    /\ seen' = 0 /\ which' = which + 1
    /\ UNCHANGED survey

Next == NextValue \/ PrintSummaries
Spec == Init /\ [][Next]_vars

-----------------------------------------------------------------------------
(* Properties *)

RECURSIVE Height(_)
Height(p) == IF p = Leaf THEN 0 ELSE LET l == Height(p.kids.L) r == Height(p.kids.R) IN 1 + IF l > r THEN l ELSE r
RECURSIVE Balanced(_)
Balanced(p) ==
    p = Leaf \/ /\ Balanced(p.kids.L) /\ Balanced(p.kids.R)
                /\ Height(p.kids.L) - Height(p.kids.R) = (CASE p.bal = "L" -> 1 [] p.bal = "B" -> 0 [] p.bal = "R" -> -1)
\* A value belongs to a bin if it lies in it, however far the bins have been widened
Belongs(v, x, bin, factor) ==
    IF v.kind = "text" THEN x.n = bin ELSE bin <= Floor(v, x) /\ Floor(v, x) < bin + factor
Ignored(v, x) == v.kind # "text" /\ \E f \in v.flag : x.n = f
CountedRight(v, values, tree, factor) ==
    LET written == InOrder(tree)
        counted == SelectSeq(values, LAMBDA x : ~Ignored(v, x))
        finer == {BinOf(Floor(v, counted[k]), factor \div 2) : k \in DOMAIN counted}
    IN  /\ \A k \in DOMAIN written :
              written[k].count = Len(SelectSeq(counted, LAMBDA x : Belongs(v, x, written[k].bin, factor)))
        /\ \A x \in ToSet(counted) : \E k \in DOMAIN written : Belongs(v, x, written[k].bin, factor)
        /\ \A k \in 1 .. Len(written) - 1 : written[k].bin < written[k + 1].bin
        /\ factor > 1 => \E limit \in ToSet(Limits) : Cardinality(finer) > limit

\* However the values come and the bins are widened, each value that is not the
\* missing-data flag is counted once, in the bin it lies in; a variable's
\* histogram holds nothing of the variable before it, and its bins are widened
\* only if its own values need too many; the tree is sorted and balanced.
HistogramsRight ==
    /\ Balanced(root)
    /\ ~survey.maxmin =>
         /\ which <= Len(survey.variables) =>
              CountedRight(Variable, SubSeq(Variable.values, 1, seen), root, sorterfactor)
         /\ \A k \in DOMAIN summaries :
              CountedRight(survey.variables[k], survey.variables[k].values, summaries[k].tree, summaries[k].factor)
=============================================================================
