----------------------------- MODULE MCReorient ------------------------------
(* Reorient on arrays of one, two and three dimensions, cut, flipped,         *)
(* thinned, replicated, permuted and separated.                               *)
EXTENDS Reorient

\* A dimension: <<name, start, end, granularity, separation>>
Array(dims, elem) ==
    [name |-> [i \in 1 .. Len(dims) |-> dims[i][1]],
     start |-> [i \in 1 .. Len(dims) |-> dims[i][2]],
     end |-> [i \in 1 .. Len(dims) |-> dims[i][3]],
     gran |-> [i \in 1 .. Len(dims) |-> dims[i][4]],
     sep |-> [i \in 1 .. Len(dims) |-> dims[i][5]],
     elem |-> elem]
Pair(sub, super, elem) == [sub |-> Array(sub, elem), super |-> Array(super, elem)]

X(s, e, g, sep) == <<"x", s, e, g, sep>>
Y(s, e, g, sep) == <<"y", s, e, g, sep>>
Z(s, e, g, sep) == <<"z", s, e, g, sep>>

\* The same steps in both arrays, as on output
Plain ==
    {Pair(<<X(1, 4, 1, 0)>>, <<X(1, 4, 1, 0)>>, 2),
     Pair(<<X(1, 4, 1, 1)>>, <<X(1, 4, 1, 0)>>, 1),
     Pair(<<Y(1, 2, 1, 1), X(0, 2, 1, 0)>>, <<Y(1, 2, 1, 0), X(0, 2, 1, 0)>>, 1),
     Pair(<<Y(1, 2, 1, 2), X(0, 1, 1, 1)>>, <<Y(1, 2, 1, 0), X(0, 1, 1, 0)>>, 2),
     Pair(<<Z(1, 2, 1, 1), Y(1, 2, 1, 1), X(5, 4, 1, 0)>>,
          <<Z(1, 2, 1, 0), Y(1, 2, 1, 0), X(5, 4, 1, 0)>>, 1)}

\* Cut, flipped, thinned, replicated and permuted, as on input
Reoriented ==
    {Pair(<<X(2, 5, 1, 0)>>, <<X(1, 6, 1, 0)>>, 1),
     Pair(<<X(5, 2, 1, 0)>>, <<X(1, 6, 1, 1)>>, 2),
     Pair(<<X(6, 2, 2, 1)>>, <<X(7, 1, 1, 0)>>, 1),
     Pair(<<X(3, 7, 1, 0)>>, <<X(1, 7, 2, 0)>>, 1),
     Pair(<<X(0, 2, 1, 0), Y(1, 2, 1, 0)>>, <<Y(1, 2, 1, 0), X(0, 2, 1, 0)>>, 1),
     Pair(<<X(2, 0, 1, 1), Y(1, 2, 1, 2)>>, <<Y(1, 2, 1, 1), X(0, 2, 1, 0)>>, 1),
     Pair(<<Y(1, 2, 1, 0), X(1, 2, 1, 0)>>, <<Y(1, 3, 1, 0), X(0, 2, 1, 1)>>, 1),
     Pair(<<Y(2, 3, 1, 0), X(0, 2, 1, 0)>>, <<Y(1, 3, 1, 0), X(0, 2, 1, 0)>>, 2),
     Pair(<<Y(3, 1, 2, 1), X(0, 2, 1, 0)>>, <<Y(1, 3, 1, 0), X(0, 2, 1, 0)>>, 1),
     Pair(<<Z(2, 1, 1, 0), Y(1, 2, 1, 0), X(1, 2, 1, 0)>>,
          <<Z(1, 2, 1, 0), Y(1, 2, 1, 0), X(0, 2, 1, 0)>>, 1),
     Pair(<<Z(1, 2, 1, 0), X(1, 2, 1, 0), Y(1, 2, 1, 0)>>,
          <<X(1, 2, 1, 0), Y(1, 2, 1, 0), Z(1, 2, 1, 0)>>, 1)}

Job(p, route, update, missing) ==
    [sub |-> p.sub, super |-> p.super, route |-> route, update |-> update,
     eof |-> TotalSize(p.super) - missing]

PassJobs ==
    {Job(p, r, FALSE, m) : p \in Plain \cup Reoriented,
                           r \in {"fileToFile", "fileToBuffer"}, m \in {0, 3}}
    \cup {Job(p, "bufferToFile", u, 0) : p \in Plain \cup Reoriented, u \in BOOLEAN}
    \cup {Job(p, "bufferToBuffer", FALSE, 0) :
            p \in {q \in Plain \cup Reoriented : DimIncrement(q.sub, q.super) = 0}}
PassSizes == 1 .. 9
PassMaxBytes == 21

\* What the theorems of Reorient_proofs assume of the arrays
ASSUME OrderlyAssumption == WholeBlocks /\ Orderly
=============================================================================
