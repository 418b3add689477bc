--------------------------- MODULE MCDataRequests ----------------------------
(* DataRequests over small tables and arrays.                                 *)
EXTENDS DataRequests

Stored(w) == [width |-> w, synthesized |-> FALSE]
Synthesized == [width |-> 1, synthesized |-> TRUE]

Table(fields, n) ==
    [fields |-> fields, arrays |-> 0, rows |-> n, setup |-> "ok",
     listed |-> TRUE, reads |-> TRUE]
Arrays(n) == [Table(<<>>, 1) EXCEPT !.arrays = n]
Unreadable(d) == [d EXCEPT !.reads = FALSE]

Narrow == Table(<<Stored(1), Stored(2)>>, 2)
Wide == Table(<<Stored(2), Synthesized, Stored(3), Stored(1)>>, 3)
\* newform says that there is nothing to process
Empty == Unreadable(Table(<<Stored(2)>>, 0))

Unlisted == [Narrow EXCEPT !.listed = FALSE]
MCDatasets ==
    {Narrow, Wide, Empty, Unlisted, Unreadable(Wide), Arrays(1), Arrays(2), Unreadable(Arrays(2))}

\* A dataset that Records() cannot set up is asked for last: what it leaves in
\* the list of errors for others is the subject of staleErrors.
UnlistedLast ==
    \A i \in DOMAIN containers : containers[i].listed \/ round = MaxRequests
MCSpec ==
    /\ Init /\ [][Next /\ UnlistedLast']_vars
    /\ WF_vars(Build) /\ WF_vars(Respond)

\* A set-up that failed, followed by a good request
MixedDatasets == {Narrow, [Wide EXCEPT !.setup = "error"]}
\* Two tables in one request
PairDatasets == {Narrow, Wide}

\* The datasets are such as the theorems about sequences suppose.
ASSUME ServedAssumption ==
    \A d \in MCDatasets \cup MixedDatasets \cup PairDatasets : Served(d)

\* The comment of FFSequence::read: "If this method is called and the read_p
\* property is not true, the values are read".  A sequence of a file with rows
\* does not end before its first row.
ValuesAreRead ==
    \A i \in DOMAIN delivered :
        delivered[i].of.arrays = 0 /\ delivered[i].of.rows > 0
            => delivered[i].rows # <<>>
=============================================================================
