---------------------------- MODULE MCArrayReads -----------------------------
(* ArrayReads over arrays of one to three dimensions.                         *)
EXTENDS ArrayReads

Dim(n, s, e, g, b) == [name |-> n, start |-> s, end |-> e, gran |-> g, sep |-> b]
Array(ds, size) ==
    [name |-> [i \in DOMAIN ds |-> ds[i].name], start |-> [i \in DOMAIN ds |-> ds[i].start],
     end |-> [i \in DOMAIN ds |-> ds[i].end], gran |-> [i \in DOMAIN ds |-> ds[i].gran],
     sep |-> [i \in DOMAIN ds |-> ds[i].sep], elem |-> size]

\* As in data/*.fmt: from 1, by 1
Counted(n, e, b) == Dim(n, 1, e, 1, b)
CountedFiles ==
    {Array(<<Counted("stuff", n, b)>>, 4) : n \in 1 .. 6, b \in {0, 3}}
    \cup {Array(<<Counted("r", m, 0), Counted("c", n, b)>>, 8) :
            m \in 1 .. 3, n \in 1 .. 3, b \in 0 .. 1}
    \cup {Array(<<Counted("z", 2, 0), Counted("y", 1, 5), Counted("x", 3, 0)>>, 1)}

\* As the comment of ndarr_create_from_str allows it, with numbers of its own:
\* ["longitude" -180 to 180 by 5]["latitude" 90 to -90]["band" 1 to 5]
GeoFiles ==
    {Array(<<Dim("longitude", -180, 180, 90, 0)>>, 2),
     Array(<<Dim("latitude", 2, -2, 1, 0), Dim("band", 1, 2, 1, 0)>>, 2)}
    \cup {Array(<<Dim("stuff", s, e, g, 0)>>, 4) : s \in -2 .. 2, e \in -2 .. 4, g \in 1 .. 3}
MCFiles == CountedFiles \cup GeoFiles
=============================================================================
