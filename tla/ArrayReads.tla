----------------------------- MODULE ArrayReads ------------------------------
(* How the handler serves an array of a file: ff_read_descriptors declares    *)
(* its dimensions to the client, the client asks for a part of each of them    *)
(* (a hyperslab: start, stride and stop, counted from 0), and FFArray::read    *)
(* asks newform for an output array of the same dimensions, in the user        *)
(* indices of the format.  newform maps that array into the file's.            *)
(*                                                                            *)
(* An element is known by its real indices in the file's array.  Which bytes   *)
(* these are, and how they are moved, is the business of Reorient.             *)
EXTENDS NdArray

CONSTANTS
    Files,      \* the arrays of the files, as their formats describe them
    MaxStride   \* bound: the largest stride of a client

ASSUME FilesAssumption ==
    \A f \in Files : DescriptorSpace(f)
ASSUME MaxStrideAssumption == MaxStride \in Nat \ {0}

VARIABLES
    pc,         \* "idle", "declared", "asked" or "done"
    file,       \* the array of the request
    dims,       \* the sizes of its dimensions in the DDS
    slab,       \* the client's part of each dimension
    values,     \* what was read: the file's element for each index of the slab
    outcome     \* "none", "sent" or "failed"

vars == <<pc, file, dims, slab, values, outcome>>

Init ==
    /\ pc = "idle" /\ file \in Files
    /\ dims = <<>> /\ slab = <<>> /\ values = <<>> /\ outcome = "none"

-----------------------------------------------------------------------------
\* C divides towards 0
Quot(m, n) == IF m < 0 THEN - ((- m) \div n) ELSE m \div n

\* db_ask looks the dimension up by its name
DimSiz_ByOne(a, i) ==
    LET j == DimMapping(a, a, i) IN a.end[j] - a.start[j] + 1
DimSiz(a, i) ==
    LET j == DimMapping(a, a, i) IN Quot(a.end[j] - a.start[j] + 1, a.gran[j])

\* ff_read_descriptors
Declare ==
    /\ pc = "idle" /\ pc' = "declared"
    /\ dims' = [i \in Dims(file) |-> DimSiz(file, i)]
    /\ UNCHANGED <<file, slab, values, outcome>>

\* libdap refuses a constraint that is not within the declared dimensions
Parts(n) ==
    {p \in [start : 0 .. n - 1, stride : 1 .. MaxStride, stop : 0 .. n - 1] :
        p.start <= p.stop}
Slabs(d) ==
    {s \in [DOMAIN d -> UNION {Parts(d[i]) : i \in DOMAIN d}] :
        \A i \in DOMAIN d : s[i] \in Parts(d[i])}
Ask(s) ==
    /\ pc = "declared" /\ pc' = "asked"
    /\ s \in Slabs(dims)
    /\ slab' = s
    /\ UNCHANGED <<file, dims, values, outcome>>

\* Arr_constraint: the count of a dimension
Edge(s) == (s.stop - s.start) \div s.stride + 1

\* makeND_output_format, as make_inputs_sub_desc_str hands it on: user indices
\* count from 1, no separation, the element size of the file
Output_FromZero(a, s) ==
    [name |-> a.name, elem |-> a.elem,
     start |-> [i \in Dims(a) |-> s[i].start],
     end |-> [i \in Dims(a) |-> s[i].start + (Edge(s[i]) - 1) * s[i].stride],
     gran |-> [i \in Dims(a) |-> s[i].stride],
     sep |-> [i \in Dims(a) |-> 0]]
Output_PastEnd(a, s) ==
    [name |-> a.name, elem |-> a.elem,
     start |-> [i \in Dims(a) |-> s[i].start + 1],
     end |-> [i \in Dims(a) |-> s[i].start + Edge(s[i]) * s[i].stride + 1],
     gran |-> [i \in Dims(a) |-> s[i].stride],
     sep |-> [i \in Dims(a) |-> 0]]
Output(a, s) ==
    [name |-> a.name, elem |-> a.elem,
     start |-> [i \in Dims(a) |-> s[i].start + 1],
     end |-> [i \in Dims(a) |-> s[i].start + (Edge(s[i]) - 1) * s[i].stride + 1],
     gran |-> [i \in Dims(a) |-> s[i].stride],
     sep |-> [i \in Dims(a) |-> 0]]

Indices(a) ==
    {k \in [Dims(a) -> UNION {0 .. DimSize(a, i) - 1 : i \in Dims(a)}] :
        \A i \in Dims(a) : k[i] < DimSize(a, i)}

\* FFArray::read: newform refuses an array that has no mapping, and read_ff throws
Read ==
    LET out == Output(file, slab) IN
    /\ pc = "asked" /\ pc' = "done"
    /\ \/ /\ Mappable(out, file)
          /\ values' = [k \in Indices(out) |->
                           [i \in Dims(file) |-> MappedIndex(out, file, k, i)]]
          /\ outcome' = "sent"
       \/ /\ ~Mappable(out, file)
          /\ outcome' = "failed" /\ UNCHANGED values
    /\ UNCHANGED <<file, dims, slab>>

Next == Declare \/ (\E s \in Slabs(dims) : Ask(s)) \/ Read

Spec == Init /\ [][Next]_vars

-----------------------------------------------------------------------------
(* Properties *)

\* The state is of the right shape.
TypeOK ==
    /\ pc \in {"idle", "declared", "asked", "done"}
    /\ file \in Files
    /\ pc # "idle" => dims \in [Dims(file) -> Int]
    /\ pc \in {"asked", "done"} => slab \in Slabs(dims)
    /\ outcome \in {"none", "sent", "failed"}
    /\ outcome = "none" <=> pc # "done"

\* The DDS counts a dimension anew (DimSiz in ff_read_descriptors, against
\* dim_size in ndarr_do_calculations).  It never declares an element that the
\* file does not have, in whatever direction and steps the user indices go; one
\* that goes up loses its last element at most, and none if the steps fill it.
DeclaredExists ==
    pc # "idle" => \A i \in Dims(file) :
        /\ dims[i] <= DimSize(file, i)
        /\ file.start[i] <= file.end[i] => dims[i] >= DimSize(file, i) - 1
        /\ file.start[i] <= file.end[i]
             /\ (file.end[i] - file.start[i] + 1) % file.gran[i] = 0
               => dims[i] = DimSize(file, i)

\* As all formats in data/ have it: from 1, by 1.  makeND_output_format takes it
\* for granted.
CountedByOne(a) ==
    \A i \in Dims(a) : a.start[i] = 1 /\ a.gran[i] = 1 /\ a.end[i] >= 1

\* Of such an array, what libdap allows a client to ask for can be read.
NeverRefused == CountedByOne(file) => outcome # "failed"

\* And an answer holds, for each index of the slab that the client asked for, the
\* element that DAP means by it: from start, every stride-th, up to stop.
Part(p) == {n \in 0 .. p.stop - p.start : p.start + n * p.stride <= p.stop}
Slice ==
    CountedByOne(file) /\ outcome = "sent" =>
        /\ \A k \in DOMAIN values : \A i \in Dims(file) :
               k[i] \in Part(slab[i])
               /\ values[k][i] = slab[i].start + k[i] * slab[i].stride
        /\ \A k \in [Dims(file) -> UNION {Part(slab[i]) : i \in Dims(file)}] :
               (\A i \in Dims(file) : k[i] \in Part(slab[i])) => k \in DOMAIN values
=============================================================================
