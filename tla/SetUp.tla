-------------------------------- MODULE SetUp --------------------------------
(* How a data bin gets its conduits: formats are chosen from the format files  *)
(* (dbset_input_formats, dbset_output_formats), each becomes a FORMAT_DATA of  *)
(* the format data list, copies of these become the poles of array conduits   *)
(* (dbset_create_conduits), the list is freed, and redundant conduits are     *)
(* merged.  db_destroy frees the rest.                                        *)
(*                                                                            *)
(* A FORMAT_DATA owns its format; its buffer may be shared, and has a count   *)
(* of its users (FF_BUFSIZE.usage).  Which memory is still in use, and by      *)
(* whom, is what this module is about.  Reading format files is in Sections.  *)
EXTENDS Integers, Sequences, FiniteSets, SequencesExt, FiniteSetsExt, Functions, TLC

CONSTANTS
    Jobs,       \* what db_init is called with (see MCSetUp)
    Nil

VARIABLES
    job,        \* the arguments
    flist,      \* f_list: the formats of the format file that are not taken yet
    fdl,        \* format_data_list: FORMAT_DATAs
    fds,        \* every FORMAT_DATA in memory: its format and its buffer
    usage,      \* every buffer in memory: how many FORMAT_DATAs it has
    conduits,   \* array_conduit_list: the poles [fd, offset] or Nil
    stage,      \* how far db_init has come
    at,         \* dbset_create_conduits_core: the FORMAT_DATA, and spawn_array_conduits: the variable
    made,       \* how many FORMAT_DATAs have been made
    lost        \* FORMAT_DATAs that an error path has forgotten

vars == <<job, flist, fdl, fds, usage, conduits, stage, at, made, lost>>

\* A format: name (<<its own>>, or <<format, variable>>), kind ("file" and "rec" headers, "data", "record"), enc
\* ("ascii", "binary", "flat"), io ("in", "out", "none"), array, vars.
\* A variable: name, start, len, array (if it is one), and rec, the record format that is its type, or Nil.
Kinds == {"file", "rec", "data", "record"}
IsFormat(f) ==
    /\ f = [name |-> f.name, kind |-> f.kind, enc |-> f.enc, io |-> f.io, array |-> f.array, vars |-> f.vars]
    /\ f.kind \in Kinds
AreFormats(s) == s \in Seq(Range(s)) /\ \A i \in DOMAIN s : IsFormat(s[i])
ASSUME JobsAssumption == \A j \in Jobs : AreFormats(j.inputFormats) /\ AreFormats(j.outputFormats)

Init ==
    /\ job \in Jobs
    /\ flist = job.inputFormats
    /\ fdl = <<>> /\ fds = <<>> /\ usage = <<>> /\ conduits = <<>>
    /\ stage = "in file" /\ at = [fd |-> 1, var |-> 1] /\ made = 0 /\ lost = {}

-----------------------------------------------------------------------------
(* Choosing formats *)

\* The k-th of some positions, and what a list has at them
Nth(S, k) == CHOOSE i \in S : Cardinality({j \in S : j <= i}) = k
Those(s, S) == [k \in 1 .. Cardinality(S) |-> s[Nth(S, k)]]

\* db_find_format, fd_find_format_data: the first that fits, or Nil
FirstIn(s, fitting) ==
    LET fit == {i \in DOMAIN s : s[i] \in fitting}
    IN  IF fit = {} THEN Nil ELSE s[Nth(fit, 1)]

\* db_format_list_mark_io: what is neither input nor output becomes so if its
\* encoding goes with the extensions of the files
Encoding_OutAsIn(io) ==
    IF (IF io = "in" THEN job.inExt ELSE job.outExt) = "dat" THEN "ascii" ELSE "binary"
Encoding(io) ==
    IF io = "in" THEN IF job.inExt = "dat" THEN "ascii" ELSE IF job.inExt = "dab" THEN "flat" ELSE "binary"
    ELSE CASE job.outExt = "dat" -> "ascii"
           [] job.outExt = "dab" -> "flat"
           [] job.outExt = "other" -> "binary"
           [] OTHER -> IF job.inExt = "dat" THEN "binary" ELSE "ascii"
Marked(s, io) ==
    [i \in DOMAIN s |-> IF s[i].io = "none" /\ s[i].kind # "record" /\ s[i].enc = Encoding(io)
                        THEN [s[i] EXCEPT !.io = io] ELSE s[i]]

\* make_format_data: [found, list: what is left]; by its name if the user says so
Without(s, f) == RemoveAt(s, Nth({i \in DOMAIN s : s[i] = f}, 1))
Chosen(s, kind, io, title) ==
    IF title # Nil
    THEN LET f == FirstIn(s, {x \in ToSet(s) : x.name = title}) IN
         IF f = Nil THEN [found |-> Nil, list |-> s]
         ELSE [found |-> [f EXCEPT !.io = io], list |-> Without(s, f)]
    ELSE LET Fits(x) == x.kind = kind /\ x.io = io
             t == IF FirstIn(s, {x \in ToSet(s) : Fits(x)}) = Nil THEN Marked(s, io) ELSE s
             f == FirstIn(t, {x \in ToSet(t) : Fits(x)})
         IN  [found |-> f, list |-> IF f = Nil THEN t ELSE Without(t, f)]

-----------------------------------------------------------------------------
(* FORMAT_DATAs and their buffers *)

\* fd_create_format_data: with a buffer of its own
WithNew(heap, id, f) ==
    [d \in DOMAIN heap \cup {id} |-> IF d \in DOMAIN heap THEN heap[d] ELSE [fmt |-> f, buf |-> id]]
\* ff_create_bufsize: a new buffer has one user
OneUser(count, ids) == [b \in DOMAIN count \cup ids |-> IF b \in DOMAIN count THEN count[b] ELSE 1]

\* fd_destroy_format_data, ff_destroy_bufsize: the last user frees the buffer
UsersOf(heap, b, gone) == Cardinality({d \in gone \cap DOMAIN heap : heap[d].buf = b})
Released(count, heap, gone) ==
    LET left == [b \in DOMAIN count |-> count[b] - UsersOf(heap, b, gone)]
    IN  Restrict(left, {b \in DOMAIN left : left[b] > 0})
Destroyed(gone) ==
    /\ fds' = Restrict(fds, DOMAIN fds \ gone)
    /\ usage' = Released(usage, fds, gone)

\* reproduce_format_data, graft_format_data: a copy of the format on the same buffer
Grafted_Uncounted(count, b) == count
Grafted(count, b) == [count EXCEPT ![b] = @ + 1]

-----------------------------------------------------------------------------
(* dbset_input_formats and dbset_output_formats *)

Order == <<"in file", "in rec", "in data", "in records", "out file", "out rec", "out data",
           "connect", "free", "merge", "ready", "gone">>
After(s) == Order[1 + CHOOSE i \in DOMAIN Order : Order[i] = s]
IoOf == [s \in {"in file", "in rec", "in data", "out file", "out rec", "out data"} |->
            IF s \in {"in file", "in rec", "in data"} THEN "in" ELSE "out"]
KindOf == [s \in DOMAIN IoOf |-> CASE s \in {"in file", "out file"} -> "file"
                                   [] s \in {"in rec", "out rec"} -> "rec"
                                   [] OTHER -> "data"]
ListOf(s) == IF s = "out file" THEN job.outputFormats ELSE flist

\* dbset_output_formats: without any output format only the data handler goes on
NoOutput == \A i \in DOMAIN fdl : fds[fdl[i]].fmt.io # "out"

TakeFormat(s) ==
    LET io == IoOf[s]
        title == IF KindOf[s] # "data" THEN Nil ELSE IF io = "in" THEN job.inTitle ELSE job.outTitle
        c == Chosen(ListOf(s), KindOf[s], io, title)
    IN  /\ stage = s
        /\ flist' = c.list
        /\ IF c.found = Nil
           THEN UNCHANGED <<fdl, fds, usage, made>>
           ELSE /\ made' = made + 1
                /\ fds' = WithNew(fds, made + 1, c.found)
                /\ usage' = OneUser(usage, {made + 1})
                /\ fdl' = Append(fdl, made + 1)
        \* A title that is not found ends db_init
        /\ stage' = IF c.found = Nil /\ (title # Nil \/ (s = "out data" /\ NoOutput /\ ~job.goesOn))
                    THEN "failing" ELSE After(s)
        /\ UNCHANGED <<job, conduits, at, lost>>

\* collect_record_formats
TakeRecords ==
    LET records == Those(flist, {i \in DOMAIN flist : flist[i].kind = "record"})
        ids == [i \in DOMAIN records |-> made + i]
    IN  /\ stage = "in records"
        /\ fdl' = fdl \o ids
        /\ fds' = [d \in DOMAIN fds \cup Range(ids) |->
                      IF d \in DOMAIN fds THEN fds[d] ELSE [fmt |-> records[d - made], buf |-> d]]
        /\ usage' = OneUser(usage, Range(ids))
        /\ made' = made + Len(records)
        \* dbset_input_formats: there must be data
        /\ stage' = IF \E i \in DOMAIN fdl : fds[fdl[i]].fmt.kind = "data" THEN After(stage) ELSE "failing"
        /\ UNCHANGED <<job, flist, conduits, at, lost>>

-----------------------------------------------------------------------------
(* dbset_create_conduits *)

\* sort_format_data_list: a bubble sort; what is alike keeps its order, and a
\* record format, which has none of the three types, comes first
Rank == [record |-> 0, file |-> 1, rec |-> 2, data |-> 3]
Sorted(l) ==
    LET OfRank(r) == Those(l, {i \in DOMAIN l : Rank[fds[l[i]].fmt.kind] = r})
    IN  OfRank(0) \o OfRank(1) \o OfRank(2) \o OfRank(3)

Fd == Sorted(fdl)[at.fd]
OutputOf(f) == FirstIn(Sorted(fdl), {d \in ToSet(Sorted(fdl)) : fds[d].fmt.io = "out" /\ fds[d].fmt.kind = f.kind})

\* ff_find_variable; an output variable may be calculated, as name_eqn, from name
Named(f, v) ==
    LET same == FirstIn(f.vars, {x \in ToSet(f.vars) : x.name = v.name})
    IN  IF same # Nil THEN same ELSE FirstIn(f.vars, {x \in ToSet(f.vars) : <<x.name, v.name>> \in job.eqns})

\* An output format that is some conduit's already is passed by; this is asked once,
\* before its variables get conduits
HasConduit(f) ==
    \E i \in DOMAIN conduits :
        /\ conduits[i].out # Nil
        /\ LET g == fds[conduits[i].out.fd].fmt IN
           IF f.array THEN Len(g.name) = 2 /\ g.name[1] = f.name[1] ELSE g = f
Paired(f) == f.io = "out" /\ at.var = 1 /\ HasConduit(f)
Advance == [fd |-> at.fd + 1, var |-> 1]
PassedBy ==
    /\ stage = "connect" /\ at.fd <= Len(fdl)
    /\ LET f == fds[Fd].fmt IN f.kind = "record" \/ Paired(f)
    /\ at' = Advance
    /\ UNCHANGED <<job, flist, fdl, fds, usage, conduits, stage, made, lost>>
Due ==
    /\ stage = "connect" /\ at.fd <= Len(fdl)
    /\ LET f == fds[Fd].fmt IN f.kind # "record" /\ ~Paired(f)
InFd == IF fds[Fd].fmt.io = "in" THEN Fd ELSE Nil
OutFd == IF fds[Fd].fmt.io = "in" THEN OutputOf(fds[Fd].fmt) ELSE Fd

Matching == (InFd # Nil /\ OutFd # Nil) => fds[InFd].fmt.array = fds[OutFd].fmt.array
Mismatch ==
    /\ Due /\ ~Matching
    /\ stage' = "failing"
    /\ UNCHANGED <<job, flist, fdl, fds, usage, conduits, at, made, lost>>

\* reproduce_format_data of both, make_tabular_array_conduit
Pole(d, offset) == [fd |-> d, offset |-> offset]
MakeTabular ==
    /\ Due /\ Matching /\ ~fds[Fd].fmt.array
    /\ LET ins == IF InFd = Nil THEN <<>> ELSE <<InFd>>
           sides == IF OutFd = Nil THEN ins ELSE Append(ins, OutFd)
           counted == IF InFd = Nil THEN usage ELSE Grafted(usage, fds[InFd].buf)
       IN  /\ fds' = [d \in DOMAIN fds \cup (made + 1 .. made + Len(sides)) |->
                         IF d \in DOMAIN fds THEN fds[d] ELSE fds[sides[d - made]]]
           /\ usage' = IF OutFd = Nil THEN counted ELSE Grafted(counted, fds[OutFd].buf)
           /\ made' = made + Len(sides)
           /\ conduits' = Append(conduits,
                  [in |-> IF InFd = Nil THEN Nil ELSE Pole(made + 1, 0),
                   out |-> IF OutFd = Nil THEN Nil ELSE Pole(made + Len(sides), 0)])
    /\ at' = Advance
    /\ UNCHANGED <<job, flist, fdl, stage, lost>>

\* spawn_array_format_data: a format of one variable, or a copy of the record
\* format, all of it an array; a name that is no format's is a keyword
RecordFd(v) ==
    IF v.rec = Nil THEN Nil
    ELSE FirstIn(Sorted(fdl), {d \in ToSet(Sorted(fdl)) : fds[d].fmt.name = v.rec})
Refused(v) == RecordFd(v) # Nil /\ fds[RecordFd(v)].fmt.kind # "record"
Spawned(f, v) ==
    [name |-> Append(f.name, v.name), kind |-> f.kind, enc |-> f.enc, io |-> f.io,
     array |-> TRUE, vars |-> IF RecordFd(v) # Nil THEN fds[RecordFd(v)].fmt.vars ELSE <<v>>]

\* set_array_offsets, set_record_array_offsets: the array is found where the
\* variable starts, and in the array the variable starts at 1.  Both sides go by
\* what the output's variable v is (the input's, if there is no output).
Placed(v) == [v EXCEPT !.start = 1]
AsPlaced(f, v) == IF RecordFd(v) # Nil THEN f ELSE [f EXCEPT !.vars[1] = Placed(@)]
Offset(x, f, v, file) ==
    IF RecordFd(v) # Nil THEN IF file THEN x.start - 1 ELSE 0 ELSE f.vars[1].start - 1

\* An output array without an input (InFd = Nil) is its own input, too
VarsOf(d) == fds[d].fmt.vars
SpawnVar ==
    /\ Due /\ Matching /\ fds[Fd].fmt.array
    /\ LET vlist == VarsOf(IF OutFd = Nil THEN Fd ELSE OutFd)
           v == vlist[at.var]
           inVar == IF OutFd = Nil THEN v ELSE Named(fds[Fd].fmt, v)
           ins == IF inVar = Nil THEN <<>> ELSE <<Spawned(fds[Fd].fmt, inVar)>>
           outs == IF OutFd = Nil THEN <<>> ELSE <<Spawned(fds[OutFd].fmt, v)>>
       IN  IF at.var > Len(vlist)
           THEN /\ at' = Advance
                /\ UNCHANGED <<fds, usage, conduits, stage, made, lost>>
           ELSE IF ~v.array \/ (inVar # Nil /\ Refused(inVar)) \/ (OutFd # Nil /\ Refused(v))
           THEN \* the input's FORMAT_DATA may have been made
                /\ stage' = "failing"
                /\ LET half == v.array /\ inVar # Nil /\ ~Refused(inVar) IN
                   /\ fds' = IF half THEN WithNew(fds, made + 1, ins[1]) ELSE fds
                   /\ usage' = IF half THEN OneUser(usage, {made + 1}) ELSE usage
                   /\ lost' = IF half THEN lost \cup {made + 1} ELSE lost
                   /\ made' = IF half THEN made + 1 ELSE made
                /\ UNCHANGED <<conduits, at>>
           ELSE /\ LET a == IF ins = <<>> THEN fds ELSE WithNew(fds, made + 1, AsPlaced(ins[1], v))
                       last == made + Len(ins) + Len(outs)
                   IN  /\ fds' = IF outs = <<>> THEN a ELSE WithNew(a, last, AsPlaced(outs[1], v))
                       /\ usage' = OneUser(usage, made + 1 .. last)
                       /\ made' = last
                       /\ conduits' = Append(conduits,
                            [in |-> IF ins = <<>> THEN Nil
                                    ELSE Pole(made + 1, Offset(inVar, ins[1], v, job.inFile)),
                             out |-> IF outs = <<>> THEN Nil
                                     ELSE Pole(last, Offset(v, outs[1], v, job.outFile))])
                /\ at' = [at EXCEPT !.var = @ + 1]
                /\ UNCHANGED <<stage, lost>>
    /\ UNCHANGED <<job, flist, fdl>>

AllConnected ==
    /\ stage = "connect" /\ at.fd > Len(fdl)
    /\ stage' = After(stage)
    /\ UNCHANGED <<job, flist, fdl, fds, usage, conduits, at, made, lost>>

-----------------------------------------------------------------------------
(* The rest of db_init, and db_destroy *)

FdsOf(cs) == UNION {{c.in.fd : c \in {d \in Range(cs) : d.in # Nil}},
                    {c.out.fd : c \in {d \in Range(cs) : d.out # Nil}}}

\* dll_free_holdings(format_data_list)
FreeList ==
    /\ stage = "free"
    /\ Destroyed(Range(fdl))
    /\ fdl' = <<>> /\ stage' = After(stage)
    /\ UNCHANGED <<job, flist, conduits, at, made, lost>>

\* dbset_create_conduits destroys the conduits, db_init the list
FreeAll ==
    /\ stage = "failing"
    /\ Destroyed(Range(fdl) \cup FdsOf(conduits))
    /\ fdl' = <<>> /\ conduits' = <<>> /\ stage' = "failed"
    /\ UNCHANGED <<job, flist, at, made, lost>>

\* ff_format_comp, of the formats with all their variables
SameFormat(p, q) == fds[p.fd].fmt = fds[q.fd].fmt

\* merge_redundant_conduits: of two alike the later one is kept
Alike(c, d) ==
    IF c.in # Nil /\ d.in # Nil THEN SameFormat(c.in, d.in)
    ELSE c.out # Nil /\ d.out # Nil /\ SameFormat(c.out, d.out)
Merge ==
    LET kept == {i \in DOMAIN conduits : \A j \in i + 1 .. Len(conduits) : ~Alike(conduits[i], conduits[j])}
        left == Those(conduits, kept)
    IN  /\ stage = "merge"
        /\ conduits' = left
        /\ Destroyed(FdsOf(conduits) \ FdsOf(left))
        /\ stage' = After(stage)
        /\ UNCHANGED <<job, flist, fdl, at, made, lost>>

\* remove_header_from_ac_list: an output header file that exists is not overwritten
DropHeader ==
    /\ stage = "ready"
    /\ \E i \in DOMAIN conduits :
         /\ conduits[i].out # Nil /\ fds[conduits[i].out.fd].fmt.kind = "file"
         /\ Destroyed({conduits[i].out.fd})
         /\ conduits' = [conduits EXCEPT ![i].out = Nil]
    /\ UNCHANGED <<job, flist, fdl, stage, at, made, lost>>

\* db_destroy
Destroy ==
    /\ stage = "ready"
    /\ Destroyed(FdsOf(conduits))
    /\ conduits' = <<>> /\ stage' = "gone"
    /\ UNCHANGED <<job, flist, fdl, at, made, lost>>

TakeFormats == \E s \in DOMAIN IoOf : TakeFormat(s)
Next == \/ TakeFormats \/ TakeRecords \/ PassedBy \/ Mismatch \/ MakeTabular \/ SpawnVar
        \/ AllConnected \/ FreeList \/ FreeAll \/ Merge \/ DropHeader \/ Destroy
Spec == Init /\ [][Next]_vars

-----------------------------------------------------------------------------
(* What the formats must be, for the conduits to be right *)

Formats(j) == Range(j.inputFormats) \cup Range(j.outputFormats)
IsVar(v) ==
    /\ v = [name |-> v.name, start |-> v.start, len |-> v.len, array |-> v.array, rec |-> v.rec]
    /\ v.start \in Int /\ v # Nil
OneName(s) == s = <<s[1]>>
Described(f) ==
    /\ OneName(f.name)
    /\ f.vars \in Seq(Range(f.vars))
    /\ \A k \in DOMAIN f.vars : IsVar(f.vars[k])
    /\ \A k, m \in DOMAIN f.vars : f.vars[k].name = f.vars[m].name => k = m

\* A format has a name that no other has, and so have its variables; a title names data.
FormatsAreNamed ==
    \A j \in Jobs :
        /\ \A f \in Formats(j) : Described(f)
        /\ \A f, g \in Formats(j) : f.name = g.name => f = g
        /\ \A f \in Formats(j) : f.name \in {j.inTitle, j.outTitle} \ {Nil} => f.kind = "data"

-----------------------------------------------------------------------------
(* Properties *)

\* A buffer is counted once for each FORMAT_DATA on it, and is in memory as long
\* as there is one (graft_format_data, ff_destroy_bufsize).
UsageCounts ==
    /\ DOMAIN usage = {fds[d].buf : d \in DOMAIN fds}
    /\ \A b \in DOMAIN usage : usage[b] = Cardinality({d \in DOMAIN fds : fds[d].buf = b})

\* The list and the poles hold FORMAT_DATAs in memory, each held once, and when
\* the data bin is gone, or was refused, nothing is left but what `lost' says.
OwnedOnce ==
    /\ Range(fdl) \cup FdsOf(conduits) \subseteq DOMAIN fds
    /\ Range(fdl) \cap FdsOf(conduits) = {}
    /\ \A i, j \in DOMAIN conduits : i # j => FdsOf(<<conduits[i]>>) \cap FdsOf(<<conduits[j]>>) = {}
    /\ stage \in {"gone", "failed"} => DOMAIN fds = lost
    /\ stage = "ready" => DOMAIN fds = FdsOf(conduits)

\* Every format that was taken is on its side of one conduit, whether it has a mate or
\* not; an array format with each of its variables, except what an input has and
\* the output does not (dbset_create_conduits_core, spawn_array_conduits).
Side(c, io) == IF io = "in" THEN c.in ELSE c.out
On(io) == {i \in DOMAIN conduits : Side(conduits[i], io) # Nil}
Copies(f) == {i \in On(f.io) : fds[Side(conduits[i], f.io).fd].fmt = f}
Spawns(f, v) == {i \in On(f.io) : fds[Side(conduits[i], f.io).fd].fmt.name = Append(f.name, v.name)}
Asked(f, v) == {j \in DOMAIN VarsOf(OutputOf(f)) : Named(f, VarsOf(OutputOf(f))[j]) = v}
EachConnected ==
    stage = "free" =>
        \A d \in Range(fdl) :
            LET f == fds[d].fmt IN
            f.kind # "record" =>
                IF ~f.array THEN Cardinality(Copies(f)) = 1
                ELSE \A k \in DOMAIN f.vars :
                        Cardinality(Spawns(f, f.vars[k])) =
                        IF f.io = "out" \/ OutputOf(f) = Nil THEN 1 ELSE Cardinality(Asked(f, f.vars[k]))

\* The bytes of an array are those that its variable has in the format, unless it is
\* a record on one side only (set_array_offsets).
PlainBoth(f, v) ==
    /\ RecordFd(v) = Nil
    /\ \A e \in Range(fdl) : fds[e].fmt.io = "out" /\ fds[e].fmt.kind = f.kind =>
           \A k \in DOMAIN VarsOf(e) : Named(f, VarsOf(e)[k]) = v => RecordFd(VarsOf(e)[k]) = Nil
ArraysPlaced ==
    stage = "free" =>
        \A i \in DOMAIN conduits : \A p \in {conduits[i].in, conduits[i].out} \ {Nil} : \A d \in Range(fdl) :
            LET f == fds[d].fmt
                g == fds[p.fd].fmt
            IN  \A k \in DOMAIN f.vars :
                    g.name = Append(f.name, f.vars[k].name) /\ PlainBoth(f, f.vars[k]) =>
                        p.offset + g.vars[1].start = f.vars[k].start /\ g.vars[1].len = f.vars[k].len

\* Without a name for the output and without titles, data that both sides describe in
\* formats which are neither input nor output is converted, not copied: the marking
\* (db_format_list_mark_io) gives the two sides different encodings.
Neutral(d) == \E f \in Range(job.inputFormats) : f.name[1] = fds[d].fmt.name[1] /\ f.io = "none"
NotCopied ==
    job.outExt = "none" /\ job.inTitle = Nil /\ job.outTitle = Nil =>
        \A i \in DOMAIN conduits :
            LET c == conduits[i] IN
            c.in # Nil /\ c.out # Nil /\ Neutral(c.in.fd) /\ Neutral(c.out.fd) /\ fds[c.in.fd].fmt.io = "in" =>
                fds[c.in.fd].fmt.enc # fds[c.out.fd].fmt.enc

\* What db_init has in memory is counted and owned, to the end of db_destroy.
MemoryKept == UsageCounts /\ OwnedOnce

\* Every description is connected, to the bytes it is about, and to a different one.
ConduitsRight == EachConnected /\ ArraysPlaced /\ NotCopied
=============================================================================
