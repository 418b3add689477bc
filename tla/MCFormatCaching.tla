--------------------------- MODULE MCFormatCaching ---------------------------
(* Small conversions for FormatCaching: conduit 1 is a file header (or an     *)
(* array), conduit 2 a record header (or an array) and conduit 3 a table.     *)
EXTENDS FormatCaching, SequencesExt

FileHeaderLength == 1
RecHeaderLength == 2
DataLength == 1

Plain ==
    [kind |-> <<"fileHeader", "recHeader", "table">>,
     ends |-> Pinfo,
     recl |-> [p \in Pinfo |->
                 CASE p[2] = 1 -> FileHeaderLength
                   [] p[2] = 2 -> IF p[1] = "in" THEN RecHeaderLength ELSE 1
                   [] p[2] = 3 -> IF p[1] = "in" THEN DataLength ELSE 2],
     start |-> [p \in Pinfo |-> 0],
     size |-> <<1, 1, 0>>,
     cache |-> <<1, 1, 1>>,
     eof |-> [c \in Conduit |-> 0],
     counting |-> "header", count |-> [o \in 0 .. MaxOffset |-> 1],
     tableCount |-> 0,
     sepIn |-> FALSE, sepOut |-> FALSE, toFile |-> TRUE,
     query |-> FALSE, keep |-> {}, unset |-> {}, undefined |-> {}, bad |-> [c \in Conduit |-> {}],
     wanted |-> [c \in Conduit |-> {}]]

\* The lengths of the headers that the ends of one side have in front of the data
HeaderLength(j, side, c) == IF <<side, c>> \in j.ends THEN j.recl[<<side, c>>] ELSE 0

\* Offsets as update_following_offsets_or_size leaves them
Starts(j) ==
    LET shift(side, c) == IF (IF side = "in" THEN j.sepIn ELSE j.sepOut) /\ j.kind[3] = "table"
                          THEN (IF c = 2 THEN HeaderLength(j, side, 1) ELSE 0)
                          ELSE IF c = 1 THEN 0
                          ELSE HeaderLength(j, side, 1) +
                               (IF c = 3 THEN HeaderLength(j, side, 2) ELSE 0)
    IN  [p \in Pinfo |-> shift(p[1], p[2])]

\* An input of data blocks of the given lengths, each after its record header
Blocks(b, sepIn) ==
    LET head[k \in 1 .. Len(b) + 1] ==
            IF k = 1 THEN FileHeaderLength
            ELSE head[k - 1] + RecHeaderLength +
                   (IF sepIn THEN 0 ELSE b[k - 1] * DataLength)
        data[k \in 1 .. Len(b)] ==
            IF ~sepIn THEN head[k] + RecHeaderLength
            ELSE IF k = 1 THEN 0 ELSE data[k - 1] + b[k - 1] * DataLength
        last == data[Len(b)] + b[Len(b)] * DataLength
    IN  [Plain EXCEPT
          !.sepIn = sepIn,
          !.eof = IF sepIn THEN <<head[Len(b) + 1], head[Len(b) + 1], last>>
                  ELSE <<last, last, last>>,
          !.count = [o \in 0 .. MaxOffset |->
                       IF \E k \in 1 .. Len(b) : head[k] = o
                       THEN b[CHOOSE k \in 1 .. Len(b) : head[k] = o] ELSE 1],
          !.wanted = <<{0}, {head[k] : k \in 1 .. Len(b)},
                       UNION {{data[k] + i * DataLength : i \in 0 .. b[k] - 1} :
                                k \in 1 .. Len(b)}>>]

WithStarts(S) == {[j EXCEPT !.start = Starts(j)] : j \in S}
WithCaches(S, n) == {[j EXCEPT !.cache = <<1, 1, k>>] : j \in S, k \in 1 .. n}
WithOutputs(S) == {[j EXCEPT !.sepOut = o[1], !.toFile = o[2]] : j \in S,
                     o \in {<<FALSE, TRUE>>, <<TRUE, TRUE>>, <<FALSE, FALSE>>}}

Lengths(n, S) == UNION {[1 .. k -> S] : k \in 1 .. n}

\* Headers embedded in the data, of one to three blocks
EmbeddedJobs == WithStarts(WithOutputs(WithCaches(
    {Blocks(b, FALSE) : b \in Lengths(3, 1 .. 2)} \cup {Blocks(<<3>>, FALSE)}, 2)))

\* Empty blocks; an output file with embedded headers can only have them last
EmptyBlockJobs == WithStarts(
    {[j EXCEPT !.sepOut = TRUE] : j \in {Blocks(<<1, 0, 2>>, FALSE)}} \cup
    {[j EXCEPT !.toFile = FALSE] : j \in {Blocks(<<1, 0, 2>>, FALSE)}} \cup
    WithOutputs({Blocks(<<2, 0>>, FALSE)}))

\* Record headers that the output does without
HeaderlessJobs == WithStarts(
    {[j EXCEPT !.ends = @ \ {Out(2)}, !.toFile = FALSE] : j \in {Blocks(<<2, 1>>, FALSE)}})

\* Headers in a file of their own, for a single block
SeparateJobs == WithStarts(WithOutputs(WithCaches(
    {Blocks(<<n>>, TRUE) : n \in 1 .. 3}, 2)))

\* Inputs that end early or lie: a stray byte, a block cut short, a count that
\* is negative, no count at all, and a count told by the name table
DamagedJobs == WithStarts(
    LET j == Blocks(<<2, 2>>, FALSE) IN
    {[j EXCEPT !.eof = [c \in Conduit |-> @[c] + 1]],
     [j EXCEPT !.eof = [c \in Conduit |-> @[c] - 1]],
     [j EXCEPT !.eof = [c \in Conduit |-> 0]],
     [j EXCEPT !.count = [o \in 0 .. MaxOffset |-> IF o = 1 THEN 2 ELSE -1]],
     [j EXCEPT !.counting = "none"],
     [j EXCEPT !.counting = "table", !.tableCount = 2]})

\* No record headers: the table's size is known from the file, which starts
\* with a header unless In(1) is missing; there may be a stray byte at its end
Table(n, stray, missing) ==
    LET lead == IF In(1) \in missing THEN 0 ELSE FileHeaderLength IN
    [Plain EXCEPT
        !.recl[In(3)] = 2,
        !.ends = Pinfo \ ({In(2), Out(2)} \cup missing),
        !.size = <<1, 0, n>>,
        !.eof = [c \in Conduit |-> lead + 2 * n + stray],
        !.wanted = <<{0}, {}, {lead + 2 * i : i \in 0 .. n - 1}>>]
Tables == {Table(n, stray, {}) : n \in 0 .. 4, stray \in 0 .. 1}
TableJobs == WithStarts(WithOutputs(WithCaches(
                {Table(n, 0, e) : n \in 1 .. 4, e \in {{}, {Out(1)}}} \cup Tables, 3)))
TemplateJobs == WithStarts(WithCaches({Table(n, 0, {In(1)}) : n \in 1 .. 3}, 2))

\* ... a record that does not convert
BadJobs == WithStarts(WithCaches({[j EXCEPT !.bad[3] = {o}] : j \in Tables \ {Table(0, 0, {}), Table(0, 1, {})}, o \in {1, 5}}, 3))

\* ... a query, true of any set of records but the empty one
QueryJobs == WithStarts(WithCaches(UNION
    {{[j EXCEPT !.query = TRUE, !.keep = k, !.wanted[3] = k] :
        k \in SUBSET j.wanted[3] \ {{}}} : j \in {Table(n, 0, {}) : n \in 1 .. 4}}, 2))

\* ... that fails on a record: its values cannot be set, or the query has no value
\* on it, and then one in the same cache was kept before
FailingQueryJobs == {j \in WithStarts(WithCaches(
    LET t == Table(3, 0, {})
        all == t.wanted[3]
        q == {[t EXCEPT !.query = TRUE, !.keep = k, !.wanted[3] = k] : k \in SUBSET all \ {{}}}
    IN  UNION {{[j EXCEPT !.unset = {o}], [j EXCEPT !.undefined = {o}]} : j \in q, o \in all}, 3)) :
    j.keep \cap j.undefined = {} /\ FailureTold(j)}

\* Two arrays, one behind the other in the input and in the output file; eof is
\* short of the second one in some
Arrays(m, n) ==
    [Plain EXCEPT
        !.kind = <<"array", "array", "table">>,
        !.ends = Pinfo \ {In(3), Out(3)},
        !.recl = [p \in Pinfo |-> IF p[1] = "in" THEN 1 ELSE 2],
        !.start = [p \in Pinfo |-> IF p = In(2) THEN m ELSE IF p = Out(2) THEN 2 * m ELSE 0],
        !.size = <<m, n, 0>>,
        !.eof = [c \in Conduit |-> m + n],
        !.wanted = <<0 .. m - 1, m .. m + n - 1, {}>>]
ArrayJobs ==
    {[Arrays(m, n) EXCEPT !.cache = <<k, l, 1>>, !.eof = [c \in Conduit |-> @[c] - cut]] :
        m \in 1 .. 3, n \in 1 .. 2, k \in 1 .. 2, l \in 1 .. 2, cut \in 0 .. 1}

MCJobs == EmbeddedJobs \cup HeaderlessJobs \cup EmptyBlockJobs \cup SeparateJobs \cup DamagedJobs
            \cup TableJobs \cup TemplateJobs \cup BadJobs \cup QueryJobs
            \cup FailingQueryJobs \cup ArrayJobs

\* What FormatCaching_proofs proves of plain conversions is about these
ASSUME PlainJobsAssumption ==
    \A j \in {k \in TableJobs : k.toFile} \cup TemplateJobs \cup BadJobs
               \cup QueryJobs \cup FailingQueryJobs \cup ArrayJobs : PlainJob(j)
-----------------------------------------------------------------------------
(* Conversions on which the code and what it says of itself part ways         *)

\* Two blocks whose headers are in a file of their own
SeparateBlocksJobs == WithStarts({Blocks(<<1, 1, 1>>, TRUE)})

=============================================================================
