------------------------------ MODULE FileChecks -----------------------------
(* chkform, src/FFND/chkform.c: every field of a file's records is checked     *)
(* against its variable.  The file is read a cache full at a time, its header  *)
(* formats only when their turn comes; what has been read is checked at once.  *)
(* The data come from a file: chkform does not get through standard input.     *)
EXTENDS Integers, Sequences, SequencesExt, FiniteSets

CONSTANTS
    CheckJobs   \* [header, data, separate, caches]: the records of the header and of the data; whether
                \* the header has a file of its own; what a cache may hold
                \* a record is a sequence of fields, [kind, printable, number, fits, point, faulty]

CheckedFormats == {"header", "data"}
\* A field is faulty if it is not what its variable says
IsField(v) ==
    /\ {v.printable, v.number, v.fits, v.point, v.faulty} \subseteq BOOLEAN
    /\ v.faulty = ~(v.printable /\ (v.kind = "text" \/ (v.number /\ v.fits /\ (v.kind = "real" => v.point))))
IsCheckJob(j) ==
    /\ j.separate \in BOOLEAN /\ j.caches \subseteq Nat \ {0}
    /\ \A f \in CheckedFormats :
          /\ j[f] \in Seq(ToSet(j[f]))
          /\ \A r \in ToSet(j[f]) : r \in Seq(ToSet(r)) /\ \A v \in ToSet(r) : IsField(v)
ASSUME CheckJobsAssumption == \A j \in CheckJobs : IsCheckJob(j)

VARIABLES
    work,
    read,           \* how many data records have been read
    buffers,        \* the records in memory (PINFO_BUFFER)
    fresh,          \* the formats whose records have not been checked (PINFO_NEW_RECORD)
    lines,          \* line_count ("data") and sep_line_count ("header")
    wrong,          \* total_errors: where each was
    phase

checkVars == <<work, read, buffers, fresh, lines, wrong, phase>>

ChecksInit ==
    /\ work \in CheckJobs
    /\ read = 0 /\ phase = "read" /\ wrong = <<>>
    /\ buffers = [f \in CheckedFormats |-> <<>>] /\ fresh = {} /\ lines = [f \in CheckedFormats |-> 0]

-----------------------------------------------------------------------------

\* scan_for_nonprintable
Printable(v) == v.printable

\* A field of a record: the message, or {}
FieldErrors(v) ==
    IF ~Printable(v) THEN {"non-printable"}
    ELSE IF v.kind = "text" THEN {}
    ELSE IF ~v.number THEN {"number"}
    ELSE IF ~v.fits THEN {"range"}
    ELSE IF v.kind = "real" /\ ~v.point THEN {"decimal point"} ELSE {}

\* check_buffer: the messages about records that begin at a line
BufferErrors(f, records, line) ==
    FlattenSeq([r \in DOMAIN records |->
        FlattenSeq([v \in DOMAIN records[r] |->
            [k \in 1 .. Cardinality(FieldErrors(records[r][v])) |-> [format |-> f, line |-> line + r, field |-> v]]])])

\* db_do(DBDO_READ_FORMATS): the header comes with the first cache full; after the last one, EOF
ReadFormats ==
    /\ phase = "read"
    /\ LET left == Len(work.data) - read
       IN  \E n \in {IF c < left THEN c ELSE left : c \in work.caches} :
           /\ buffers' = [data |-> IF n = 0 THEN buffers["data"] ELSE SubSeq(work.data, read + 1, read + n),
                          header |-> IF read = 0 THEN work.header ELSE buffers["header"]]
           /\ fresh' = fresh \cup {f \in CheckedFormats : IF f = "data" THEN n > 0 ELSE read = 0 /\ work.header # <<>>}
           /\ read' = read + n
           /\ phase' = IF n = 0 THEN "last" ELSE "check"
    /\ UNCHANGED <<work, lines, wrong>>

\* The line count that a format's records go to
Count(f) == IF work.separate THEN f ELSE "data"
\* do_checks: first the header's records
StillFresh_All == fresh
StillFresh == {}
DoChecks ==
    /\ phase \in {"check", "last"}
    /\ LET size(f) == IF f \in fresh THEN Len(buffers[f]) ELSE 0
           before == lines[Count("data")] + IF Count("header") = "data" THEN size("header") ELSE 0
           Errors(f, line) == IF f \in fresh THEN BufferErrors(f, buffers[f], line) ELSE <<>>
       IN  /\ wrong' = wrong \o Errors("header", lines[Count("header")]) \o Errors("data", before)
           /\ lines' = [lines EXCEPT !["data"] = before + size("data"),
                                     !["header"] = @ + IF Count("header") = "data" THEN 0 ELSE size("header")]
    /\ fresh' = StillFresh
    /\ phase' = IF phase = "last" THEN "done" ELSE "read"
    /\ UNCHANGED <<work, read, buffers>>

ChecksNext == ReadFormats \/ DoChecks
ChecksSpec == ChecksInit /\ [][ChecksNext]_checkVars

-----------------------------------------------------------------------------

\* The line of a record in its file
LineOf(f, r) == r + IF work.separate \/ f = "header" THEN 0 ELSE Len(work.header)
\* Whatever the cache holds, chkform reports every field that cannot be read as what its variable says,
\* each once, with the number of the line in its file, and counts all lines (chkform, do_checks,
\* check_buffer)
ChecksRight ==
    phase = "done" =>
        /\ ToSet(wrong) =
             UNION {UNION {{[format |-> f, line |-> LineOf(f, r), field |-> v] :
                               v \in {u \in DOMAIN work[f][r] : work[f][r][u].faulty}} :
                           r \in DOMAIN work[f]} : f \in CheckedFormats}
        /\ IsInjective(wrong)
        /\ lines["data"] + lines["header"] = Len(work.header) + Len(work.data)
=============================================================================
