---------------------------- MODULE FormatCaching ----------------------------
(* How newform moves data: the caches of src/FFND/dbevents.c, driven by the   *)
(* header reads of db_init (setdbin.c) and by the main loop of newform()      *)
(* (ff_utils.c).                                                              *)
(*                                                                            *)
(* A data bin holds a list of conduits, each with an input and an output end  *)
(* (a PROCESS_INFO, "pinfo").  An input end reads its file into a cache       *)
(* (read_formats), the cache is converted into the output end's cache         *)
(* (convert_formats), and that one is written (write_formats).  The flags     *)
(* new_record, locked and array_done and the byte counts of the two ends are  *)
(* what keeps the three passes in step; the end of a data block is told by a  *)
(* record header read from the same or from another file.                     *)
(*                                                                            *)
(* A record is known by its offset in its input file; a cache is the set of   *)
(* the records in it (their order is file order), so that bytes_used is       *)
(* Cardinality(buffer) * recl.  Byte counts of whole records are counted in   *)
(* records.                                                                   *)
EXTENDS Integers, FiniteSets

CONSTANTS
    Jobs,          \* the conversions newform is asked for: see JobSpace
    NumConduits,   \* length of dbin->array_conduit_list
    MaxOffset      \* bound: no input file is longer than this many bytes

Conduit == 1 .. NumConduits
Pinfo == {"in", "out"} \X Conduit
In(c) == <<"in", c>>
Out(c) == <<"out", c>>

Kinds == {"fileHeader", "recHeader", "table", "array"}

\* What db_init finds out about a conversion before the first byte is read.
JobSpace ==
    [kind     : [Conduit -> Kinds],
     ends     : SUBSET Pinfo,             \* the ends that exist
     recl     : [Pinfo -> Nat \ {0}],     \* bytes in a record
     start    : [Pinfo -> Nat],           \* offset of the first record
     size     : [Conduit -> Nat],         \* records mapped by set_array_mappings
     cache    : [Conduit -> Nat \ {0}],   \* records that fit in the input cache
     eof      : [Conduit -> 0 .. MaxOffset],  \* length of the input file
     counting : {"header", "table", "none"},  \* who tells the record count
     count    : [0 .. MaxOffset -> Int],  \* "count" of a header at an offset
     tableCount : Int,                    \* "record_count" of the name table
     sepIn    : BOOLEAN,                  \* headers in a file of their own
     sepOut   : BOOLEAN,
     toFile   : BOOLEAN,                  \* -o file, or standard output
     query    : BOOLEAN,
     keep     : SUBSET (0 .. MaxOffset),  \* records the query is true of
     unset    : SUBSET (0 .. MaxOffset),  \* its variables cannot be set from them
     undefined : SUBSET (0 .. MaxOffset), \* it has no value on them (1/0, log 0)
     bad      : [Conduit -> SUBSET (0 .. MaxOffset)],  \* fail to convert
     wanted   : [Conduit -> SUBSET (0 .. MaxOffset)]]  \* what should come out

ASSUME NumConduitsAssumption == NumConduits \in Nat \ {0}
ASSUME MaxOffsetAssumption == MaxOffset \in Nat
ASSUME JobsAssumption == Jobs \subseteq JobSpace

Errors == {"none", "EOF", "ERR_GENERAL", "ERR_READ_FILE", "ERR_PARAM_VALUE",
           "ERR_GEN_QUERY", "ERR_CONVERT", "ERR_WRITE_FILE"}

VARIABLES
    job,          \* the conversion under way
    stage,        \* db_init reads headers, then everything, before newform loops
    pc,           \* the pass under way
    at,           \* position in the pass's list of conduits
    newRecord,    \* PINFO_NEW_RECORD: the cache holds unprocessed records
    locked,       \* PINFO_LOCKED
    arrayDone,    \* PINFO_ARRAY_DONE: the mapping is used up
    left,         \* PINFO_BYTES_LEFT
    mapped,       \* PINFO_SUB_ARRAY_BYTES, 0 before the first mapping
    offset,       \* PINFO_CURRENT_ARRAY_OFFSET
    buffer,       \* the records of PINFO_BUFFER
    disk,         \* records written: [file, pos, conduit, rec]
    doneReading,  \* done_processing
    error

control == <<job, stage, pc, at, doneReading, error>>
mapping == <<left, mapped, offset>>
vars == <<control, mapping, newRecord, locked, arrayDone, buffer, disk>>

-----------------------------------------------------------------------------
(* Helpers *)

Lesser(a, b) == IF a < b THEN a ELSE b

\* fd_get_header: the record header conduit of one side, if there is one
RecHeader(side) ==
    {c \in Conduit : <<side, c>> \in job.ends /\ job.kind[c] = "recHeader"}
HeaderOf(side) == CHOOSE c \in RecHeader(side) : TRUE   \* there is one at most
InputData ==
    {c \in Conduit : In(c) \in job.ends /\ job.kind[c] \in {"table", "array"}}
FirstData == CHOOSE c \in InputData : \A d \in InputData : c <= d

\* The inputs that DBASK_PROCESS_INFO lists for the format type of the stage
Listed(c) ==
    /\ In(c) \in job.ends
    /\ stage = "fileHeaders" => job.kind[c] = "fileHeader"
    /\ stage = "recHeaders" => job.kind[c] = "recHeader"

\* nt_ask "count", then "record_count": the answer, or nothing.  The record
\* header's buffer is consulted only when it holds a header.
RecordCount ==
    IF job.counting = "table" THEN {job.tableCount}
    ELSE IF job.counting = "header" /\ RecHeader("in") # {}
    THEN {job.count[o] : o \in buffer[In(HeaderOf("in"))]}
    ELSE {}

\* check_for_array_EOF, consulted only without record headers
ArrayEOF_AtFirstEnd ==
    /\ RecHeader("in") \cup RecHeader("out") = {}
    /\ \E c \in Conduit :
         Listed(c) /\ arrayDone[In(c)] /\ job.kind[c] # "table"
ArrayEOF ==
    /\ RecHeader("in") \cup RecHeader("out") = {}
    /\ \A c \in Conduit :
         Listed(c) => arrayDone[In(c)] /\ job.kind[c] # "table"

\* The mapping state of a pinfo, as one record: bytes left, mapped and offset
CurrentMap == [left |-> left, mapped |-> mapped, offset |-> offset]
SetMap(m) == left' = m.left /\ mapped' = m.mapped /\ offset' = m.offset

\* make_tabular_format_array_mapping(pinfo, n, 1, n) for an input and its mate
Remap(c, n, newOffset) ==
    LET remapped(f) == [p \in Pinfo |->
                          IF p \in {In(c), Out(c)} \cap job.ends THEN n ELSE f[p]]
    IN  [left |-> remapped(left), mapped |-> remapped(mapped),
         offset |-> newOffset]

\* Where mapping m stands in the file of p, counted i records ahead
Position(p, m, i) == m.offset[p] + (m.mapped[p] - m.left[p] + i) * job.recl[p]
Chunk(p, m, n) ==
    {o \in 0 .. MaxOffset : \E i \in 0 .. n - 1 : o = Position(p, m, i)}

\* ff_unlock__: a size of 0 marks the buffer as empty
Unlock_Forgotten(p, filled) ==
    UNCHANGED locked /\ newRecord' = [newRecord EXCEPT ![p] = filled]
Unlock(p, filled) ==
    /\ locked' = [locked EXCEPT ![p] = FALSE]
    /\ newRecord' = [newRecord EXCEPT ![p] = filled]

Goto(next) == pc' = next /\ at' = 1
Advance(next) ==
    /\ pc' = next /\ at' = at + 1
    /\ UNCHANGED <<job, stage, doneReading, error>>
Return(e) ==
    /\ error' = e /\ pc' = "return"
    /\ UNCHANGED <<job, stage, at, doneReading>>

-----------------------------------------------------------------------------
(* read_formats *)

Reading == pc = "read" /\ at \in Conduit
Filling == pc = "fill" /\ at \in Conduit

PassedOver_IgnoringNewRecord == ~Listed(at)
PassedOver == ~Listed(at) \/ newRecord[In(at)]

SkipFormat ==
    /\ Reading /\ PassedOver
    /\ Advance("read")
    /\ UNCHANGED <<mapping, newRecord, locked, arrayDone, buffer, disk>>

LockFormat ==
    /\ Reading
    /\ ~PassedOver
    /\ locked' = [locked EXCEPT ![In(at)] = TRUE]
    /\ pc' = "fill"
    /\ UNCHANGED <<job, stage, at, doneReading, error, mapping, newRecord,
                   arrayDone, buffer, disk>>

\* The list is at its end
FinishReading ==
    /\ pc = "read" /\ at = NumConduits + 1
    /\ Return(IF ArrayEOF THEN "EOF" ELSE "none")
    /\ UNCHANGED <<mapping, newRecord, locked, arrayDone, buffer, disk>>

\* Unlock with nothing read, and go on with the next format
PassBy ==
    /\ Unlock(In(at), FALSE)
    /\ Advance("read")
    /\ UNCHANGED <<mapping, arrayDone, buffer, disk>>

\* Unlock with nothing read, and leave read_formats
Fail(e) == Unlock(In(at), FALSE) /\ Return(e) /\ UNCHANGED <<buffer, disk>>

FillFileHeader ==
    LET p == In(at) IN
    /\ Filling /\ job.kind[at] = "fileHeader"
    /\ \/ arrayDone[p] /\ PassBy
       \/ /\ ~arrayDone[p]
          /\ Position(p, CurrentMap, 1) > job.eof[at]
          /\ Fail("ERR_READ_FILE")
          /\ UNCHANGED <<mapping, arrayDone>>
       \/ /\ ~arrayDone[p]
          /\ Position(p, CurrentMap, 1) <= job.eof[at]
          /\ buffer' = [buffer EXCEPT ![p] = Chunk(p, CurrentMap, 1)]
          /\ left' = [left EXCEPT ![p] = 0]
          /\ arrayDone' = [arrayDone EXCEPT ![p] = TRUE]
          /\ Unlock(p, TRUE) /\ Advance("read")
          /\ UNCHANGED <<mapped, offset, disk>>

\* need_to_read_next_record_header: after an empty data block the embedded
\* header's offset is moved past the header
EmptyBlock == 0 \in RecordCount
NeedRecordHeader == EmptyBlock \/ arrayDone[In(FirstData)]

HeaderMap ==
    LET h == In(at) IN
    Remap(at, 1, IF EmptyBlock /\ ~job.sepIn
                 THEN [offset EXCEPT ![h] = @ + job.recl[h]] ELSE offset)

FillRecordHeader ==
    LET h == In(at)
        whole == Position(h, HeaderMap, 1) <= job.eof[at]
        mate == {Out(at)} \cap job.ends
        skip == IF whole /\ job.sepIn THEN job.recl[h] ELSE 0
    IN
    /\ Filling /\ job.kind[at] = "recHeader" /\ NeedRecordHeader
    /\ mapped' = HeaderMap.mapped
    /\ left' = [p \in Pinfo |-> IF p = h \/ (p \in mate /\ ~whole) THEN 0
                                ELSE HeaderMap.left[p]]
    /\ offset' = [HeaderMap.offset EXCEPT ![h] = @ + skip]
    /\ arrayDone' = [p \in Pinfo |-> IF p \in mate THEN FALSE
                                     ELSE IF p = h THEN whole ELSE arrayDone[p]]
    /\ \/ whole /\ buffer' = [buffer EXCEPT ![h] = Chunk(h, HeaderMap, 1)]
                /\ Unlock(h, TRUE) /\ Advance("read") /\ UNCHANGED disk
       \/ ~whole /\ Fail("EOF")

WaitForData ==
    /\ Filling /\ job.kind[at] = "recHeader" /\ ~NeedRecordHeader
    /\ PassBy

\* The data format's block is used up: what the record header says of the next
EndOfData ==
    /\ Filling /\ at \in InputData /\ arrayDone[In(at)]
    /\ UNCHANGED <<mapping, arrayDone>>
    /\ \/ job.kind[at] = "array" /\ PassBy
       \/ job.kind[at] = "table" /\ RecHeader("in") = {} /\ Fail("EOF")
       \/ job.kind[at] = "table" /\ RecHeader("in") # {} /\
            \/ RecordCount = {} /\ Fail("ERR_GENERAL")
            \/ (\E n \in RecordCount : n < 0) /\ Fail("ERR_PARAM_VALUE")
            \/ 0 \in RecordCount /\ PassBy

\* The mapping of the next block of n records, and the offsets of data and
\* header: found from each other if the header is embedded in the data
NextBlock_FromHeader(n) ==
    LET h == In(HeaderOf("in")) IN
    Remap(at, n, [offset EXCEPT ![In(at)] = offset[h],
                                ![h] = @ + job.recl[h] + n * job.recl[In(at)]])
NextBlock(n) ==
    LET d == In(at)
        h == In(HeaderOf("in"))
    IN  Remap(at, n,
          IF job.sepIn
          THEN [offset EXCEPT ![d] = @ + mapped[d] * job.recl[d],
                              ![h] = @ + job.recl[h]]
          ELSE [offset EXCEPT ![d] = offset[h] + job.recl[h],
                              ![h] = @ + job.recl[h] + n * job.recl[d]])

DataMaps_AnyCount ==
    IF ~arrayDone[In(at)] THEN {CurrentMap}
    ELSE IF job.kind[at] = "array" \/ RecHeader("in") = {} THEN {}
    ELSE {NextBlock(n) : n \in RecordCount \ {0}}
DataMaps ==
    IF ~arrayDone[In(at)] THEN {CurrentMap}
    ELSE IF job.kind[at] = "array" \/ RecHeader("in") = {} THEN {}
    ELSE {NextBlock(n) : n \in {k \in RecordCount : k > 0}}

\* dbdo_filter_on_query, on the records S of a cache: it moves the ones to keep
\* to the front, up to the first record on which it fails
Stops(S) == S \cap (job.unset \cup job.undefined)
Kept(S) == {r \in S \cap job.keep : \A u \in Stops(S) : r < u}
FailsToSet(S) == \E u \in S \cap job.unset : \A v \in Stops(S) : u <= v
\* ... a return before bytes_used is set: behind the records kept is what was there
HalfMoved(S) ==
    Kept(S) \cup {r \in S : Cardinality({s \in S : s < r}) >= Cardinality(Kept(S))}

\* Without a record to keep it returns EOF, whatever else there was to say
FilterError(S) ==
    IF FailsToSet(S) THEN "ERR_GEN_QUERY"
    ELSE IF Kept(S) = {} THEN "EOF"
    ELSE IF Stops(S) # {} THEN "ERR_GEN_QUERY" ELSE "none"

\* It is always the cache of the first input data format that is filtered
Filtered(b) ==
    LET f == In(FirstData) IN
    IF job.query THEN [b EXCEPT ![f] = IF FailsToSet(@) THEN HalfMoved(@) ELSE Kept(@)]
    ELSE b

FillData ==
    LET p == In(at)
        first == In(FirstData)
    IN
    /\ Filling /\ at \in InputData
    /\ \E m \in DataMaps :
         LET n == Lesser(m.left[p], job.cache[at])
             filled == [buffer EXCEPT ![p] = Chunk(p, m, n)]
             mate == {Out(at)} \cap job.ends
             done(b) == [q \in Pinfo |-> IF q = p THEN b
                           ELSE IF q \in mate /\ arrayDone[p] THEN FALSE
                           ELSE arrayDone[q]]
             result == IF job.query THEN FilterError(filled[first]) ELSE "none"
             taken == [newRecord EXCEPT ![p] = TRUE]
         IN \/ /\ n <= 0 \/ Position(p, m, n) > job.eof[at]
               /\ SetMap(m) /\ arrayDone' = done(FALSE)
               /\ Fail("ERR_READ_FILE")
            \/ /\ n > 0 /\ Position(p, m, n) <= job.eof[at]
               /\ SetMap([m EXCEPT !.left[p] = @ - n])
               /\ arrayDone' = done(m.left[p] = n)
               /\ buffer' = Filtered(filled)
               /\ locked' = [locked EXCEPT ![p] = FALSE]
               /\ newRecord' = IF result = "EOF" THEN [taken EXCEPT ![first] = FALSE] ELSE taken
               /\ \/ result = "none" /\ Advance("read")
                  \/ result = "EOF" /\ pc' = "read"
                       /\ UNCHANGED <<job, stage, at, doneReading, error>>
                  \/ result = "ERR_GEN_QUERY" /\ Return(result)
               /\ UNCHANGED disk

-----------------------------------------------------------------------------
(* The callers of read_formats *)

\* dbset_headers: the file headers have been read
HeadersRead ==
    /\ pc = "return" /\ stage = "fileHeaders" /\ error \in {"none", "EOF"}
    /\ stage' = "recHeaders" /\ error' = "none" /\ Goto("read")
    /\ arrayDone' = [p \in Pinfo |->
          arrayDone[p] \/ (RecHeader("in") # {} /\ p \in job.ends
                                                /\ p[2] = FirstData)]
    /\ UNCHANGED <<job, doneReading, mapping, newRecord, locked, buffer, disk>>

\* dbset_headers: the first record header has been read
RecordHeaderRead ==
    /\ pc = "return" /\ stage = "recHeaders" /\ error \in {"none", "EOF"}
    /\ stage' = "formatMappings" /\ error' = "none" /\ Goto("read")
    /\ UNCHANGED <<job, doneReading, mapping, newRecord, locked, arrayDone,
                   buffer, disk>>

\* dbset_format_mappings: every input of a conduit must hold data by now
CreateMappings ==
    LET empty == {c \in Conduit : {In(c), Out(c)} \subseteq job.ends
                                    /\ ~newRecord[In(c)]}
    IN
    /\ pc = "return" /\ stage = "formatMappings" /\ error \in {"none", "EOF"}
    /\ IF empty = {}
       THEN stage' = "process" /\ error' = "none" /\ Goto("read")
       ELSE /\ error' = "ERR_GEN_QUERY" /\ pc' = "done"
            /\ UNCHANGED <<stage, at>>
    /\ UNCHANGED <<job, doneReading, mapping, newRecord, locked, arrayDone,
                   buffer, disk>>

\* dbdo_process_formats: EOF and ERR_GENERAL end the reading, not the round
Processing_AnyError ==
    /\ pc = "return" /\ stage = "process"
    /\ doneReading' = (error # "none")
    /\ error' = "none" /\ Goto("convert")
    /\ UNCHANGED <<job, stage, mapping, newRecord, locked, arrayDone, buffer,
                   disk>>
Processing_IgnoringEOF ==
    /\ pc = "return" /\ stage = "process"
    /\ error \in {"none", "EOF", "ERR_GENERAL"}
    /\ doneReading' = (error = "ERR_GENERAL")
    /\ error' = "none" /\ Goto("convert")
    /\ UNCHANGED <<job, stage, mapping, newRecord, locked, arrayDone, buffer,
                   disk>>
Processing ==
    /\ pc = "return" /\ stage = "process"
    /\ error \in {"none", "EOF", "ERR_GENERAL"}
    /\ doneReading' = (error # "none")
    /\ error' = "none" /\ Goto("convert")
    /\ UNCHANGED <<job, stage, mapping, newRecord, locked, arrayDone, buffer,
                   disk>>

\* Any other error ends db_init, or the loop of newform
GiveUp ==
    /\ pc = "return"
    /\ error \notin {"none", "EOF"}
         /\ ~(stage = "process" /\ error = "ERR_GENERAL")
    /\ pc' = "done"
    /\ UNCHANGED <<job, stage, at, doneReading, error, mapping, newRecord,
                   locked, arrayDone, buffer, disk>>

-----------------------------------------------------------------------------
(* convert_formats *)

Converting == pc = "convert" /\ at \in Conduit
HasMate == {In(at), Out(at)} \subseteq job.ends
Convertible == HasMate /\ newRecord[In(at)] /\ ~newRecord[Out(at)]
Templated_EveryRound ==
    Out(at) \in job.ends /\ In(at) \notin job.ends /\ ~newRecord[Out(at)]
Templated ==
    /\ Out(at) \in job.ends /\ In(at) \notin job.ends
    /\ ~newRecord[Out(at)]
    /\ ~(job.kind[at] = "fileHeader" /\ arrayDone[Out(at)])

SkipConversion ==
    /\ Converting /\ ~Convertible /\ ~Templated
    /\ Advance("convert")
    /\ UNCHANGED <<mapping, newRecord, locked, arrayDone, buffer, disk>>

Convert ==
    /\ Converting /\ Convertible
    /\ buffer[In(at)] \cap job.bad[at] = {}
    /\ buffer' = [buffer EXCEPT ![Out(at)] = buffer[In(at)]]
    /\ newRecord' = [newRecord EXCEPT ![Out(at)] = TRUE, ![In(at)] = FALSE]
    /\ Advance("convert")
    /\ UNCHANGED <<mapping, locked, arrayDone, disk>>

\* The records before the bad one are in the output's buffer, but nothing
\* says so: new_record stays clear, and newform does not write them
ConvertFails ==
    LET bad == buffer[In(at)] \cap job.bad[at] IN
    /\ Converting /\ Convertible /\ bad # {}
    /\ buffer' = [buffer EXCEPT ![Out(at)] =
                    {r \in buffer[In(at)] : \A b \in bad : r < b}]
    /\ error' = "ERR_CONVERT" /\ pc' = "done"
    /\ UNCHANGED <<job, stage, at, doneReading, mapping, newRecord, locked,
                   arrayDone, disk>>

\* An output without an input: its initial values, once for each record
FillTemplate ==
    /\ Converting /\ Templated
    /\ buffer' = [buffer EXCEPT ![Out(at)] =
                    {i \in 0 .. MaxOffset : i < mapped[Out(at)]}]
    /\ newRecord' = [newRecord EXCEPT ![Out(at)] = TRUE]
    /\ Advance("convert")
    /\ UNCHANGED <<mapping, locked, arrayDone, disk>>

\* Inputs nobody converts are released for the next round
EndConversion ==
    /\ pc = "convert" /\ at = NumConduits + 1
    /\ newRecord' = [p \in Pinfo |-> newRecord[p] /\
                       ~(p \in job.ends /\ p[1] = "in" /\ Out(p[2]) \notin job.ends)]
    /\ Goto("write")
    /\ UNCHANGED <<job, stage, doneReading, error, mapping, locked, arrayDone,
                   buffer, disk>>

-----------------------------------------------------------------------------
(* write_formats *)

FileOf(c) == IF job.sepOut /\ job.kind[c] \in {"fileHeader", "recHeader"}
             THEN "header" ELSE "data"
IsFile(c) == job.toFile \/ FileOf(c) = "header"

Overlaps(v, w) ==
    /\ v.file = w.file
    /\ v.pos < w.pos + job.recl[Out(w.conduit)]
    /\ w.pos < v.pos + job.recl[Out(v.conduit)]

\* The end of standard output
EndOfFile ==
    LET ends == {w.pos + job.recl[Out(w.conduit)] : w \in {v \in disk : v.file = "data"}}
    IN  CHOOSE e \in {0} \cup ends : \A f \in ends : f <= e

\* What putting the records S of the output's cache leaves in the files
Written(S) ==
    LET p == Out(at)
        base == IF IsFile(at) THEN Position(p, CurrentMap, 0) ELSE EndOfFile
        new == {[file |-> FileOf(at),
                 pos |-> base + Cardinality({s \in buffer[p] : s < r}) * job.recl[p],
                 conduit |-> at, rec |-> r] : r \in S}
    IN  new \cup {w \in disk : \A v \in new : ~Overlaps(v, w)}

Idle_ByInput(c) ==
    \/ Out(c) \notin job.ends \/ ~newRecord[In(c)]
    \/ job.kind[c] = "array" /\ arrayDone[Out(c)]
Idle(c) ==
    \/ Out(c) \notin job.ends \/ ~newRecord[Out(c)]
    \/ job.kind[c] = "array" /\ arrayDone[Out(c)]

SkipWrite ==
    /\ pc = "write" /\ at \in Conduit /\ Idle(at)
    /\ Advance("write")
    /\ UNCHANGED <<mapping, newRecord, locked, arrayDone, buffer, disk>>

LockOutput ==
    /\ pc = "write" /\ at \in Conduit
    /\ ~Idle(at)
    /\ locked' = [locked EXCEPT ![Out(at)] = TRUE]
    /\ pc' = "put"
    /\ UNCHANGED <<job, stage, at, doneReading, error, mapping, newRecord,
                   arrayDone, buffer, disk>>

\* After a block of data the output offsets move past it, and past the record
\* header that will be in front of the next one
NextOutput_SamePlace(done) ==
    IF job.kind[at] = "recHeader"
    THEN [offset EXCEPT ![Out(at)] = @ + job.recl[Out(at)]] ELSE offset
NextOutput_TwoHeaders(done) ==
    IF job.kind[at] = "recHeader"
    THEN [offset EXCEPT ![Out(at)] = @ + 2 * job.recl[Out(at)]] ELSE offset
NextOutput(done) ==
    LET p == Out(at)
        h == Out(HeaderOf("out"))
        block == mapped[p] * job.recl[p]
    IN  IF job.kind[at] = "recHeader" THEN [offset EXCEPT ![p] = @ + job.recl[p]]
        ELSE IF ~(job.kind[at] = "table" /\ done /\ RecHeader("out") # {}) THEN offset
        ELSE IF job.sepOut THEN [offset EXCEPT ![p] = @ + block]
        ELSE [offset EXCEPT ![h] = @ + block,
                            ![p] = offset[h] + block + job.recl[h]]

AfterPut_Uncounted(n) == left
AfterPut(n) == [left EXCEPT ![Out(at)] = @ - n]

Put ==
    LET p == Out(at)
        n == Cardinality(buffer[p])
        done == IF IsFile(at) THEN left[p] = n ELSE arrayDone[p]
    IN
    /\ pc = "put"
    /\ disk' = Written(buffer[p])
    /\ left' = AfterPut(n)
    /\ arrayDone' = [arrayDone EXCEPT ![p] = done]
    /\ offset' = NextOutput(done)
    /\ Unlock(p, FALSE) /\ Advance("write")
    /\ UNCHANGED <<mapped, buffer>>

\* bytes_written is -1 or short: the records before the failure are out, and
\* bytes_left is reduced as if all of them were
PutFails ==
    LET p == Out(at)
        n == Cardinality(buffer[p])
    IN
    /\ pc = "put"
    /\ \E r \in buffer[p] : disk' = Written({s \in buffer[p] : s < r})
    /\ left' = AfterPut(n)
    /\ arrayDone' = [arrayDone EXCEPT ![p] = IF IsFile(at) THEN FALSE ELSE @]
    /\ offset' = NextOutput(FALSE)
    /\ Unlock(p, FALSE)
    /\ error' = "ERR_WRITE_FILE" /\ pc' = "done"
    /\ UNCHANGED <<job, stage, at, doneReading, mapped, buffer>>

\* The loop of newform goes round until the reading is done
EndWrite ==
    /\ pc = "write" /\ at = NumConduits + 1
    /\ IF doneReading THEN pc' = "done" /\ UNCHANGED at ELSE Goto("read")
    /\ UNCHANGED <<job, stage, doneReading, error, mapping, newRecord, locked,
                   arrayDone, buffer, disk>>

-----------------------------------------------------------------------------
(* The specification *)

Init ==
    /\ job \in Jobs
    /\ stage = "fileHeaders" /\ pc = "read" /\ at = 1
    /\ doneReading = FALSE /\ error = "none"
    /\ newRecord = [p \in Pinfo |-> FALSE]
    /\ locked = [p \in Pinfo |-> FALSE]
    /\ arrayDone = [p \in Pinfo |-> FALSE]
    /\ mapped = [p \in Pinfo |-> IF p \in job.ends THEN job.size[p[2]] ELSE 0]
    /\ left = mapped
    /\ offset = job.start
    /\ buffer = [p \in Pinfo |-> {}]
    /\ disk = {}

Finished == pc = "done" /\ UNCHANGED vars

Read ==
    \/ SkipFormat \/ LockFormat \/ FinishReading
    \/ FillFileHeader \/ FillRecordHeader \/ WaitForData
    \/ EndOfData \/ FillData
EndRead ==
    \/ HeadersRead \/ RecordHeaderRead \/ CreateMappings \/ Processing \/ GiveUp
ConvertFormats ==
    \/ SkipConversion \/ Convert \/ ConvertFails \/ FillTemplate \/ EndConversion
WriteFormats == SkipWrite \/ LockOutput \/ Put \/ PutFails \/ EndWrite

Next == Read \/ EndRead \/ ConvertFormats \/ WriteFormats \/ Finished

\* One thread runs the program from start to end: it never stops by itself
Spec == Init /\ [][Next]_vars /\ WF_vars(Next)

-----------------------------------------------------------------------------
(* Correctness *)

\* Every variable holds a value of its type (a position in standard output is
\* not said to be a number: EndOfFile finds one because disk is finite).
TypeOK ==
    /\ job \in JobSpace
    /\ stage \in {"fileHeaders", "recHeaders", "formatMappings", "process"}
    /\ pc \in {"read", "fill", "return", "convert", "write", "put", "done"}
    /\ at \in 1 .. NumConduits + 1
    /\ newRecord \in [Pinfo -> BOOLEAN]
    /\ locked \in [Pinfo -> BOOLEAN]
    /\ arrayDone \in [Pinfo -> BOOLEAN]
    /\ left \in [Pinfo -> Int]
    /\ mapped \in [Pinfo -> Nat]
    /\ offset \in [Pinfo -> Nat]
    /\ buffer \in [Pinfo -> SUBSET (0 .. MaxOffset)]
    /\ \A w \in disk : /\ w.file \in {"header", "data"} /\ w.conduit \in Conduit
                       /\ w.rec \in 0 .. MaxOffset
    /\ doneReading \in BOOLEAN
    /\ error \in Errors

\* A buffer is locked exactly while it is being filled or put: every early
\* return of read_formats and write_formats releases it.
LockDiscipline ==
    \A p \in Pinfo :
        locked[p] <=> \/ pc = "fill" /\ p = In(at)
                      \/ pc = "put" /\ p = Out(at)

Delivered(c) == {w.rec : w \in {v \in disk : v.conduit = c}}
Cached(p) == IF newRecord[p] THEN buffer[p] ELSE {}
Mated == {c \in Conduit : {In(c), Out(c)} \subseteq job.ends}
\* What waits in the input's cache; a cache the query failed on goes nowhere
Held(c) == IF error = "ERR_GEN_QUERY" THEN {} ELSE Cached(In(c))

\* No record is lost, invented, repeated or passed over between the input and
\* the output file: what is written, what waits in the output's cache and what
\* waits in the input's cache are three consecutive runs of the wanted records.
Conservation ==
    \A c \in Mated :
        LET runs == <<Delivered(c), Cached(Out(c)), Held(c)>>
            seen == UNION {runs[i] : i \in 1 .. 3}
        IN  /\ \A i, j \in 1 .. 3 : i < j =>
                  \A r \in runs[i], s \in runs[j] : r < s
            /\ seen \subseteq job.wanted[c]
            /\ \A r \in job.wanted[c] : (\E s \in seen : r < s) => r \in seen

\* When a round of reading begins, everything converted has been written, but
\* for the initial values of an array that is complete.
Drained ==
    pc \in {"read", "fill", "return"} =>
        \A c \in Conduit :
            newRecord[Out(c)] => job.kind[c] = "array" /\ arrayDone[Out(c)]

\* No cache is filled anew while it holds records that have not moved on; a
\* query may thin them out.
CacheStable ==
    [][\A p \in Pinfo :
         newRecord[p] /\ newRecord'[p] => buffer'[p] \subseteq buffer[p]]_vars

\* A put never destroys what an earlier put wrote.
NoOverwrite == [][disk \subseteq disk']_disk

\* Records come out in the order in which they came in: a conduit's own, and,
\* when headers are embedded on both sides, headers and data among each other.
InOrder ==
    \A v, w \in disk :
        /\ v.file = w.file
        /\ v.conduit = w.conduit \/ (~job.sepIn /\ {v.conduit, w.conduit} \subseteq Mated)
        /\ v.rec < w.rec
        => v.pos < w.pos

Success == pc = "done" /\ error = "none"

\* When newform ends without an error, every wanted record is in the output.
CompleteOnSuccess ==
    Success => \A c \in Mated : Delivered(c) = job.wanted[c]

\* ... and the output has no holes.
Packed ==
    Success => \A w \in disk : w.pos = 0 \/ \E v \in disk :
        v.file = w.file /\ v.pos + job.recl[Out(v.conduit)] = w.pos

\* The count behind "BYTES OF DATA NOT WRITTEN" is zero after a success
NothingLeft == \A p \in job.ends : p[1] = "out" => left[p] = 0

\* Without a query newform raises no false alarm about unwritten data.
NoFalseAlarm == Success /\ ~job.query => NothingLeft

\* An output that has no input is written once.
TemplateOnce ==
    \A v, w \in disk : v.conduit = w.conduit /\ In(v.conduit) \notin job.ends => v = w

\* What is in the files, and what is on its way there, is in order at any time.
FilesRight ==
    Conservation /\ InOrder /\ Drained /\ Packed /\ NoFalseAlarm /\ TemplateOnce

\* newform ends, whatever the headers say of the data.
Termination == <>(pc = "done")

\* The conversion is a transfer of records: what is in the output grows by
\* initial runs of the wanted records, and success means all of them.
Abstract == INSTANCE RecordTransfer WITH
    Conduit <- Conduit,
    wanted <- [c \in Conduit |-> IF c \in Mated THEN job.wanted[c] ELSE {}],
    delivered <- [c \in Conduit |-> IF c \in Mated THEN Delivered(c) ELSE {}],
    status <- IF pc # "done" THEN "running"
              ELSE IF error = "none" THEN "succeeded" ELSE "failed"
TransferSpec == Abstract!Spec

-----------------------------------------------------------------------------
(* Conversions without record headers, to a file                              *)

\* The conduits that read data, not headers
DataIn(j) == {c \in Conduit : In(c) \in j.ends /\ j.kind[c] \in {"table", "array"}}
\* The outputs of one side share a file, the data file or the header file
SameFile(j, c, d) ==
    j.sepOut => (j.kind[c] = "fileHeader" <=> j.kind[d] = "fileHeader")
\* The bytes that the records mapped to the end p take up end here
RegionEnd(j, p) == j.start[p] + j.size[p[2]] * j.recl[p]
\* The query leaves records of the conduit out
Thinned(j, c) == j.query /\ j.kind[c] = "table"

\* The records that one read takes up: the k-th cache full of the conduit's input
CacheFull(j, c, k) ==
    {j.start[In(c)] + i * j.recl[In(c)] :
        i \in k * j.cache[c] .. Lesser((k + 1) * j.cache[c], j.size[c]) - 1}
\* Where the query has no value on a record, the filter tells it only if it kept
\* one before it in the same cache: otherwise it drops the cache, and says EOF.
\* No record to keep is dropped if, wherever there is one, the first comes before.
FailureTold(j) ==
    \A c \in DataIn(j) : \A k \in 0 .. j.size[c] :
        \A r \in j.keep \cap CacheFull(j, c, k), u \in j.undefined \cap CacheFull(j, c, k) :
            \E s \in j.keep \cap CacheFull(j, c, k) : s < u

\* There is no record header; the data is one table or any number of arrays;
\* one end alone is the output of a file header.  The records of a conduit lie
\* one behind the other, and the formats of a file one behind the other, as
\* update_following_offsets_or_size places them.
PlainJob(j) ==
    /\ j.toFile
    /\ \A c \in Conduit : j.kind[c] = "recHeader" => {In(c), Out(c)} \cap j.ends = {}
    /\ \A c, d \in DataIn(j) : j.kind[c] = "table" => c = d
    /\ j.query => FailureTold(j) /\ \A c \in DataIn(j) : j.kind[c] = "table"
    /\ \A c \in Conduit : j.kind[c] = "fileHeader" => j.size[c] = 1
    /\ \A c \in Conduit : Out(c) \in j.ends /\ In(c) \notin j.ends =>
                            j.kind[c] = "fileHeader"
    /\ \A c \in Conduit : {In(c), Out(c)} \subseteq j.ends =>
          j.wanted[c] = {r \in 0 .. MaxOffset :
              /\ \E i \in 0 .. j.size[c] - 1 : r = j.start[In(c)] + i * j.recl[In(c)]
              /\ Thinned(j, c) => r \in j.keep}
    /\ \A c, d \in Conduit : c < d =>
          /\ {Out(c), Out(d)} \subseteq j.ends /\ SameFile(j, c, d) =>
                RegionEnd(j, Out(c)) <= j.start[Out(d)]
          /\ {In(c), In(d)} \subseteq j.ends /\ ~j.sepIn =>
                RegionEnd(j, In(c)) <= j.start[In(d)]
    /\ \A c \in Conduit : Out(c) \in j.ends =>
          \/ j.start[Out(c)] = 0
          \/ \E d \in Conduit :
                /\ Out(d) \in j.ends /\ SameFile(j, d, c)
                /\ j.size[d] > 0 /\ ~Thinned(j, d)
                /\ RegionEnd(j, Out(d)) = j.start[Out(c)]

=============================================================================
