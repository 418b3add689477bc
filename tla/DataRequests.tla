---------------------------- MODULE DataRequests -----------------------------
(* The handler (src/FFRequestHandler.cc) answering one request after another  *)
(* in the process of a server.  Two things outlive a call into it: the row    *)
(* cache of sequences (BufVal, BufPtr, BufSiz) and FreeForm's list of         *)
(* errors, which only read_ff empties.                                        *)
(*                                                                            *)
(* A byte of a row is known by its dataset and its offset in the dataset's    *)
(* rows: a field read from the wrong place is a different value.              *)
EXTENDS Naturals, Integers, Sequences, SequencesExt, FiniteSetsExt

CONSTANTS
    Datasets,       \* see DatasetSpace
    MaxRequests,    \* bound: requests answered by the process
    MaxContainers   \* bound: containers in the definition of a request

SetUps == {"ok", "warning", "error"}

DatasetSpace(d) ==
    /\ d.fields \in Seq([width : Nat \ {0}, synthesized : BOOLEAN])
    /\ d.arrays \in Nat        \* array variables: 0 in a table
    /\ d.rows \in Nat          \* whole records in the file
    /\ d.setup \in SetUps      \* what SetDodsDB makes of it
    /\ d.listed \in BOOLEAN    \* its format is found where FreeForm looks by itself
    /\ d.reads \in BOOLEAN     \* newform converts it

ASSUME DatasetsAssumption == \A d \in Datasets : DatasetSpace(d)
ASSUME MaxRequestsAssumption == MaxRequests \in Nat
ASSUME MaxContainersAssumption == MaxContainers \in Nat

None == [of |-> "none"]
Attributes == "das"
DataKinds == {"data", "dap4data"}
Kinds == {Attributes, "dds", "dmr"} \cup DataKinds

VARIABLES
    pc,         \* "idle", "build" the responses of the containers, or "respond"
    round,      \* requests so far
    kind,       \* the kind of the request
    containers, \* the datasets it names
    queue,      \* those whose response is still to be built
    todo,       \* the variables still to be sent
    BufVal,     \* None, or the dataset whose rows it holds and how many bytes
    BufPtr,
    BufSiz,
    errorList,  \* error_list of error.c: the request that caused each message
    rows,       \* of the sequence that is being sent, those it has sent
    delivered,  \* the variables of the request that have been sent
    thrown,     \* the requests whose messages made this one fail
    outcome     \* "none" while it runs, "sent" or "failed"

cache == <<BufVal, BufPtr, BufSiz>>
request == <<round, kind, containers>>
vars == <<pc, request, queue, todo, cache, errorList, rows, delivered, thrown,
          outcome>>

Init ==
    /\ pc = "idle" /\ round = 0
    /\ kind = Attributes /\ containers = <<>> /\ queue = <<>> /\ todo = <<>>
    /\ BufVal = None /\ BufPtr = 0 /\ BufSiz = 0
    /\ errorList = <<>>
    /\ rows = <<>> /\ delivered = <<>> /\ thrown = {} /\ outcome = "none"

-----------------------------------------------------------------------------
(* Calls into FreeForm *)

Times(n) == [i \in 1 .. n |-> round]

\* One SetDodsDB: a partial record at the end is a warning, a missing or
\* wrong format an error and the message of its caller
SetUpCount(d) ==
    CASE d.setup = "ok" -> 0 [] d.setup = "warning" -> 1 [] d.setup = "error" -> 2
SetUpMessages(d) == Times(SetUpCount(d))

\* newform sets the dataset up again.  Where a conversion fails, so do its
\* callers, each with a message.
NewformMessages(d) ==
    IF d.reads THEN SetUpMessages(d) ELSE SetUpMessages(d) \o Times(2)

\* A file without a whole record makes an array "1 to 0", whose indices run
\* backwards: two elements
Records(d) ==
    IF ~d.listed THEN -1 ELSE IF d.rows = 0 THEN 2 ELSE d.rows

Fail(messages) ==
    /\ pc' = "idle" /\ outcome' = "failed" /\ thrown' = messages
    /\ todo' = <<>>
    /\ UNCHANGED <<request, rows, delivered>>

\* read_ff throws if there is any message in the list, and empties it
Raises_Before(d, list) == list # <<>>
Raises(d, list) == list \o NewformMessages(d) # <<>>
Pulled_First(list) == Tail(list)
Pulled(list) == <<>>
ReadFails(d, list) ==
    /\ Raises(d, list)
    /\ errorList' = Pulled(list \o NewformMessages(d))
    /\ Fail(Range(list \o NewformMessages(d)))

-----------------------------------------------------------------------------
(* Building a response *)

Request(k, cs) ==
    /\ pc = "idle" /\ round < MaxRequests
    /\ k = "data" \/ Len(cs) = 1
    /\ pc' = "build" /\ round' = round + 1 /\ kind' = k
    /\ containers' = cs /\ queue' = cs
    /\ todo' = <<>> /\ rows' = <<>> /\ delivered' = <<>>
    /\ thrown' = {} /\ outcome' = "none"
    /\ UNCHANGED <<cache, errorList>>

\* Only the builders of data responses and of DMRs begin with an empty cache.
\* The old one is not freed.
StartCache_KeepPosition ==
    IF kind \in DataKinds \cup {"dmr"}
    THEN BufVal' = None /\ BufSiz' = 0 /\ UNCHANGED BufPtr
    ELSE UNCHANGED cache
StartCache_KeepRows ==
    IF kind \in DataKinds \cup {"dmr"}
    THEN BufPtr' = 0 /\ UNCHANGED <<BufVal, BufSiz>>
    ELSE UNCHANGED cache
StartCache ==
    IF kind \in DataKinds \cup {"dmr"}
    THEN BufVal' = None /\ BufPtr' = 0 /\ BufSiz' = 0
    ELSE UNCHANGED cache

\* ff_read_descriptors, read_attributes and add_variable_containers each set
\* the dataset up; the attributes need only the last two
SetUpCalls == IF kind = Attributes THEN 2 ELSE 3

\* ff_read_descriptors: a sequence of all fields, or the arrays
Variables(d) ==
    IF d.arrays = 0 THEN <<[of |-> d, type |-> "sequence"]>>
    ELSE [i \in 1 .. d.arrays |-> [of |-> d, type |-> "array"]]

Build ==
    LET d == Head(queue) IN
    /\ pc = "build"
    /\ StartCache
    /\ IF d.setup = "error"
       THEN /\ errorList' = errorList \o SetUpMessages(d)
            /\ Fail({})
            /\ UNCHANGED queue
       ELSE /\ errorList' = errorList
                   \o Times(SetUpCalls * SetUpCount(d))
            /\ queue' = Tail(queue)
            /\ todo' = IF kind \in DataKinds THEN todo \o Variables(d) ELSE <<>>
            /\ IF queue' # <<>> THEN UNCHANGED <<pc, outcome>>
               ELSE IF todo' # <<>> THEN pc' = "respond" /\ UNCHANGED outcome
               ELSE pc' = "idle" /\ outcome' = "sent"
            /\ UNCHANGED <<request, rows, delivered, thrown>>

-----------------------------------------------------------------------------
(* Sending the variables *)

Variable == Head(todo)
Dataset == Variable.of

\* The variable has been sent: on to the next
Sent(values) ==
    /\ delivered' = Append(delivered, [of |-> Dataset, rows |-> values])
    /\ todo' = Tail(todo) /\ rows' = <<>>
    /\ IF todo' = <<>> THEN pc' = "idle" /\ outcome' = "sent"
       ELSE UNCHANGED <<pc, outcome>>
    /\ UNCHANGED <<request, queue, thrown>>

\* FFArray::read
ReadArray_TriedAgain ==
    /\ pc = "respond" /\ Variable.type = "array"
    /\ IF Raises(Dataset, errorList)
       THEN errorList' = Pulled(errorList) /\ UNCHANGED <<pc, request, queue, todo,
                rows, delivered, thrown, outcome>>
       ELSE UNCHANGED errorList /\ Sent(<<>>)
    /\ UNCHANGED cache
ReadArray ==
    /\ pc = "respond" /\ Variable.type = "array"
    /\ \/ ReadFails(Dataset, errorList) /\ UNCHANGED queue
       \/ /\ ~Raises(Dataset, errorList)
          /\ UNCHANGED errorList
          /\ Sent(<<>>)
    /\ UNCHANGED cache

\* FFSequence::read and FFD4Sequence::read
Reading == pc = "respond" /\ Variable.type = "sequence"
AtEnd_Late == BufPtr > BufSiz /\ BufSiz # 0
AtEnd == BufPtr >= BufSiz /\ BufSiz # 0

EndOfSequence ==
    /\ Reading /\ AtEnd
    /\ Sent(rows)
    /\ UNCHANGED <<cache, errorList>>

Widths(d, J) == MapThenSumSet(LAMBDA j : d.fields[j].width, J)
\* The output format has a field for each variable of the dataset, and none for
\* those a function of the constraint has added
Real(d) == {j \in DOMAIN d.fields : ~d.fields[j].synthesized}
FormatFields_All(d) == DOMAIN d.fields
FormatFields(d) == Real(d)
RowWidth(d) == Widths(d, FormatFields(d))
\* read_p stays true in a synthesized variable: its read() returns at once
UnreadFields_All(d) == DOMAIN d.fields
UnreadFields(d) == Real(d)

\* Each field in turn takes its bytes and moves BufPtr on
Row(val, ptr, d) ==
    [j \in Real(d) |->
        LET at == ptr + Widths(d, UnreadFields(d) \cap 1 .. j - 1)
        IN  [of |-> val.of, at |-> at,
             whole |-> at + d.fields[j].width <= val.filled]]

ReadRow(val, ptr) ==
    /\ rows' = Append(rows, Row(val, ptr, Dataset))
    /\ BufPtr' = ptr + Widths(Dataset, UnreadFields(Dataset))
    /\ UNCHANGED <<pc, request, queue, todo, errorList, delivered, thrown, outcome>>

\* Records() cannot set the dataset up: taken for the end
RecordsUnknown ==
    /\ Reading /\ ~AtEnd /\ BufVal = None
    /\ Records(Dataset) = -1
    /\ errorList' = errorList \o Times(2)
    /\ Sent(rows)
    /\ UNCHANGED cache

FirstRow ==
    LET list == errorList \o SetUpMessages(Dataset)
        size == Records(Dataset) * RowWidth(Dataset)
    IN
    /\ Reading /\ ~AtEnd /\ BufVal = None
    /\ Records(Dataset) # -1
    /\ BufSiz' = size
    /\ IF Raises(Dataset, list)
       THEN /\ BufVal' = [of |-> Dataset, filled |-> 0]
            /\ ReadFails(Dataset, list)
            /\ UNCHANGED <<BufPtr, queue>>
       ELSE /\ BufVal' = [of |-> Dataset, filled |-> size]
            /\ ReadRow(BufVal', BufPtr)

NextRow ==
    /\ Reading /\ ~AtEnd /\ BufVal # None
    /\ ReadRow(BufVal, BufPtr)
    /\ UNCHANGED <<BufVal, BufSiz>>

Requests == BoundedSeq(Datasets, MaxContainers) \ {<<>>}

Quiet == pc = "idle" /\ round = MaxRequests /\ UNCHANGED vars

Respond == ReadArray \/ EndOfSequence \/ RecordsUnknown \/ FirstRow \/ NextRow

Next ==
    \/ \E k \in Kinds, cs \in Requests : Request(k, cs)
    \/ Build
    \/ Respond
    \/ Quiet

Spec == Init /\ [][Next]_vars
\* A request that has come is worked on until it is answered: one thread.
\* Nothing makes a client send another.
FairSpec == Spec /\ WF_vars(Build) /\ WF_vars(Respond)

-----------------------------------------------------------------------------
(* Properties *)

Field == [of : Datasets, at : Nat, whole : BOOLEAN]

\* The state is of the right shape, and a finished request has nothing left.
TypeOK ==
    /\ pc \in {"idle", "build", "respond"}
    /\ round \in 0 .. MaxRequests
    /\ kind \in Kinds
    /\ queue \in Seq(Datasets) /\ containers \in Seq(Datasets)
    /\ todo \in Seq([of : Datasets, type : {"sequence", "array"}])
    /\ BufVal # None => BufVal.of \in Datasets /\ BufVal.filled \in Nat
    /\ BufPtr \in Nat /\ BufSiz \in Nat
    /\ errorList \in Seq(1 .. MaxRequests)
    /\ \A k \in DOMAIN rows : \A j \in DOMAIN rows[k] : rows[k][j] \in Field
    /\ thrown \subseteq 1 .. MaxRequests
    /\ outcome \in {"none", "sent", "failed"}
    /\ (outcome = "none") => (pc # "idle" \/ round = 0)

\* Row k of a file, by the widths of its fields
StoredRow(d, k) ==
    [j \in Real(d) |->
        [of |-> d, whole |-> TRUE,
         at |-> (k - 1) * Widths(d, Real(d)) + Widths(d, Real(d) \cap 1 .. j - 1)]]

\* The rows a sequence has sent are the first rows of its own file, each field
\* from its own bytes, whatever was read before it (the global BufPtr).
RowsInOrder ==
    rows = [k \in 1 .. Len(rows) |->
               StoredRow(IF todo = <<>> THEN Last(containers) ELSE Dataset, k)]

\* A sequence that was sent without an error has all rows of its file.  (Not if
\* Records() cannot set it up: a format is then handed over, but not found.)
AllRows ==
    \A i \in DOMAIN delivered :
        delivered[i].of.arrays = 0 /\ delivered[i].of.listed =>
            Len(delivered[i].rows) = delivered[i].of.rows

\* Between two rows the cache stands at the start of a row or at its end.
WholeRows ==
    (Reading /\ BufVal # None) =>
        /\ BufPtr = Len(rows) * Widths(Dataset, Real(Dataset))
        /\ BufPtr <= BufSiz

\* A request for data that ends well could be read: no failure is swallowed.
FailureTold ==
    (outcome = "sent" /\ kind \in DataKinds) =>
        \A i \in DOMAIN containers : containers[i].reads /\ containers[i].setup # "error"

\* What is sent as complete is complete.
Honest == AllRows /\ WholeRows /\ FailureTold

\* A request fails for a dataset of its own, not for what an earlier one left
\* in the list of errors.
FailsForOwnDataset ==
    outcome = "failed" =>
        \E i \in DOMAIN containers : ~containers[i].reads \/ containers[i].setup = "error"

\* The messages that make a request fail were pushed while it ran.
OwnErrors == thrown \subseteq {round}

\* Two tables in one request share the row cache: the properties above are of
\* requests that name one dataset.
OneContainer == Len(containers) <= 1

\* newform says that there is nothing to process in a table without a whole
\* row.  A format that Records() does not find has been handed over, and
\* newform works with it.
Served(d) ==
    /\ d.arrays = 0 /\ d.rows = 0 => ~d.reads
    /\ d.listed \/ d.reads

\* Every request is answered.
Answered == (pc # "idle") ~> (pc = "idle")
=============================================================================
