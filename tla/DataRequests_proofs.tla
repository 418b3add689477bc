------------------------ MODULE DataRequests_proofs -------------------------
(* Theorems about DataRequests for any datasets that can be set up without a  *)
(* message: however many requests of whatever kind a process answers, and     *)
(* whichever of them newform fails, no request pays for another.              *)
EXTENDS DataRequests, Sums_proofs

\* SetDodsDB works on every dataset, and finds its format by itself.
CleanSetUps == \A d \in Datasets : d.setup = "ok" /\ d.listed

\* What is still to be built or sent belongs to the request.
OwnWork ==
    /\ containers \in Seq(Datasets)
    /\ queue \in Seq(Datasets)
    /\ todo \in Seq([of : Datasets, type : {"sequence", "array"}])
    /\ \A i \in DOMAIN queue : \E j \in DOMAIN containers : containers[j] = queue[i]
    /\ \A i \in DOMAIN todo : \E j \in DOMAIN containers : containers[j] = todo[i].of
    /\ pc = "build" => queue # <<>>
    /\ pc = "respond" => todo # <<>>

NoMessages == errorList = <<>>

IInv == OwnWork /\ NoMessages /\ FailsForOwnDataset

-----------------------------------------------------------------------------
(* Sequences *)

LEMMA TailOf ==
  ASSUME NEW S, NEW s \in Seq(S), s # <<>>
  PROVE  /\ Head(s) \in S /\ 1 \in DOMAIN s /\ Head(s) = s[1]
         /\ Tail(s) \in Seq(S)
         /\ \A i \in DOMAIN Tail(s) : i + 1 \in DOMAIN s /\ Tail(s)[i] = s[i + 1]
OBVIOUS

LEMMA WiderSeq ==
  ASSUME NEW S, NEW T, S \subseteq T
  PROVE  \A s \in Seq(S) : s \in Seq(T)
OBVIOUS

LEMMA NoTimes == Times(0) = <<>>
<1>1. 1 .. 0 = {}
  OBVIOUS
<1>2. QED
  BY <1>1 DEF Times

-----------------------------------------------------------------------------
(* Calls into FreeForm *)

\* Without a message of the set-up, a read fails only if newform does, and
\* leaves no message behind.
LEMMA CleanRead ==
  ASSUME NEW d \in Datasets, CleanSetUps
  PROVE  /\ SetUpMessages(d) = <<>>
         /\ \A n \in Nat : Times(n * SetUpCount(d)) = <<>>
         /\ Raises(d, <<>>) => ~ d.reads
<1>1. SetUpCount(d) = 0
  BY DEF CleanSetUps, SetUpCount
<1>2. SetUpMessages(d) = <<>>
  BY <1>1, NoTimes DEF SetUpMessages
<1>3. \A n \in Nat : Times(n * SetUpCount(d)) = <<>>
  BY <1>1, NoTimes
<1>4. ASSUME d.reads
      PROVE  ~ Raises(d, <<>>)
  <2>1. NewformMessages(d) = <<>>
    BY <1>2, <1>4 DEF NewformMessages
  <2>2. <<>> \o <<>> = <<>>
    OBVIOUS
  <2>3. QED
    BY <2>1, <2>2 DEF Raises
<1>5. QED
  BY <1>2, <1>3, <1>4

\* A read that fails does so for a dataset of the request.
LEMMA OwnFailure ==
  ASSUME NEW d \in Datasets, CleanSetUps, OwnWork,
         \E j \in DOMAIN containers : containers[j] = d,
         ReadFails(d, <<>>), UNCHANGED queue
  PROVE  IInv'
<1>1. ~ d.reads
  BY CleanRead DEF ReadFails
<1>2. errorList' = <<>>
  BY DEF ReadFails, Pulled
<1>3. pc' = "idle" /\ todo' = <<>> /\ UNCHANGED containers
  BY DEF ReadFails, Fail, request
<1>4. OwnWork'
  BY <1>3 DEF OwnWork
<1>5. FailsForOwnDataset'
  BY <1>1, <1>3 DEF FailsForOwnDataset
<1>6. QED
  BY <1>2, <1>4, <1>5 DEF IInv, NoMessages

LEMMA VariablesOf ==
  ASSUME NEW d \in Datasets
  PROVE  /\ Variables(d) \in Seq([of : Datasets, type : {"sequence", "array"}])
         /\ \A i \in DOMAIN Variables(d) : Variables(d)[i].of = d
<1> DEFINE n == d.arrays
           table == [of |-> d, type |-> "sequence"]
           array == [of |-> d, type |-> "array"]
           V == {v \in [of : Datasets, type : {"sequence", "array"}] : v.of = d}
<1>1. n \in Nat
  BY DatasetsAssumption DEF DatasetSpace
<1>2. table \in V /\ array \in V
  OBVIOUS
<1>3. Variables(d) = IF n = 0 THEN <<table>> ELSE [i \in 1 .. n |-> array]
  BY DEF Variables
<1> HIDE DEF n, table, array, V
<1>4. Variables(d) \in Seq(V)
  BY <1>1, <1>2, <1>3
<1>5. \A v \in V : v \in [of : Datasets, type : {"sequence", "array"}] /\ v.of = d
  BY DEF V
<1>6. \A s \in Seq(V) : \A i \in DOMAIN s : s[i] \in V
  OBVIOUS
<1>7. V \subseteq [of : Datasets, type : {"sequence", "array"}]
  BY <1>5
<1>8. \A s \in Seq(V) : s \in Seq([of : Datasets, type : {"sequence", "array"}])
  BY <1>7, WiderSeq
<1>9. QED
  BY <1>4, <1>5, <1>6, <1>8

-----------------------------------------------------------------------------
(* Steps *)

LEMMA IInvInit == Init => IInv
BY DEF Init, IInv, OwnWork, NoMessages, FailsForOwnDataset

LEMMA RequestStep ==
  ASSUME NEW k \in Kinds, NEW cs \in Requests, IInv, Request(k, cs)
  PROVE  IInv'
<1>1. cs \in Seq(Datasets) /\ cs # <<>>
  BY DEF Requests, BoundedSeq, SeqOf
<1>2. /\ containers' = cs /\ queue' = cs /\ todo' = <<>> /\ pc' = "build"
      /\ outcome' = "none" /\ errorList' = errorList
  BY DEF Request
<1>3. OwnWork'
  BY <1>1, <1>2 DEF OwnWork
<1>4. FailsForOwnDataset'
  BY <1>2 DEF FailsForOwnDataset
<1>5. QED
  BY <1>2, <1>3, <1>4 DEF IInv, NoMessages

LEMMA BuildStep ==
  ASSUME CleanSetUps, IInv, Build
  PROVE  IInv'
<1> DEFINE d == Head(queue)
<1>1. /\ queue # <<>> /\ d \in Datasets /\ d.setup = "ok"
      /\ \E j \in DOMAIN containers : containers[j] = d
  BY TailOf DEF IInv, OwnWork, Build, CleanSetUps
<1>2. /\ errorList' = errorList \o Times(SetUpCalls * SetUpCount(d))
      /\ queue' = Tail(queue)
      /\ todo' = IF kind \in DataKinds THEN todo \o Variables(d) ELSE <<>>
      /\ UNCHANGED containers
      /\ pc' = "build" => queue' # <<>>
      /\ pc' = "respond" => todo' # <<>>
      /\ outcome' = "failed" => outcome = "failed"
  BY <1>1 DEF Build, request
<1>3. errorList' = <<>>
  <2>1. SetUpCalls \in Nat
    BY DEF SetUpCalls
  <2>2. QED
    BY <1>1, <1>2, <2>1, CleanRead DEF IInv, NoMessages
<1>4. /\ Variables(d) \in Seq([of : Datasets, type : {"sequence", "array"}])
      /\ \A i \in DOMAIN Variables(d) : Variables(d)[i].of = d
  BY <1>1, VariablesOf
<1>5. /\ todo' \in Seq([of : Datasets, type : {"sequence", "array"}])
      /\ \A i \in DOMAIN todo' : \E j \in DOMAIN containers : containers[j] = todo'[i].of
  <2>1. CASE kind \in DataKinds
    <3> DEFINE v == Variables(d)
    <3>1. todo' = todo \o v
      BY <1>2, <2>1
    <3>2. todo \in Seq([of : Datasets, type : {"sequence", "array"}])
      BY DEF IInv, OwnWork
    <3> HIDE DEF v
    <3>3. /\ todo \o v \in Seq([of : Datasets, type : {"sequence", "array"}])
          /\ \A i \in DOMAIN (todo \o v) :
                \/ i \in DOMAIN todo /\ (todo \o v)[i] = todo[i]
                \/ i - Len(todo) \in DOMAIN v /\ (todo \o v)[i] = v[i - Len(todo)]
      BY <1>4, <3>2 DEF v
    <3>4. QED
      BY <1>1, <1>4, <3>1, <3>3 DEF IInv, OwnWork, v
  <2>2. CASE kind \notin DataKinds
    BY <1>2, <2>2
  <2>3. QED
    BY <2>1, <2>2
<1>6. /\ queue' \in Seq(Datasets)
      /\ \A i \in DOMAIN queue' : \E j \in DOMAIN containers : containers[j] = queue'[i]
  BY <1>1, <1>2, TailOf DEF IInv, OwnWork
<1>7. OwnWork'
  BY <1>2, <1>5, <1>6 DEF IInv, OwnWork
<1>8. FailsForOwnDataset'
  BY <1>2 DEF IInv, FailsForOwnDataset
<1>9. QED
  BY <1>3, <1>7, <1>8 DEF IInv, NoMessages

\* A variable that has been sent
LEMMA SentStep ==
  ASSUME NEW values, IInv, todo # <<>>, Sent(values), UNCHANGED errorList
  PROVE  IInv'
<1>1. /\ todo' = Tail(todo) /\ UNCHANGED <<containers, queue>>
      /\ pc' = "respond" => todo' # <<>> \/ pc = "build"
      /\ pc' = "build" => pc = "build"
      /\ outcome' = "failed" => outcome = "failed"
  BY DEF Sent, request, IInv, OwnWork
<1>2. /\ todo' \in Seq([of : Datasets, type : {"sequence", "array"}])
      /\ \A i \in DOMAIN todo' : \E j \in DOMAIN containers : containers[j] = todo'[i].of
  BY <1>1, TailOf DEF IInv, OwnWork
<1>3. pc' = "respond" => todo' # <<>>
  BY DEF Sent
<1>4. OwnWork'
  BY <1>1, <1>2, <1>3 DEF IInv, OwnWork
<1>5. FailsForOwnDataset'
  BY <1>1 DEF IInv, FailsForOwnDataset
<1>6. QED
  BY <1>4, <1>5 DEF IInv, NoMessages

LEMMA RowStep ==
  ASSUME NEW val, NEW ptr, IInv, ReadRow(val, ptr)
  PROVE  IInv'
BY DEF ReadRow, request, IInv, OwnWork, NoMessages, FailsForOwnDataset

LEMMA RespondStep ==
  ASSUME CleanSetUps, IInv, pc = "respond", Respond
  PROVE  IInv'
<1> DEFINE d == Dataset
<1>1. /\ todo # <<>> /\ d \in Datasets
      /\ \E j \in DOMAIN containers : containers[j] = d
  BY TailOf DEF IInv, OwnWork, Dataset, Variable
<1>2. errorList = <<>>
  BY DEF IInv, NoMessages
<1> HIDE DEF d
<1>3. CASE ReadArray
  <2>1. CASE ReadFails(Dataset, errorList) /\ UNCHANGED queue
    BY <1>1, <1>2, <2>1, OwnFailure DEF d, IInv
  <2>2. CASE Sent(<<>>) /\ UNCHANGED errorList
    BY <1>1, <2>2, SentStep
  <2>3. QED
    BY <1>3, <2>1, <2>2 DEF ReadArray
<1>4. CASE EndOfSequence
  BY <1>1, <1>4, SentStep DEF EndOfSequence
<1>5. CASE RecordsUnknown
  <2>1. d.listed /\ d.rows \in Nat
    BY <1>1, DatasetsAssumption DEF CleanSetUps, DatasetSpace
  <2>2. QED
    BY <1>5, <2>1 DEF RecordsUnknown, Records, d
<1>6. CASE FirstRow
  <2>1. errorList \o SetUpMessages(Dataset) = <<>>
    BY <1>1, <1>2, CleanRead DEF d
  <2>2. CASE Raises(Dataset, <<>>)
    <3>1. ReadFails(Dataset, <<>>) /\ UNCHANGED queue
      BY <1>6, <2>1, <2>2 DEF FirstRow
    <3>2. QED
      BY <1>1, <3>1, OwnFailure DEF d, IInv
  <2>3. CASE ~ Raises(Dataset, <<>>)
    <3>1. ReadRow(BufVal', BufPtr)
      BY <1>6, <2>1, <2>3 DEF FirstRow
    <3>2. QED
      BY <3>1, RowStep
  <2>4. QED
    BY <2>2, <2>3
<1>7. CASE NextRow
  <2>1. ReadRow(BufVal, BufPtr)
    BY <1>7 DEF NextRow
  <2>2. QED
    BY <2>1, RowStep
<1>8. QED
  BY <1>3, <1>4, <1>5, <1>6, <1>7 DEF Respond

LEMMA IInvStep == CleanSetUps /\ IInv /\ [Next]_vars => IInv'
<1> SUFFICES ASSUME CleanSetUps, IInv, [Next]_vars
             PROVE  IInv'
  OBVIOUS
<1>1. ASSUME NEW k \in Kinds, NEW cs \in Requests, Request(k, cs)
      PROVE  IInv'
  BY <1>1, RequestStep
<1>2. CASE Build
  BY <1>2, BuildStep
<1>3. CASE Respond
  <2>1. pc = "respond"
    BY <1>3 DEF Respond, ReadArray, EndOfSequence, RecordsUnknown, FirstRow, NextRow,
                Reading
  <2>2. QED
    BY <1>3, <2>1, RespondStep
<1>4. CASE UNCHANGED vars
  BY <1>4 DEF vars, request, IInv, OwnWork, NoMessages, FailsForOwnDataset
<1>5. CASE Quiet
  BY <1>4, <1>5 DEF Quiet
<1>6. QED
  BY <1>1, <1>2, <1>3, <1>4, <1>5 DEF Next

-----------------------------------------------------------------------------
\* Where every dataset can be set up, a request fails only if newform fails on
\* a dataset of its own: read_ff takes out every message it throws, so that no
\* failure reaches a later request.
THEOREM NobodyElsesFailure ==
  ASSUME CleanSetUps
  PROVE  Spec => []FailsForOwnDataset
<1>1. Init => IInv
  BY IInvInit
<1>2. IInv /\ [Next]_vars => IInv'
  BY IInvStep
<1>3. IInv => FailsForOwnDataset
  BY DEF IInv
<1>4. QED
  BY <1>1, <1>2, <1>3, PTL DEF Spec

-----------------------------------------------------------------------------
(* Where the bytes of a row are                                               *)

FieldWidths(d) == [j \in DOMAIN d.fields |-> d.fields[j].width]

\* The widths of some fields are a sum.
LEMMA WidthsAdd ==
  ASSUME NEW d, NEW J \in SUBSET (DOMAIN d.fields)
  PROVE  Widths(d, J) = Sum(FieldWidths(d), J)
<1> DEFINE w == FieldWidths(d)
           F(g) == [s \in SUBSET J |-> IF s = {} THEN 0
                      ELSE d.fields[CHOOSE x \in s : TRUE].width
                             + g[s \ {CHOOSE x \in s : TRUE}]]
           It(g) == g = F(g)
<1>1. Widths(d, J) = (CHOOSE g : It(g))[J]
  BY DEF Widths, MapThenSumSet, MapThenFoldSet
<1>2. \A g : It(g) <=> Iterates(g, w, J)
  <2> SUFFICES ASSUME NEW g PROVE It(g) <=> Iterates(g, w, J)
    OBVIOUS
  <2> DEFINE G == [s \in SUBSET J |-> Summed(w, g, s)]
  <2>1. ASSUME NEW s \in SUBSET J
        PROVE  F(g)[s] = G[s]
    <3>1. s # {} => (CHOOSE x \in s : TRUE) \in DOMAIN d.fields
      OBVIOUS
    <3>2. QED
      BY <3>1 DEF Summed, Chosen, FieldWidths
  <2>2. F(g) = G
    BY <2>1
  <2>3. QED
    BY <2>2 DEF Iterates
<1>3. (CHOOSE g : It(g)) = (CHOOSE g : Iterates(g, w, J))
  <2> HIDE DEF It, w
  <2>1. QED
    BY <1>2, Zenon
<1>4. QED
  BY <1>1, <1>3 DEF Sum

\* A field lies behind the fields before it and inside the row.
LEMMA RowLayout ==
  ASSUME NEW d \in Datasets
  PROVE  /\ RowWidth(d) \in Nat
         /\ \A j \in Real(d) :
              LET before == Widths(d, Real(d) \cap 1 .. j - 1) IN
              /\ before \in Nat
              /\ d.fields[j].width \in Nat \ {0}
              /\ before + d.fields[j].width <= RowWidth(d)
<1> DEFINE w == FieldWidths(d)
<1>1. d.fields \in Seq([width : Nat \ {0}, synthesized : BOOLEAN])
  BY DatasetsAssumption DEF DatasetSpace
<1>2. /\ DOMAIN d.fields = 1 .. Len(d.fields) /\ Len(d.fields) \in Nat
      /\ \A j \in DOMAIN d.fields : d.fields[j].width \in Nat \ {0}
  <2> DEFINE F == [width : Nat \ {0}, synthesized : BOOLEAN]
             s == d.fields
  <2>1. s \in Seq(F)
    BY <1>1
  <2>2. \A f \in F : f.width \in Nat \ {0}
    OBVIOUS
  <2> HIDE DEF s, F
  <2>3. DOMAIN s = 1 .. Len(s) /\ Len(s) \in Nat /\ \A j \in DOMAIN s : s[j] \in F
    BY <2>1
  <2>4. QED
    BY <2>2, <2>3 DEF s
<1>3. Real(d) \in SUBSET (DOMAIN d.fields) /\ IsFiniteSet(DOMAIN d.fields)
  BY <1>2, FS_Interval DEF Real
<1>4. IsFiniteSet(Real(d)) /\ \A j \in Real(d) : w[j] \in Nat
  BY <1>2, <1>3, FS_Subset DEF FieldWidths
<1>5. RowWidth(d) = Sum(w, Real(d))
  BY <1>3, WidthsAdd DEF RowWidth, FormatFields
<1>6. RowWidth(d) \in Nat
  BY <1>4, <1>5, SumRemove
<1>7. ASSUME NEW j \in Real(d)
      PROVE  LET before == Widths(d, Real(d) \cap 1 .. j - 1) IN
             /\ before \in Nat
             /\ d.fields[j].width \in Nat \ {0}
             /\ before + d.fields[j].width <= RowWidth(d)
  <2> DEFINE B == Real(d) \cap 1 .. j - 1
             C == B \cup {j}
  <2>1. B \in SUBSET Real(d) /\ C \in SUBSET Real(d) /\ C \ {j} = B /\ j \in C
    BY <1>2, <1>3
  <2>2. IsFiniteSet(C) /\ B \in SUBSET (DOMAIN d.fields)
    BY <1>3, <1>4, <2>1, FS_Subset
  <2>3. w[j] = d.fields[j].width /\ w[j] \in Nat \ {0}
    BY <1>2, <1>3 DEF FieldWidths
  <2>4. Widths(d, B) = Sum(w, B)
    BY <2>2, WidthsAdd
  <2> HIDE DEF w, B, C
  <2>5. Sum(w, B) \in Nat /\ Sum(w, C) \in Nat /\ Sum(w, C) <= Sum(w, Real(d))
    BY <1>4, <2>1, SumSubset
  <2>6. Sum(w, C) = w[j] + Sum(w, C \ {j})
    BY <1>4, <2>1, <2>2, SumRemove
  <2>7. Widths(d, B) \in Nat /\ Widths(d, B) + w[j] <= RowWidth(d)
    BY <1>5, <2>1, <2>3, <2>4, <2>5, <2>6
  <2>8. QED
    BY <2>3, <2>7 DEF B
<1>8. QED
  BY <1>6, <1>7

\* The row that BufPtr stands at is the next one of the file.
LEMMA NextStored ==
  ASSUME NEW d \in Datasets, NEW n \in Nat, NEW m \in Nat \ {0}, NEW filled,
         filled = m * RowWidth(d), n * RowWidth(d) < filled \/ filled = 0
  PROVE  /\ Row([of |-> d, filled |-> filled], n * RowWidth(d), d) = StoredRow(d, n + 1)
         /\ n * RowWidth(d) + RowWidth(d) = (n + 1) * RowWidth(d)
         /\ (n + 1) * RowWidth(d) <= filled
<1> DEFINE W == RowWidth(d)
           ptr == n * W
<1>1. W \in Nat
  BY RowLayout
<1>2. W = Widths(d, Real(d))
  BY DEF RowWidth, FormatFields
<1>3. /\ ptr \in Nat /\ filled \in Nat /\ ptr + W = (n + 1) * W
      /\ W = 0 \/ n < m
      /\ n + 1 - 1 = n
  <2> HIDE DEF W
  <2>1. ptr \in Nat /\ m * W \in Nat /\ ptr + W = (n + 1) * W
    BY <1>1, SMTT(30)
  <2>2. ASSUME W # 0
        PROVE  n < m
    <3>1. m * W # 0
      BY <1>1, <2>2, SMTT(30)
    <3>2. n * W < m * W
      BY <3>1 DEF W
    <3>3. m <= n => m * W <= n * W
      BY <1>1, SMTT(30)
    <3>4. QED
      BY <2>1, <3>2, <3>3
  <2>3. QED
    BY <2>1, <2>2 DEF W
<1>4. (n + 1) * W <= filled
  <2> HIDE DEF W
  <2>1. CASE W = 0
    BY <1>3, <2>1, SMTT(30)
  <2>2. CASE n < m
    <3>1. (n + 1) * W <= m * W
      BY <1>1, <2>2, SMTT(30)
    <3>2. QED
      BY <3>1 DEF W
  <2>3. QED
    BY <1>3, <2>1, <2>2
<1>5. ASSUME NEW j \in Real(d)
      PROVE  Row([of |-> d, filled |-> filled], ptr, d)[j] = StoredRow(d, n + 1)[j]
  <2> DEFINE before == Widths(d, Real(d) \cap 1 .. j - 1)
             width == d.fields[j].width
  <2>1. before \in Nat /\ width \in Nat /\ before + width <= W
    BY RowLayout
  <2>2. Row([of |-> d, filled |-> filled], ptr, d)[j]
          = [of |-> d, at |-> ptr + before, whole |-> ptr + before + width <= filled]
    BY DEF Row, UnreadFields
  <2>3. StoredRow(d, n + 1)[j] = [of |-> d, whole |-> TRUE, at |-> ptr + before]
    BY <1>2, <1>3 DEF StoredRow
  <2> HIDE DEF W, ptr, before, width
  <2>4. ptr + before + width <= filled
    <3>1. (n + 1) * W \in Nat
      BY <1>1, <1>3
    <3>2. QED
      BY <1>1, <1>3, <1>4, <2>1, <3>1
  <2>5. QED
    BY <2>2, <2>3, <2>4
<1>6. Row([of |-> d, filled |-> filled], ptr, d) = StoredRow(d, n + 1)
  BY <1>5 DEF Row, StoredRow
<1>7. QED
  BY <1>3, <1>4, <1>6

-----------------------------------------------------------------------------
(* Requests for one dataset: the rows of a sequence                           *)

VariableSpace == [of : Datasets, type : {"sequence", "array"}]
StoredRows == {StoredRow(d, k) : d \in Datasets, k \in Nat}
Asked == containers[1]

Typed ==
    /\ containers \in Seq(Datasets) /\ queue \in Seq(Datasets)
    /\ todo \in Seq(VariableSpace)
    /\ rows \in Seq(StoredRows)
    /\ delivered \in Seq([of : Datasets, rows : Seq(StoredRows)])

Asking ==
    /\ pc # "idle" => containers # <<>> /\ outcome = "none"
    /\ pc = "build" => queue = containers /\ todo = <<>> /\ delivered = <<>>
    /\ pc # "respond" => rows = <<>>

Sending ==
    pc = "respond" =>
        /\ kind \in DataKinds /\ Asked.setup # "error"
        /\ todo # <<>>
        /\ \A i \in DOMAIN todo :
              /\ todo[i].of = Asked
              /\ todo[i].type = IF Asked.arrays = 0 THEN "sequence" ELSE "array"
        /\ Asked.arrays = 0 => Len(todo) = 1
        /\ Asked.arrays # 0 => rows = <<>>

\* The row cache before the first row of a sequence and after it
Unread == rows = <<>> /\ BufPtr = 0 /\ BufSiz = 0
Buffered ==
    /\ Asked.reads /\ Asked.listed
    /\ BufVal = [of |-> Asked, filled |-> BufSiz]
    /\ BufSiz = Records(Asked) * RowWidth(Asked)
    /\ BufPtr = Len(rows) * RowWidth(Asked) /\ BufPtr <= BufSiz
    /\ \A k \in DOMAIN rows : rows[k] = StoredRow(Asked, k)
Caching ==
    pc = "respond" /\ Asked.arrays = 0 => IF BufVal = None THEN Unread ELSE Buffered

Answering ==
    /\ \A i \in DOMAIN delivered :
          /\ containers # <<>> /\ delivered[i].of = Asked
          /\ Asked.arrays = 0 /\ Asked.listed => Len(delivered[i].rows) = Asked.rows
    /\ outcome = "sent" /\ kind \in DataKinds /\ containers # <<>> =>
          Asked.reads /\ Asked.setup # "error"

RInv == Typed /\ Asking /\ Sending /\ Caching /\ Answering

LEMMA OneAsked ==
  ASSUME containers \in Seq(Datasets), containers # <<>>, OneContainer
  PROVE  /\ Len(containers) = 1 /\ Asked \in Datasets
         /\ DOMAIN containers = {1} /\ Head(containers) = Asked /\ Tail(containers) = <<>>
<1> DEFINE s == containers
<1> HIDE DEF s
<1>1. s \in Seq(Datasets) /\ s # <<>> /\ Len(s) <= 1
  BY DEF OneContainer, s
<1>2. Len(s) = 1
  <2>1. 1 \in DOMAIN s
    BY <1>1, TailOf
  <2>2. DOMAIN s = 1 .. Len(s) /\ Len(s) \in Nat
    BY <1>1
  <2>3. 1 <= Len(s)
    BY <2>1, <2>2
  <2>4. QED
    BY <1>1, <2>2, <2>3
<1>3. s[1] \in Datasets /\ DOMAIN s = {1} /\ Head(s) = s[1] /\ Tail(s) = <<>>
  <2>1. DOMAIN s = 1 .. 1
    BY <1>1, <1>2
  <2>2. s[1] \in Datasets /\ Head(s) = s[1]
    BY <1>1, <1>2
  <2>3. Tail(s) \in Seq(Datasets) /\ Len(Tail(s)) = 0
    BY <1>1, <1>2
  <2>4. Tail(s) = <<>>
    BY <2>3, TailOf
  <2>5. QED
    BY <2>1, <2>2, <2>4
<1>4. QED
  BY <1>2, <1>3 DEF s, Asked

LEMMA RInvInit == Init => RInv
BY DEF Init, RInv, Typed, Asking, Sending, Caching, Answering

LEMMA RequestRows ==
  ASSUME NEW k \in Kinds, NEW cs \in Requests, RInv, Request(k, cs)
  PROVE  RInv'
<1>1. cs \in Seq(Datasets) /\ cs # <<>>
  BY DEF Requests, BoundedSeq, SeqOf
<1>2. /\ containers' = cs /\ queue' = cs /\ todo' = <<>> /\ pc' = "build"
      /\ outcome' = "none" /\ rows' = <<>> /\ delivered' = <<>>
  BY DEF Request
<1>3. QED
  BY <1>1, <1>2 DEF RInv, Typed, Asking, Sending, Caching, Answering

\* A request that has failed
LEMMA FailRows ==
  ASSUME NEW messages, RInv, rows = <<>>, Fail(messages), UNCHANGED queue
  PROVE  RInv'
<1>1. /\ pc' = "idle" /\ outcome' = "failed" /\ todo' = <<>>
      /\ UNCHANGED <<containers, queue, rows, delivered>>
  BY DEF Fail, request
<1>2. QED
  BY <1>1 DEF RInv, Typed, Asking, Sending, Caching, Answering, Asked

LEMMA BuildRows ==
  ASSUME RInv, OneContainer, Build
  PROVE  RInv'
<1> DEFINE d == Head(queue)
<1>1. /\ pc = "build" /\ queue = containers /\ todo = <<>> /\ delivered = <<>> /\ rows = <<>>
      /\ containers \in Seq(Datasets) /\ containers # <<>>
  BY DEF Build, RInv, Typed, Asking
<1>2. d = Asked /\ d \in Datasets /\ Tail(queue) = <<>>
  BY <1>1, OneAsked
<1>3. CASE d.setup = "error"
  BY <1>1, <1>3, FailRows DEF Build
<1>4. CASE d.setup # "error"
  <2>1. /\ queue' = <<>>
        /\ UNCHANGED <<containers, kind, rows, delivered>>
        /\ todo' = IF kind \in DataKinds THEN todo \o Variables(d) ELSE <<>>
        /\ IF todo' # <<>> THEN pc' = "respond" /\ UNCHANGED outcome
           ELSE pc' = "idle" /\ outcome' = "sent"
    BY <1>2, <1>4 DEF Build, request
  <2>2. CASE kind \notin DataKinds
    <3>1. todo' = <<>> /\ pc' = "idle"
      BY <2>1, <2>2
    <3>2. QED
      BY <1>1, <2>1, <2>2, <3>1 DEF RInv, Typed, Asking, Sending, Caching, Answering, Asked
  <2>3. CASE kind \in DataKinds
    <3> DEFINE v == Variables(d)
    <3>1. /\ v \in Seq(VariableSpace) /\ v # <<>>
          /\ d.arrays = 0 => Len(v) = 1
          /\ \A i \in DOMAIN v : /\ v[i].of = d
                                 /\ v[i].type = IF d.arrays = 0 THEN "sequence" ELSE "array"
      <4>1. d.arrays \in Nat
        BY <1>2, DatasetsAssumption DEF DatasetSpace
      <4> DEFINE table == [of |-> d, type |-> "sequence"]
                 array == [of |-> d, type |-> "array"]
                 n == d.arrays
      <4>2. /\ table \in VariableSpace /\ table.of = d /\ table.type = "sequence"
            /\ array \in VariableSpace /\ array.of = d /\ array.type = "array"
        BY <1>2 DEF VariableSpace
      <4>3. v = IF n = 0 THEN <<table>> ELSE [i \in 1 .. n |-> array]
        BY DEF Variables
      <4> HIDE DEF v, table, array, n, d
      <4>4. CASE n = 0
        <5>1. v = <<table>>
          BY <4>3, <4>4
        <5>2. v \in Seq(VariableSpace) /\ Len(v) = 1 /\ DOMAIN v = {1} /\ v[1] = table
          BY <4>2, <5>1
        <5>3. v # <<>>
          BY <5>2
        <5>4. d.arrays = 0 /\ \A i \in DOMAIN v : v[i] = table
          BY <4>4, <5>2 DEF n
        <5>5. QED
          BY <4>2, <5>2, <5>3, <5>4
      <4>5. CASE n # 0
        <5>1. v = [i \in 1 .. n |-> array]
          BY <4>3, <4>5
        <5>2. n \in Nat
          BY <4>1 DEF n
        <5>3. v \in Seq(VariableSpace) /\ Len(v) = n /\ DOMAIN v = 1 .. n
              /\ \A i \in 1 .. n : v[i] = array
          BY <4>2, <5>1, <5>2
        <5>4. QED
          BY <4>2, <4>5, <5>2, <5>3 DEF n
      <4>6. QED
        BY <4>4, <4>5
    <3> HIDE DEF v
    <3>2. todo' = v
      <4>1. todo' = <<>> \o v
        BY <1>1, <2>1, <2>3 DEF v
      <4>2. QED
        BY <3>1, <4>1
    <3>3. pc' = "respond" /\ outcome' = "none"
      BY <1>1, <2>1, <3>1, <3>2 DEF RInv, Asking
    <3>4. BufVal' = None /\ BufPtr' = 0 /\ BufSiz' = 0
      BY <2>3 DEF Build, StartCache
    <3>5. Asked' = d /\ Asked.setup # "error"
      BY <1>2, <1>4, <2>1 DEF Asked
    <3> HIDE DEF d
    <3>6. Typed'
      BY <1>1, <2>1, <3>1, <3>2 DEF RInv, Typed
    <3>7. Asking'
      BY <1>1, <2>1, <3>3 DEF Asking
    <3>8. Sending'
      BY <1>1, <1>2, <2>1, <2>3, <3>1, <3>2, <3>5 DEF Sending
    <3>9. Caching'
      BY <1>1, <2>1, <3>4 DEF Caching, Unread
    <3>10. Answering'
      BY <1>1, <2>1, <3>3 DEF Answering
    <3>11. QED
      BY <3>6, <3>7, <3>8, <3>9, <3>10 DEF RInv
  <2>4. QED
    BY <2>2, <2>3
<1>5. QED
  BY <1>3, <1>4

\* The variable that is being sent
LEMMA AtVariable ==
  ASSUME RInv, OneContainer, pc = "respond"
  PROVE  /\ containers # <<>> /\ Asked \in Datasets /\ Dataset = Asked
         /\ todo # <<>> /\ Tail(todo) \in Seq(VariableSpace)
         /\ Variable.type = IF Asked.arrays = 0 THEN "sequence" ELSE "array"
<1>1. containers # <<>> /\ todo # <<>> /\ todo \in Seq(VariableSpace)
  BY DEF RInv, Typed, Asking, Sending
<1>2. Head(todo) = todo[1] /\ 1 \in DOMAIN todo /\ Tail(todo) \in Seq(VariableSpace)
  BY <1>1, TailOf
<1>3. Asked \in Datasets
  BY <1>1, OneAsked DEF RInv, Typed
<1>4. QED
  BY <1>1, <1>2, <1>3 DEF Dataset, Variable, RInv, Sending

LEMMA SentRows ==
  ASSUME NEW values \in Seq(StoredRows), RInv, OneContainer, pc = "respond",
         Asked.arrays = 0 /\ Asked.listed => Len(values) = Asked.rows,
         Asked.reads, Sent(values)
  PROVE  RInv'
<1>1. /\ containers # <<>> /\ Asked \in Datasets /\ Dataset = Asked /\ todo # <<>>
      /\ Tail(todo) \in Seq(VariableSpace)
  BY AtVariable
<1>2. /\ delivered' = Append(delivered, [of |-> Asked, rows |-> values])
      /\ todo' = Tail(todo) /\ rows' = <<>>
      /\ IF todo' = <<>> THEN pc' = "idle" /\ outcome' = "sent"
         ELSE UNCHANGED <<pc, outcome>>
      /\ UNCHANGED <<containers, kind, queue>>
  BY <1>1 DEF Sent, request
<1>3. Asked' = Asked
  BY <1>2 DEF Asked
<1>4. /\ delivered' \in Seq([of : Datasets, rows : Seq(StoredRows)])
      /\ \A i \in DOMAIN delivered' :
            \/ i \in DOMAIN delivered /\ delivered'[i] = delivered[i]
            \/ delivered'[i].of = Asked /\ delivered'[i].rows = values
  <2> DEFINE x == [of |-> Asked, rows |-> values]
             X == [of : Datasets, rows : Seq(StoredRows)]
  <2>1. x \in X /\ x.of = Asked /\ x.rows = values
    BY <1>1
  <2>2. delivered \in Seq(X) /\ delivered' = Append(delivered, x)
    BY <1>2 DEF RInv, Typed
  <2> HIDE DEF x, X
  <2>3. /\ delivered' \in Seq(X)
        /\ \A i \in DOMAIN delivered' :
              \/ i \in DOMAIN delivered /\ delivered'[i] = delivered[i]
              \/ delivered'[i] = x
    BY <2>1, <2>2
  <2>4. QED
    BY <2>1, <2>3 DEF X
<1>5. Typed'
  BY <1>1, <1>2, <1>4 DEF RInv, Typed
<1>6. Asking'
  BY <1>2 DEF RInv, Asking
<1>7. Asked.arrays = 0 => todo' = <<>>
  <2>1. ASSUME Asked.arrays = 0, todo' # <<>>
        PROVE  FALSE
    <3>1. Len(todo) = 1 /\ todo \in Seq(VariableSpace)
      BY <2>1 DEF RInv, Typed, Sending
    <3>2. Len(Tail(todo)) = 0
      BY <1>1, <3>1
    <3>3. 1 \in DOMAIN Tail(todo)
      BY <1>1, <1>2, <2>1, TailOf
    <3> DEFINE t == Tail(todo)
    <3>4. DOMAIN t = 1 .. Len(t)
      BY <1>1
    <3> HIDE DEF t
    <3>5. Len(t) = 0 /\ 1 \in DOMAIN t
      BY <3>2, <3>3 DEF t
    <3>6. QED
      BY <3>4, <3>5
  <2>2. QED
    BY <2>1
<1>8. Sending'
  <2>1. \A i \in DOMAIN Tail(todo) : i + 1 \in DOMAIN todo /\ Tail(todo)[i] = todo[i + 1]
    BY <1>1, TailOf DEF RInv, Typed
  <2>2. QED
    BY <1>2, <1>3, <1>7, <2>1 DEF RInv, Sending
<1>9. Caching'
  BY <1>2, <1>3, <1>7 DEF Caching
<1>10. Answering'
  BY <1>2, <1>3, <1>4 DEF RInv, Answering, Sending, Asking
<1>11. QED
  BY <1>5, <1>6, <1>8, <1>9, <1>10 DEF RInv

Messages == round \in Nat /\ errorList \in Seq(Nat)

LEMMA TimesOf ==
  ASSUME round \in Nat, NEW n \in Nat
  PROVE  Times(n) \in Seq(Nat) /\ Len(Times(n)) = n
BY DEF Times

LEMMA MessagesOf ==
  ASSUME round \in Nat, NEW d \in Datasets
  PROVE  /\ SetUpCount(d) \in Nat /\ SetUpMessages(d) \in Seq(Nat)
         /\ ~ d.reads => NewformMessages(d) \in Seq(Nat) /\ Len(NewformMessages(d)) >= 2
<1>1. SetUpCount(d) \in Nat
  BY DatasetsAssumption DEF DatasetSpace, SetUps, SetUpCount
<1>2. SetUpMessages(d) \in Seq(Nat)
  BY <1>1, TimesOf DEF SetUpMessages
<1>3. Times(2) \in Seq(Nat) /\ Len(Times(2)) = 2
  BY TimesOf
<1>4. ASSUME ~ d.reads
      PROVE  NewformMessages(d) \in Seq(Nat) /\ Len(NewformMessages(d)) >= 2
  <2> DEFINE s == SetUpMessages(d)
             t == Times(2)
  <2>1. NewformMessages(d) = s \o t
    BY <1>4 DEF NewformMessages
  <2>2. s \in Seq(Nat) /\ t \in Seq(Nat)
    BY <1>2, <1>3
  <2>3. Len(t) = 2
    BY <1>3
  <2> HIDE DEF s, t
  <2>4. s \o t \in Seq(Nat) /\ Len(s \o t) = Len(s) + Len(t) /\ Len(s) \in Nat
    BY <2>2
  <2>5. QED
    BY <2>1, <2>3, <2>4
<1>5. QED
  BY <1>1, <1>2, <1>4

\* Where newform fails on a dataset, a read of it throws.
LEMMA ReadsQuietly ==
  ASSUME round \in Nat, NEW d \in Datasets, NEW list \in Seq(Nat), ~ Raises(d, list)
  PROVE  d.reads
<1> SUFFICES ASSUME ~ d.reads PROVE FALSE
  OBVIOUS
<1> DEFINE s == NewformMessages(d)
<1>1. s \in Seq(Nat) /\ Len(s) >= 2
  BY MessagesOf
<1>2. list \o s = <<>>
  BY DEF Raises
<1> HIDE DEF s
<1>3. Len(list \o s) = Len(list) + Len(s) /\ Len(list) \in Nat
  BY <1>1
<1>4. Len(list \o s) >= 2
  BY <1>1, <1>3
<1>5. Len(list \o s) = 0
  BY <1>2
<1>6. QED
  BY <1>4, <1>5

LEMMA MessagesStep ==
  ASSUME RInv, Messages, OneContainer, [Next]_vars
  PROVE  Messages'
<1>1. ASSUME NEW k \in Kinds, NEW cs \in Requests, Request(k, cs)
      PROVE  Messages'
  BY <1>1 DEF Request, Messages
<1>2. ASSUME NEW n \in Nat, errorList' = errorList \o Times(n), round' = round
      PROVE  Messages'
  <2> DEFINE t == Times(n)
  <2>1. t \in Seq(Nat)
    BY TimesOf DEF Messages
  <2> HIDE DEF t
  <2>2. errorList \o t \in Seq(Nat)
    BY <2>1 DEF Messages
  <2>3. QED
    BY <1>2, <2>2 DEF Messages, t
<1>3. CASE Build
  <2> DEFINE d == Head(queue)
  <2>1. d \in Datasets
    BY <1>3, OneAsked DEF Build, RInv, Typed, Asking
  <2>2. SetUpCount(d) \in Nat /\ SetUpCalls * SetUpCount(d) \in Nat
    BY <2>1, MessagesOf DEF Messages, SetUpCalls
  <2>3. round' = round
    BY <1>3 DEF Build, Fail, request
  <2>4. \/ errorList' = errorList \o Times(SetUpCount(d))
        \/ errorList' = errorList \o Times(SetUpCalls * SetUpCount(d))
    BY <1>3 DEF Build, SetUpMessages
  <2>5. QED
    BY <1>2, <2>2, <2>3, <2>4
<1>4. CASE RecordsUnknown
  BY <1>2, <1>4 DEF RecordsUnknown, Sent, request
<1>5. CASE ReadArray \/ EndOfSequence \/ FirstRow \/ NextRow
  <2>1. round' = round /\ (errorList' = errorList \/ errorList' = <<>>)
    BY <1>5 DEF ReadArray, EndOfSequence, FirstRow, NextRow, ReadFails, Fail, Pulled, Sent,
                ReadRow, request
  <2>2. <<>> \in Seq(Nat)
    OBVIOUS
  <2>3. round' \in Nat /\ errorList' \in Seq(Nat)
    BY <2>1, <2>2 DEF Messages
  <2>4. QED
    BY <2>3 DEF Messages
<1>6. CASE UNCHANGED vars
  BY <1>6 DEF vars, request, Messages
<1>7. CASE Quiet
  BY <1>6, <1>7 DEF Quiet
<1>8. QED
  BY <1>1, <1>3, <1>4, <1>5, <1>6, <1>7 DEF Next, Respond

\* The next row of the dataset from a cache that holds all of its rows
LEMMA StepRow ==
  ASSUME RInv, OneContainer, pc = "respond", Asked.arrays = 0,
         Asked.reads, Asked.listed, Served(Asked),
         NEW ptr, ptr = Len(rows) * RowWidth(Asked),
         \A k \in DOMAIN rows : rows[k] = StoredRow(Asked, k),
         BufSiz' = Records(Asked) * RowWidth(Asked),
         ptr < BufSiz' \/ BufSiz' = 0,
         BufVal' = [of |-> Asked, filled |-> BufSiz'],
         ReadRow([of |-> Asked, filled |-> BufSiz'], ptr)
  PROVE  RInv'
<1> DEFINE d == Asked
           n == Len(rows)
           W == RowWidth(d)
           new == StoredRow(d, n + 1)
<1>1. /\ containers # <<>> /\ d \in Datasets /\ Dataset = d
  BY AtVariable
<1>2. rows \in Seq(StoredRows) /\ n \in Nat /\ DOMAIN rows = 1 .. n
  BY DEF RInv, Typed
<1>3. Records(d) \in Nat \ {0}
  BY <1>1, DatasetsAssumption DEF Records, Served, DatasetSpace
<1>4. W = Widths(d, UnreadFields(d))
  BY DEF RowWidth, FormatFields, UnreadFields
<1>5. /\ UNCHANGED <<pc, containers, kind, queue, todo, delivered, outcome>>
      /\ rows' = Append(rows, Row([of |-> d, filled |-> BufSiz'], ptr, d))
      /\ BufPtr' = ptr + W
  BY <1>1, <1>4 DEF ReadRow, request
<1>6. /\ Row([of |-> d, filled |-> BufSiz'], ptr, d) = new
      /\ ptr + W = (n + 1) * W /\ (n + 1) * W <= BufSiz'
  <2> DEFINE filled == BufSiz'
             m == Records(d)
  <2>1. filled = m * RowWidth(d) /\ (n * RowWidth(d) < filled \/ filled = 0)
    OBVIOUS
  <2> HIDE DEF filled, m, n, d
  <2>2. m \in Nat \ {0} /\ n \in Nat /\ d \in Datasets
    BY <1>1, <1>2, <1>3 DEF m
  <2>3. /\ Row([of |-> d, filled |-> filled], n * RowWidth(d), d) = StoredRow(d, n + 1)
        /\ n * RowWidth(d) + RowWidth(d) = (n + 1) * RowWidth(d)
        /\ (n + 1) * RowWidth(d) <= filled
    BY <2>1, <2>2, NextStored, SMTT(30)
  <2>4. ptr = n * RowWidth(d)
    BY DEF n, d
  <2>5. QED
    BY <2>3, <2>4 DEF filled
<1>7. Asked' = d
  BY <1>5 DEF Asked
<1>8. new \in StoredRows
  BY <1>1, <1>2 DEF StoredRows
<1> HIDE DEF d, n, W, new
<1>9. /\ rows' \in Seq(StoredRows) /\ Len(rows') = n + 1
      /\ DOMAIN rows' = 1 .. n + 1 /\ rows'[n + 1] = new
      /\ \A k \in 1 .. n : rows'[k] = rows[k]
  BY <1>2, <1>5, <1>6, <1>8 DEF n
<1>10. Typed'
  BY <1>5, <1>9 DEF RInv, Typed
<1>11. Asking' /\ Answering'
  BY <1>5, <1>7 DEF RInv, Asking, Answering, d
<1>12. Sending'
  BY <1>5, <1>7 DEF RInv, Sending, d
<1>13. BufVal' # None
  <2>1. DOMAIN None = {"of"} /\ "filled" \in DOMAIN BufVal'
    BY DEF None
  <2>2. QED
    BY <2>1
<1>14. \A k \in DOMAIN rows' : rows'[k] = StoredRow(d, k)
  BY <1>2, <1>9 DEF d, new
<1>15. Caching'
  <2>1. BufPtr' = Len(rows') * RowWidth(d) /\ BufPtr' <= BufSiz'
    BY <1>5, <1>6, <1>9 DEF W
  <2>2. BufVal' = [of |-> d, filled |-> BufSiz'] /\ BufSiz' = Records(d) * RowWidth(d)
        /\ d.reads /\ d.listed
    BY DEF d
  <2>3. QED
    BY <1>7, <1>13, <1>14, <2>1, <2>2 DEF Caching, Buffered
<1>16. QED
  BY <1>10, <1>11, <1>12, <1>15 DEF RInv

LEMMA RespondRows ==
  ASSUME RInv, Messages, OneContainer, pc = "respond", Served(Asked), Respond
  PROVE  RInv'
<1> DEFINE d == Asked
<1>1. /\ d \in Datasets /\ Dataset = d
      /\ Variable.type = IF d.arrays = 0 THEN "sequence" ELSE "array"
  BY AtVariable
<1>2. rows \in Seq(StoredRows) /\ d.rows \in Nat /\ d.setup # "error"
  BY <1>1, DatasetsAssumption DEF RInv, Typed, Sending, DatasetSpace
<1>3. CASE ReadArray
  <2>1. d.arrays # 0
    BY <1>1, <1>3 DEF ReadArray
  <2>2. CASE ReadFails(Dataset, errorList) /\ UNCHANGED queue
    <3>1. rows = <<>>
      BY <2>1 DEF RInv, Sending
    <3>2. QED
      BY <2>2, <3>1, FailRows DEF ReadFails
  <2>3. CASE ~ Raises(Dataset, errorList) /\ Sent(<<>>)
    <3>1. d.reads
      BY <1>1, <2>3, ReadsQuietly DEF Messages
    <3>2. <<>> \in Seq(StoredRows)
      OBVIOUS
    <3>3. QED
      BY <2>1, <2>3, <3>1, <3>2, SentRows
  <2>4. QED
    BY <1>3, <2>2, <2>3 DEF ReadArray
<1>4. ASSUME d.arrays = 0
      PROVE  IF BufVal = None THEN Unread ELSE Buffered
  BY <1>4 DEF RInv, Caching
<1>5. CASE EndOfSequence
  <2>1. d.arrays = 0 /\ BufSiz # 0 /\ BufPtr >= BufSiz /\ Sent(rows)
    BY <1>1, <1>5 DEF EndOfSequence, Reading, AtEnd
  <2>2. Buffered
    BY <1>4, <2>1 DEF Unread
  <2>3. Len(rows) = d.rows
    <3> DEFINE n == Len(rows)
               W == RowWidth(d)
    <3>1. n \in Nat /\ W \in Nat /\ d.rows # 0 /\ Records(d) = d.rows
      BY <1>1, <1>2, <2>1, <2>2, RowLayout DEF Buffered, Served, Records
    <3>2. BufSiz = d.rows * W /\ BufPtr = n * W /\ BufPtr <= BufSiz
      BY <2>2, <3>1 DEF Buffered
    <3> HIDE DEF n, W
    <3>3. d.rows * W \in Nat /\ n * W \in Nat
      BY <1>2, <3>1, SMTT(30)
    <3>4. n * W = d.rows * W /\ d.rows * W # 0
      BY <2>1, <3>2, <3>3
    <3>5. W # 0
      BY <1>2, <3>1, <3>4, SMTT(30)
    <3>6. n = d.rows
      <4>1. n < d.rows => n * W < d.rows * W
        BY <1>2, <3>1, <3>5, SMTT(30)
      <4>2. d.rows < n => d.rows * W < n * W
        BY <1>2, <3>1, <3>5, SMTT(30)
      <4>3. QED
        BY <1>2, <3>1, <3>3, <3>4, <4>1, <4>2
    <3>7. QED
      BY <3>6 DEF n
  <2>4. QED
    BY <1>2, <2>1, <2>2, <2>3, SentRows DEF Buffered
<1>6. CASE RecordsUnknown
  <2>1. ~ d.listed /\ Sent(rows)
    BY <1>1, <1>2, <1>6 DEF RecordsUnknown, Records
  <2>2. d.reads
    BY <2>1 DEF Served
  <2>3. QED
    BY <1>2, <2>1, <2>2, SentRows
<1>7. CASE FirstRow
  <2> DEFINE list == errorList \o SetUpMessages(Dataset)
             size == Records(Dataset) * RowWidth(Dataset)
  <2>1. /\ d.arrays = 0 /\ BufVal = None /\ Records(d) # -1
        /\ BufSiz' = size
        /\ \/ ReadFails(Dataset, list) /\ UNCHANGED queue
           \/ /\ ~ Raises(Dataset, list)
              /\ BufVal' = [of |-> Dataset, filled |-> size]
              /\ ReadRow(BufVal', BufPtr)
    BY <1>1, <1>7 DEF FirstRow, Reading
  <2>2. Unread
    BY <1>4, <2>1
  <2>3. CASE ReadFails(Dataset, list) /\ UNCHANGED queue
    BY <2>2, <2>3, FailRows DEF ReadFails, Unread
  <2>4. CASE /\ ~ Raises(Dataset, list)
             /\ BufVal' = [of |-> Dataset, filled |-> size]
             /\ ReadRow(BufVal', BufPtr)
    <3>1. d.reads /\ d.listed
      <4>1. d.reads
        <5> HIDE DEF d, list
        <5>1. list \in Seq(Nat)
          <6> DEFINE m == SetUpMessages(Dataset)
          <6>1. m \in Seq(Nat)
            BY <1>1, MessagesOf DEF Messages, d
          <6> HIDE DEF m
          <6>2. QED
            BY <6>1 DEF Messages, list, m
        <5>2. QED
          BY <1>1, <2>4, <5>1, ReadsQuietly DEF Messages
      <4>2. d.listed
        BY <2>1 DEF Records
      <4>3. QED
        BY <4>1, <4>2
    <3>2. BufVal' = [of |-> d, filled |-> BufSiz'] /\ BufSiz' = Records(d) * RowWidth(d)
      BY <1>1, <2>1, <2>4
    <3>3. /\ BufPtr = Len(rows) * RowWidth(d) /\ BufPtr = 0
          /\ \A k \in DOMAIN rows : rows[k] = StoredRow(d, k)
      <4>1. rows = <<>> /\ Len(rows) = 0 /\ BufPtr = 0
        BY <2>2 DEF Unread
      <4>2. RowWidth(d) \in Nat
        BY <1>1, RowLayout
      <4>3. 0 = 0 * RowWidth(d)
        BY <4>2
      <4>4. QED
        BY <4>1, <4>3
    <3>4. 0 < BufSiz' \/ BufSiz' = 0
      <4>1. RowWidth(d) \in Nat /\ Records(d) \in Nat
        BY <1>1, <1>2, <2>1, RowLayout DEF Records
      <4>2. Records(d) * RowWidth(d) \in Nat
        BY <4>1, SMTT(30)
      <4>3. QED
        BY <3>2, <4>2
    <3>5. ReadRow([of |-> d, filled |-> BufSiz'], BufPtr)
      BY <2>4, <3>2
    <3> HIDE DEF size, list
    <3>6. QED
      BY <2>1, <3>1, <3>2, <3>3, <3>4, <3>5, StepRow
  <2>5. QED
    BY <2>1, <2>3, <2>4
<1>8. CASE NextRow
  <2>1. /\ d.arrays = 0 /\ BufVal # None /\ ~ AtEnd
        /\ ReadRow(BufVal, BufPtr) /\ UNCHANGED <<BufVal, BufSiz>>
    BY <1>1, <1>8 DEF NextRow, Reading
  <2>2. Buffered
    BY <1>4, <2>1
  <2>3. BufPtr < BufSiz' \/ BufSiz' = 0
    <3>1. BufPtr \in Nat /\ BufSiz \in Nat
      <4>1. RowWidth(d) \in Nat /\ Records(d) \in Nat /\ Len(rows) \in Nat
        BY <1>1, <1>2, <2>2, RowLayout DEF Records, Buffered
      <4>2. Records(d) * RowWidth(d) \in Nat /\ Len(rows) * RowWidth(d) \in Nat
        BY <4>1, SMTT(30)
      <4>3. QED
        BY <2>2, <4>2 DEF Buffered
    <3>2. QED
      BY <2>1, <3>1 DEF AtEnd
  <2>4. QED
    BY <2>1, <2>2, <2>3, StepRow DEF Buffered
<1>9. QED
  BY <1>3, <1>5, <1>6, <1>7, <1>8 DEF Respond

LEMMA RInvStep ==
  ASSUME \A d \in Datasets : Served(d), RInv, Messages, OneContainer, [Next]_vars
  PROVE  RInv'
<1>1. ASSUME NEW k \in Kinds, NEW cs \in Requests, Request(k, cs)
      PROVE  RInv'
  BY <1>1, RequestRows
<1>2. CASE Build
  BY <1>2, BuildRows
<1>3. CASE Respond
  <2>1. pc = "respond"
    BY <1>3 DEF Respond, ReadArray, EndOfSequence, RecordsUnknown, FirstRow, NextRow,
                Reading
  <2>2. Served(Asked)
    BY <2>1, AtVariable
  <2>3. QED
    BY <1>3, <2>1, <2>2, RespondRows
<1>4. CASE UNCHANGED vars
  BY <1>4 DEF vars, request, cache, RInv, Typed, Asking, Sending, Caching, Answering,
              Unread, Buffered, Asked
<1>5. CASE Quiet
  BY <1>4, <1>5 DEF Quiet
<1>6. QED
  BY <1>1, <1>2, <1>3, <1>4, <1>5 DEF Next

\* Where each request names one dataset, every row of a sequence that has been
\* sent is the row of its file that is next, each field from its own bytes,
\* whatever the process has answered before: BufPtr begins anew.
THEOREM RowsFromTheirPlaces ==
  ASSUME \A d \in Datasets : Served(d)
  PROVE  Spec /\ []OneContainer => []RowsInOrder
<1>1. Init => RInv /\ Messages
  BY RInvInit DEF Init, Messages
<1>2. RInv /\ Messages /\ OneContainer /\ [Next]_vars => RInv' /\ Messages'
  BY RInvStep, MessagesStep
<1>3. RInv /\ OneContainer => RowsInOrder
  <2> SUFFICES ASSUME RInv, OneContainer PROVE RowsInOrder
    OBVIOUS
  <2>1. rows \in Seq(StoredRows)
    BY DEF RInv, Typed
  <2> DEFINE e == IF todo = <<>> THEN Last(containers) ELSE Dataset
  <2>2. \A k \in DOMAIN rows : rows[k] = StoredRow(e, k)
    <3>1. CASE rows = <<>>
      BY <3>1
    <3>2. CASE rows # <<>>
      <4>1. pc = "respond" /\ Asked.arrays = 0
        BY <3>2 DEF RInv, Asking, Sending
      <4>2. todo # <<>> /\ Dataset = Asked
        BY <4>1, AtVariable
      <4>3. Buffered
        BY <3>2, <4>1 DEF RInv, Caching, Unread
      <4>4. QED
        BY <4>2, <4>3 DEF Buffered
    <3>3. QED
      BY <3>1, <3>2
  <2> HIDE DEF e
  <2>3. rows = [k \in 1 .. Len(rows) |-> StoredRow(e, k)]
    BY <2>1, <2>2
  <2>4. QED
    BY <2>3 DEF RowsInOrder, e
<1>4. QED
  BY <1>1, <1>2, <1>3, PTL DEF Spec

\* Of such requests, none for data ends well unless all of it could be read, no
\* sequence is told to be sent that lacks a row, and the row cache stands at
\* the start of a row whenever one is asked for.
THEOREM NothingMissing ==
  ASSUME \A d \in Datasets : Served(d)
  PROVE  Spec /\ []OneContainer => []Honest
<1>1. Init => RInv /\ Messages
  BY RInvInit DEF Init, Messages
<1>2. RInv /\ Messages /\ OneContainer /\ [Next]_vars => RInv' /\ Messages'
  BY RInvStep, MessagesStep
<1>3. RInv /\ OneContainer => Honest
  <2> SUFFICES ASSUME RInv, OneContainer PROVE Honest
    OBVIOUS
  <2>1. AllRows
    BY DEF AllRows, RInv, Answering
  <2>2. WholeRows
    <3> SUFFICES ASSUME Reading, BufVal # None
                 PROVE  /\ BufPtr = Len(rows) * Widths(Dataset, Real(Dataset))
                        /\ BufPtr <= BufSiz
      BY DEF WholeRows
    <3>1. Dataset = Asked /\ Asked.arrays = 0
      BY AtVariable DEF Reading
    <3>2. Buffered
      BY <3>1 DEF RInv, Caching, Reading
    <3>3. QED
      BY <3>1, <3>2 DEF Buffered, RowWidth, FormatFields
  <2>3. FailureTold
    <3> SUFFICES ASSUME outcome = "sent", kind \in DataKinds, NEW i \in DOMAIN containers
                 PROVE  containers[i].reads /\ containers[i].setup # "error"
      BY DEF FailureTold
    <3>1. containers \in Seq(Datasets) /\ containers # <<>>
      BY DEF RInv, Typed
    <3>2. i = 1
      BY <3>1, OneAsked
    <3>3. QED
      BY <3>1, <3>2 DEF RInv, Answering, Asked
  <2>4. QED
    BY <2>1, <2>2, <2>3 DEF Honest
<1>4. QED
  BY <1>1, <1>2, <1>3, PTL DEF Spec
=============================================================================
