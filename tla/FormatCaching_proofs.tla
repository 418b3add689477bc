------------------------ MODULE FormatCaching_proofs ------------------------
(* Theorems about FormatCaching for every set of conversions, every number of *)
(* conduits and every file length; and, of conversions without record headers *)
(* to a file, that every record arrives, once, in order and at its place.     *)
EXTENDS FormatCaching, FiniteSetTheorems, NaturalsInduction, WellFoundedInduction, TLAPS

\* Products of file and record counts stay natural numbers.
LEMMA NatProduct == \A a, b \in Nat : a * b \in Nat
  BY SMT

LEMMA PinfoEnds == \A c \in Conduit : In(c) \in Pinfo /\ Out(c) \in Pinfo
  BY DEF In, Out, Pinfo

\* What the assumptions say of the conversion under way.
LEMMA JobTyped ==
  ASSUME job \in JobSpace
  PROVE  /\ job.recl \in [Pinfo -> Nat \ {0}]
         /\ job.start \in [Pinfo -> Nat]
         /\ job.size \in [Conduit -> Nat]
         /\ job.cache \in [Conduit -> Nat \ {0}]
         /\ job.kind \in [Conduit -> Kinds]
         /\ job.ends \in SUBSET Pinfo
         /\ job.eof \in [Conduit -> 0 .. MaxOffset]
         /\ job.count \in [0 .. MaxOffset -> Int]
         /\ job.tableCount \in Int
  BY DEF JobSpace

LEMMA HeaderOfTyped ==
  ASSUME NEW side, RecHeader(side) # {}
  PROVE  HeaderOf(side) \in Conduit
  BY DEF RecHeader, HeaderOf

LEMMA RecordCountTyped ==
  ASSUME TypeOK
  PROVE  RecordCount \subseteq Int
<1>1. job.count \in [0 .. MaxOffset -> Int] /\ job.tableCount \in Int
  BY JobTyped DEF TypeOK
<1>2. RecHeader("in") # {} => buffer[In(HeaderOf("in"))] \subseteq 0 .. MaxOffset
  BY HeaderOfTyped, PinfoEnds DEF TypeOK
<1>3. QED
  BY <1>1, <1>2 DEF RecordCount

LEMMA PositionInt ==
  ASSUME TypeOK, NEW p \in Pinfo, NEW m, NEW i \in Int,
         m.left \in [Pinfo -> Int], m.mapped \in [Pinfo -> Nat],
         m.offset \in [Pinfo -> Nat]
  PROVE  Position(p, m, i) \in Int
<1>1. job.recl[p] \in Int
  BY JobTyped DEF TypeOK
<1>2. \A a, b \in Int : a * b \in Int
  BY SMT
<1>3. m.mapped[p] - m.left[p] + i \in Int /\ m.offset[p] \in Int
  OBVIOUS
<1>4. (m.mapped[p] - m.left[p] + i) * job.recl[p] \in Int
  BY <1>1, <1>2, <1>3
<1>5. QED
  BY <1>3, <1>4 DEF Position

Mapping == [left : [Pinfo -> Int], mapped : [Pinfo -> Nat], offset : [Pinfo -> Nat]]

LEMMA RemapTyped ==
  ASSUME TypeOK, NEW c \in Conduit, NEW n \in Nat,
         NEW o \in [Pinfo -> Nat]
  PROVE  Remap(c, n, o) \in Mapping
  BY DEF Remap, Mapping, TypeOK


\* The part of TypeOK that the mapping of a pinfo needs.
LEMMA SetMapTyped ==
  ASSUME NEW m \in Mapping, SetMap(m)
  PROVE  /\ left' \in [Pinfo -> Int]
         /\ mapped' \in [Pinfo -> Nat]
         /\ offset' \in [Pinfo -> Nat]
  BY DEF SetMap, Mapping

LEMMA CurrentMapTyped ==
  ASSUME TypeOK
  PROVE  CurrentMap \in Mapping
  BY DEF CurrentMap, Mapping, TypeOK

LEMMA NextBlockTyped ==
  ASSUME TypeOK, at \in Conduit, RecHeader("in") # {}, NEW n \in Nat
  PROVE  NextBlock(n) \in Mapping
<1> DEFINE d == In(at)
           h == In(HeaderOf("in"))
<1>1. d \in Pinfo /\ h \in Pinfo
  BY HeaderOfTyped, PinfoEnds
<1>2. offset \in [Pinfo -> Nat] /\ mapped \in [Pinfo -> Nat] /\ job.recl \in [Pinfo -> Nat]
  BY JobTyped DEF TypeOK
<1>3. mapped[d] * job.recl[d] \in Nat /\ n * job.recl[d] \in Nat
  BY <1>1, <1>2, NatProduct
<1>4. offset[h] + job.recl[h] \in Nat /\ offset[d] + mapped[d] * job.recl[d] \in Nat
      /\ offset[h] + job.recl[h] + n * job.recl[d] \in Nat
      /\ offset[h] \in Nat /\ job.recl[h] \in Nat
  BY <1>1, <1>2, <1>3
<1>5. [offset EXCEPT ![d] = @ + mapped[d] * job.recl[d], ![h] = @ + job.recl[h]]
        \in [Pinfo -> Nat]
  BY <1>1, <1>2, <1>3, <1>4
<1>6. [offset EXCEPT ![d] = offset[h] + job.recl[h],
                     ![h] = @ + job.recl[h] + n * job.recl[d]] \in [Pinfo -> Nat]
  BY <1>1, <1>2, <1>3, <1>4
<1>7. QED
  BY <1>5, <1>6, RemapTyped DEF NextBlock

LEMMA DataMapsTyped ==
  ASSUME TypeOK, at \in Conduit
  PROVE  DataMaps \subseteq Mapping
<1>1. RecHeader("in") # {} =>
        {NextBlock(n) : n \in {k \in RecordCount : k > 0}} \subseteq Mapping
  BY NextBlockTyped, RecordCountTyped
<1>2. QED
  BY <1>1, CurrentMapTyped DEF DataMaps


-----------------------------------------------------------------------------
(* Type correctness: one lemma for each pass, one step for each action        *)

LEMMA InitTyped == Init => TypeOK
<1> SUFFICES ASSUME Init PROVE TypeOK
  OBVIOUS
<1>1. job \in JobSpace
  BY JobsAssumption DEF Init
<1>2. job.size \in [Conduit -> Nat] /\ job.start \in [Pinfo -> Nat]
  BY <1>1, JobTyped
<1>3. \A p \in Pinfo : p[2] \in Conduit
  BY DEF Pinfo
<1>4. mapped \in [Pinfo -> Nat]
  BY <1>2, <1>3 DEF Init
<1>5. left \in [Pinfo -> Int] /\ offset \in [Pinfo -> Nat]
  BY <1>2, <1>4 DEF Init
<1>6. /\ newRecord \in [Pinfo -> BOOLEAN] /\ locked \in [Pinfo -> BOOLEAN]
      /\ arrayDone \in [Pinfo -> BOOLEAN] /\ doneReading \in BOOLEAN
  BY DEF Init
<1>7. buffer \in [Pinfo -> SUBSET (0 .. MaxOffset)]
  BY DEF Init
<1>8. at \in 1 .. NumConduits + 1
  BY NumConduitsAssumption DEF Init
<1>9. QED
  BY <1>1, <1>4, <1>5, <1>6, <1>7, <1>8 DEF Init, TypeOK, Errors

LEMMA AtTyped ==
  ASSUME TypeOK, at \in Conduit
  PROVE  at + 1 \in 1 .. NumConduits + 1
  BY NumConduitsAssumption DEF Conduit

LEMMA UnlockTyped ==
  ASSUME TypeOK, NEW p, NEW b \in BOOLEAN, Unlock(p, b)
  PROVE  locked' \in [Pinfo -> BOOLEAN] /\ newRecord' \in [Pinfo -> BOOLEAN]
  BY DEF TypeOK, Unlock

LEMMA ChunkTyped ==
  ASSUME NEW p, NEW m, NEW n
  PROVE  Chunk(p, m, n) \in SUBSET (0 .. MaxOffset)
  BY DEF Chunk

LEMMA PassByTyped ==
  ASSUME TypeOK, at \in Conduit, PassBy
  PROVE  TypeOK'
<1>1. locked' \in [Pinfo -> BOOLEAN] /\ newRecord' \in [Pinfo -> BOOLEAN]
  BY UnlockTyped DEF PassBy
<1>2. QED
  BY <1>1, AtTyped DEF PassBy, Advance, TypeOK, mapping

LEMMA FailTyped ==
  ASSUME TypeOK, NEW e \in Errors, Fail(e),
         left' \in [Pinfo -> Int], mapped' \in [Pinfo -> Nat],
         offset' \in [Pinfo -> Nat], arrayDone' \in [Pinfo -> BOOLEAN]
  PROVE  TypeOK'
<1>1. locked' \in [Pinfo -> BOOLEAN] /\ newRecord' \in [Pinfo -> BOOLEAN]
  BY UnlockTyped DEF Fail
<1>2. QED
  BY <1>1 DEF Fail, Return, TypeOK

\* A cache has been filled: all that is left to type is what was put in it
LEMMA FilledTyped ==
  ASSUME TypeOK, at \in Conduit, NEW p, Unlock(p, TRUE), Advance("read"),
         left' \in [Pinfo -> Int], mapped' \in [Pinfo -> Nat],
         offset' \in [Pinfo -> Nat], arrayDone' \in [Pinfo -> BOOLEAN],
         NEW m, NEW n, buffer' = [buffer EXCEPT ![p] = Chunk(p, m, n)],
         UNCHANGED disk
  PROVE  TypeOK'
<1>1. locked' \in [Pinfo -> BOOLEAN] /\ newRecord' \in [Pinfo -> BOOLEAN]
  BY UnlockTyped
<1>2. buffer' \in [Pinfo -> SUBSET (0 .. MaxOffset)]
  BY ChunkTyped DEF TypeOK
<1>3. QED
  BY <1>1, <1>2, AtTyped DEF Advance, TypeOK

LEMMA FillFileHeaderTyped ==
  ASSUME TypeOK, FillFileHeader
  PROVE  TypeOK'
<1> DEFINE p == In(at)
<1>1. at \in Conduit /\ p \in Pinfo
  BY PinfoEnds DEF FillFileHeader, Filling
<1>2. CASE PassBy
  BY <1>1, <1>2, PassByTyped
<1>3. CASE Fail("ERR_READ_FILE") /\ UNCHANGED <<mapping, arrayDone>>
  BY <1>3, FailTyped DEF TypeOK, mapping, Errors
<1>4. CASE /\ buffer' = [buffer EXCEPT ![p] = Chunk(p, CurrentMap, 1)]
           /\ left' = [left EXCEPT ![p] = 0]
           /\ arrayDone' = [arrayDone EXCEPT ![p] = TRUE]
           /\ Unlock(p, TRUE) /\ Advance("read")
           /\ UNCHANGED <<mapped, offset, disk>>
  <2> HIDE DEF p
  <2>1. mapped' \in [Pinfo -> Nat] /\ offset' \in [Pinfo -> Nat]
    BY <1>4 DEF TypeOK
  <2>2. left' \in [Pinfo -> Int]
    <3>1. left' = [left EXCEPT ![p] = 0] /\ left \in [Pinfo -> Int]
      BY <1>4 DEF TypeOK
    <3>2. 0 \in Int
      OBVIOUS
    <3>3. QED
      BY ONLY <3>1, <3>2, Zenon
  <2>3. arrayDone' \in [Pinfo -> BOOLEAN]
    BY <1>4 DEF TypeOK
  <2>4. buffer' = [buffer EXCEPT ![p] = Chunk(p, CurrentMap, 1)]
        /\ Unlock(p, TRUE) /\ Advance("read") /\ UNCHANGED disk
    BY <1>4
  <2>5. QED
    BY <1>1, <2>1, <2>2, <2>3, <2>4, FilledTyped
<1>5. QED
  BY <1>2, <1>3, <1>4 DEF FillFileHeader

LEMMA HeaderMapTyped ==
  ASSUME TypeOK, at \in Conduit
  PROVE  HeaderMap \in Mapping
<1>1. job.recl \in [Pinfo -> Nat] /\ offset \in [Pinfo -> Nat]
  BY JobTyped DEF TypeOK
<1>2. [offset EXCEPT ![In(at)] = @ + job.recl[In(at)]] \in [Pinfo -> Nat]
  BY <1>1, PinfoEnds
<1>3. QED
  BY <1>1, <1>2, RemapTyped DEF HeaderMap

LEMMA FillRecordHeaderTyped ==
  ASSUME TypeOK, FillRecordHeader
  PROVE  TypeOK'
<1> DEFINE h == In(at)
           whole == Position(h, HeaderMap, 1) <= job.eof[at]
           mate == {Out(at)} \cap job.ends
           skip == IF whole /\ job.sepIn THEN job.recl[h] ELSE 0
<1>1. at \in Conduit /\ h \in Pinfo
  BY PinfoEnds DEF FillRecordHeader, Filling
<1>2. HeaderMap.left \in [Pinfo -> Int] /\ HeaderMap.mapped \in [Pinfo -> Nat]
        /\ HeaderMap.offset \in [Pinfo -> Nat]
  BY <1>1, HeaderMapTyped DEF Mapping
<1>3. skip \in Nat
  BY <1>1, JobTyped DEF TypeOK
<1>4. /\ mapped' = HeaderMap.mapped
      /\ left' = [p \in Pinfo |-> IF p = h \/ (p \in mate /\ ~whole) THEN 0
                                  ELSE HeaderMap.left[p]]
      /\ offset' = [HeaderMap.offset EXCEPT ![h] = @ + skip]
      /\ arrayDone' = [p \in Pinfo |-> IF p \in mate THEN FALSE
                                       ELSE IF p = h THEN whole ELSE arrayDone[p]]
  BY DEF FillRecordHeader
<1>5. mapped' \in [Pinfo -> Nat] /\ left' \in [Pinfo -> Int]
  BY <1>2, <1>4
<1>6. offset' \in [Pinfo -> Nat]
  <2> HIDE DEF skip
  <2>1. QED
    BY <1>1, <1>2, <1>3, <1>4
<1>7. arrayDone' \in [Pinfo -> BOOLEAN]
  <2>1. whole \in BOOLEAN
    OBVIOUS
  <2> HIDE DEF whole, mate
  <2>2. QED
    BY <1>4, <2>1 DEF TypeOK
<1>8. CASE whole
  <2>1. buffer' = [buffer EXCEPT ![h] = Chunk(h, HeaderMap, 1)]
        /\ Unlock(h, TRUE) /\ Advance("read") /\ UNCHANGED disk
    BY <1>8 DEF FillRecordHeader
  <2>2. QED
    BY <1>1, <1>5, <1>6, <1>7, <2>1, FilledTyped
<1>9. CASE ~whole
  <2>1. Fail("EOF")
    BY <1>9 DEF FillRecordHeader
  <2>2. QED
    BY <1>5, <1>6, <1>7, <2>1, FailTyped DEF Errors
<1>10. QED
  BY <1>8, <1>9

LEMMA EndOfDataTyped ==
  ASSUME TypeOK, EndOfData
  PROVE  TypeOK'
<1>1. at \in Conduit
  BY DEF EndOfData, Filling
<1>2. /\ left' \in [Pinfo -> Int] /\ mapped' \in [Pinfo -> Nat]
      /\ offset' \in [Pinfo -> Nat] /\ arrayDone' \in [Pinfo -> BOOLEAN]
  BY DEF EndOfData, TypeOK, mapping
<1>3. CASE PassBy
  BY <1>1, <1>3, PassByTyped
<1>4. CASE \E e \in {"EOF", "ERR_GENERAL", "ERR_PARAM_VALUE"} : Fail(e)
  BY <1>2, <1>4, FailTyped DEF Errors
<1>5. QED
  BY <1>3, <1>4 DEF EndOfData

\* FillData, taken apart: the mapping m it takes the next records from, the
\* cache it fills with them, and what becomes of it.
FirstIn == In(FirstData)
Taken(m) == Lesser(m.left[In(at)], job.cache[at])
Full(m) == [buffer EXCEPT ![In(at)] = Chunk(In(at), m, Taken(m))]
DoneIf(b) ==
    [q \in Pinfo |-> IF q = In(at) THEN b
                     ELSE IF q \in {Out(at)} \cap job.ends /\ arrayDone[In(at)] THEN FALSE
                     ELSE arrayDone[q]]
Told(m) == IF job.query THEN FilterError(Full(m)[FirstIn]) ELSE "none"

NotFilled(m) ==
    SetMap(m) /\ arrayDone' = DoneIf(FALSE) /\ Fail("ERR_READ_FILE")
FilledFrom(m) ==
    /\ Taken(m) > 0 /\ Position(In(at), m, Taken(m)) <= job.eof[at]
    /\ SetMap([m EXCEPT !.left[In(at)] = @ - Taken(m)])
    /\ arrayDone' = DoneIf(m.left[In(at)] = Taken(m))
    /\ buffer' = Filtered(Full(m))
    /\ locked' = [locked EXCEPT ![In(at)] = FALSE]
    /\ newRecord' = IF Told(m) = "EOF"
                    THEN [[newRecord EXCEPT ![In(at)] = TRUE] EXCEPT ![FirstIn] = FALSE]
                    ELSE [newRecord EXCEPT ![In(at)] = TRUE]
    /\ \/ Told(m) = "none" /\ Advance("read")
       \/ Told(m) = "EOF" /\ pc' = "read"
            /\ UNCHANGED <<job, stage, at, doneReading, error>>
       \/ Told(m) = "ERR_GEN_QUERY" /\ Return("ERR_GEN_QUERY")
    /\ UNCHANGED disk

LEMMA FillDataShape ==
  ASSUME FillData
  PROVE  /\ pc = "fill" /\ at \in Conduit /\ at \in InputData
         /\ \E m \in DataMaps : NotFilled(m) \/ FilledFrom(m)
<1>1. Filling /\ at \in InputData
  BY DEF FillData
<1>2. \E m \in DataMaps : NotFilled(m) \/ FilledFrom(m)
  BY Zenon DEF FillData, NotFilled, FilledFrom, Taken, Full, DoneIf, Told, FirstIn
<1>3. QED
  BY <1>1, <1>2 DEF Filling

\* The filter only ever thins out the cache of the first input data format.
LEMMA FilteredLess ==
  ASSUME NEW b \in [Pinfo -> SUBSET (0 .. MaxOffset)]
  PROVE  /\ Filtered(b) \in [Pinfo -> SUBSET (0 .. MaxOffset)]
         /\ \A q \in Pinfo : Filtered(b)[q] \subseteq b[q]
<1>1. \A S : Kept(S) \subseteq S /\ HalfMoved(S) \subseteq S
  BY DEF Kept, HalfMoved
<1>2. CASE job.query
  <2> DEFINE f == In(FirstData)
             X == IF FailsToSet(b[f]) THEN HalfMoved(b[f]) ELSE Kept(b[f])
  <2>1. Filtered(b) = [b EXCEPT ![f] = X]
    BY <1>2, Zenon DEF Filtered
  <2>2. X \subseteq b[f]
    BY <1>1
  <2> HIDE DEF X, f
  <2>3. QED
    BY <2>1, <2>2
<1>3. CASE ~job.query
  BY <1>3 DEF Filtered
<1>4. QED
  BY <1>2, <1>3

LEMMA FillDataTyped ==
  ASSUME TypeOK, FillData
  PROVE  TypeOK'
<1> DEFINE p == In(at)
<1>1. at \in Conduit /\ p \in Pinfo
  BY PinfoEnds, FillDataShape
<1>2. PICK m \in DataMaps : NotFilled(m) \/ FilledFrom(m)
  BY FillDataShape
<1>3. m \in Mapping
  BY <1>1, DataMapsTyped
<1>4. \A b \in BOOLEAN : DoneIf(b) \in [Pinfo -> BOOLEAN]
  BY DEF TypeOK, DoneIf
<1>5. CASE NotFilled(m)
  <2>1. arrayDone' \in [Pinfo -> BOOLEAN]
    BY <1>4, <1>5 DEF NotFilled
  <2>2. left' \in [Pinfo -> Int] /\ mapped' \in [Pinfo -> Nat] /\ offset' \in [Pinfo -> Nat]
    BY <1>3, <1>5, SetMapTyped DEF NotFilled
  <2>3. Fail("ERR_READ_FILE")
    BY <1>5 DEF NotFilled
  <2>4. QED
    BY <2>1, <2>2, <2>3, FailTyped DEF Errors
<1>6. CASE FilledFrom(m)
  <2>1. arrayDone' \in [Pinfo -> BOOLEAN]
    BY <1>4, <1>6 DEF FilledFrom
  <2>2. left' \in [Pinfo -> Int] /\ mapped' \in [Pinfo -> Nat] /\ offset' \in [Pinfo -> Nat]
    <3>1. Taken(m) \in Int
      BY <1>1, <1>3, JobTyped DEF TypeOK, Mapping, Lesser, Taken
    <3>2. [m EXCEPT !.left[p] = @ - Taken(m)] \in Mapping
      BY <1>1, <1>3, <3>1 DEF Mapping
    <3>3. SetMap([m EXCEPT !.left[p] = @ - Taken(m)])
      BY <1>6 DEF FilledFrom
    <3>4. QED
      BY <3>2, <3>3, SetMapTyped
  <2>3. buffer' \in [Pinfo -> SUBSET (0 .. MaxOffset)]
    <3>1. Full(m) \in [Pinfo -> SUBSET (0 .. MaxOffset)]
      BY ChunkTyped DEF TypeOK, Full
    <3>2. buffer' = Filtered(Full(m))
      BY <1>6 DEF FilledFrom
    <3>3. QED
      BY <3>1, <3>2, FilteredLess
  <2>4. locked' \in [Pinfo -> BOOLEAN]
    BY <1>6 DEF TypeOK, FilledFrom
  <2>5. newRecord' \in [Pinfo -> BOOLEAN]
    <3>1. \/ newRecord' = [[newRecord EXCEPT ![p] = TRUE] EXCEPT ![FirstIn] = FALSE]
          \/ newRecord' = [newRecord EXCEPT ![p] = TRUE]
      BY <1>6, Zenon DEF FilledFrom
    <3> HIDE DEF p
    <3>2. [newRecord EXCEPT ![p] = TRUE] \in [Pinfo -> BOOLEAN]
      BY DEF TypeOK
    <3>3. QED
      BY <3>1, <3>2
  <2>6. /\ UNCHANGED <<job, stage, doneReading, disk>> /\ pc' \in {"read", "return"}
        /\ error' = error \/ error' = "ERR_GEN_QUERY"
        /\ at' = at \/ at' = at + 1
    BY <1>6, Zenon DEF FilledFrom, Advance, Return
  <2>7. at' \in 1 .. NumConduits + 1 /\ error' \in Errors
    BY <1>1, <2>6, AtTyped DEF TypeOK, Errors
  <2>8. QED
    BY <2>1, <2>2, <2>3, <2>4, <2>5, <2>6, <2>7 DEF TypeOK
<1>7. QED
  BY <1>2, <1>5, <1>6

LEMMA ReadTyped ==
  ASSUME TypeOK, Read
  PROVE  TypeOK'
<1>1. CASE SkipFormat
  BY <1>1, AtTyped DEF SkipFormat, Reading, Advance, TypeOK, mapping
<1>2. CASE LockFormat
  <2>1. locked' \in [Pinfo -> BOOLEAN]
    BY <1>2 DEF LockFormat, TypeOK
  <2>2. QED
    BY <1>2, <2>1 DEF LockFormat, TypeOK, mapping
<1>3. CASE FinishReading
  BY <1>3 DEF FinishReading, Return, TypeOK, mapping, Errors
<1>4. CASE WaitForData
  BY <1>4, PassByTyped DEF WaitForData, Filling
<1>5. QED
  BY <1>1, <1>2, <1>3, <1>4, FillFileHeaderTyped, FillRecordHeaderTyped,
     EndOfDataTyped, FillDataTyped DEF Read

LEMMA EndReadTyped ==
  ASSUME TypeOK, EndRead
  PROVE  TypeOK'
<1>1. 1 \in 1 .. NumConduits + 1
  BY NumConduitsAssumption
<1>2. CASE HeadersRead
  <2>1. arrayDone' \in [Pinfo -> BOOLEAN]
    BY <1>2 DEF HeadersRead, TypeOK
  <2>2. QED
    BY <1>1, <1>2, <2>1 DEF HeadersRead, Goto, TypeOK, mapping, Errors
<1>3. CASE RecordHeaderRead
  BY <1>1, <1>3 DEF RecordHeaderRead, Goto, TypeOK, mapping, Errors
<1>4. CASE CreateMappings
  BY <1>1, <1>4 DEF CreateMappings, Goto, TypeOK, mapping, Errors
<1>5. CASE Processing
  BY <1>1, <1>5 DEF Processing, Goto, TypeOK, mapping, Errors
<1>6. CASE GiveUp
  BY <1>6 DEF GiveUp, TypeOK, mapping
<1>7. QED
  BY <1>2, <1>3, <1>4, <1>5, <1>6 DEF EndRead

LEMMA ConvertTyped ==
  ASSUME TypeOK, ConvertFormats
  PROVE  TypeOK'
<1>1. CASE SkipConversion
  BY <1>1, AtTyped DEF SkipConversion, Converting, Advance, TypeOK, mapping
<1>2. CASE Convert
  <2>1. at \in Conduit /\ Out(at) \in Pinfo /\ In(at) \in Pinfo
    BY <1>2, PinfoEnds DEF Convert, Converting
  <2>2. buffer' \in [Pinfo -> SUBSET (0 .. MaxOffset)]
    BY <1>2, <2>1 DEF Convert, TypeOK
  <2>3. newRecord' \in [Pinfo -> BOOLEAN]
    BY <1>2 DEF Convert, TypeOK
  <2>4. QED
    BY <1>2, <2>1, <2>2, <2>3, AtTyped DEF Convert, Advance, TypeOK, mapping
<1>3. CASE ConvertFails
  <2>1. In(at) \in Pinfo
    BY <1>3, PinfoEnds DEF ConvertFails, Converting
  <2>2. buffer' \in [Pinfo -> SUBSET (0 .. MaxOffset)]
    BY <1>3, <2>1 DEF ConvertFails, TypeOK
  <2>3. QED
    BY <1>3, <2>2 DEF ConvertFails, TypeOK, mapping, Errors
<1>4. CASE FillTemplate
  <2>1. buffer' \in [Pinfo -> SUBSET (0 .. MaxOffset)]
    BY <1>4 DEF FillTemplate, TypeOK
  <2>2. newRecord' \in [Pinfo -> BOOLEAN]
    BY <1>4 DEF FillTemplate, TypeOK
  <2>3. QED
    BY <1>4, <2>1, <2>2, AtTyped DEF FillTemplate, Converting, Advance, TypeOK, mapping
<1>5. CASE EndConversion
  <2>1. newRecord' \in [Pinfo -> BOOLEAN]
    BY <1>5 DEF EndConversion, TypeOK
  <2>2. QED
    BY <1>5, <2>1, NumConduitsAssumption DEF EndConversion, Goto, TypeOK, mapping
<1>6. QED
  BY <1>1, <1>2, <1>3, <1>4, <1>5 DEF ConvertFormats

\* What a put leaves in the files is typed, whichever records it is given.
LEMMA WrittenTyped ==
  ASSUME TypeOK, at \in Conduit, NEW S \in SUBSET (0 .. MaxOffset)
  PROVE  \A w \in Written(S) : /\ w.file \in {"header", "data"}
                               /\ w.conduit \in Conduit
                               /\ w.rec \in 0 .. MaxOffset
<1>1. \A w \in disk : /\ w.file \in {"header", "data"} /\ w.conduit \in Conduit
                     /\ w.rec \in 0 .. MaxOffset
  BY DEF TypeOK
<1>2. FileOf(at) \in {"header", "data"}
  BY DEF FileOf
<1> DEFINE pos(r) ==
      (IF IsFile(at) THEN Position(Out(at), CurrentMap, 0) ELSE EndOfFile)
        + Cardinality({s \in buffer[Out(at)] : s < r}) * job.recl[Out(at)]
<1> DEFINE put(r) == [file |-> FileOf(at), pos |-> pos(r), conduit |-> at, rec |-> r]
<1>3. \A w \in Written(S) : w \in disk \/ \E r \in S : w = put(r)
  BY DEF Written
<1>4. \A r \in S : put(r).file = FileOf(at) /\ put(r).conduit = at /\ put(r).rec = r
  <2> HIDE DEF pos
  <2>1. QED
    OBVIOUS
<1> HIDE DEF put
<1>5. QED
  BY <1>1, <1>2, <1>3, <1>4

\* The records of a cache can be counted.
LEMMA BufferCount ==
  ASSUME TypeOK, NEW p \in Pinfo
  PROVE  Cardinality(buffer[p]) \in Nat
<1>1. IsFiniteSet(0 .. MaxOffset)
  BY MaxOffsetAssumption, FS_Interval
<1>2. buffer[p] \subseteq 0 .. MaxOffset
  BY DEF TypeOK
<1>3. QED
  BY <1>1, <1>2, FS_Subset, FS_CardinalityType

LEMMA NextOutputTyped ==
  ASSUME TypeOK, at \in Conduit, NEW done
  PROVE  NextOutput(done) \in [Pinfo -> Nat]
<1> DEFINE p == Out(at)
           h == Out(HeaderOf("out"))
           block == mapped[p] * job.recl[p]
<1>1. p \in Pinfo /\ (RecHeader("out") # {} => h \in Pinfo)
  BY HeaderOfTyped, PinfoEnds
<1>2. offset \in [Pinfo -> Nat] /\ mapped \in [Pinfo -> Nat] /\ job.recl \in [Pinfo -> Nat]
  BY JobTyped DEF TypeOK
<1>3. block \in Nat
  BY <1>1, <1>2, NatProduct
<1> HIDE DEF p, h, block
<1>4. offset[p] + job.recl[p] \in Nat /\ offset[p] + block \in Nat
  BY <1>1, <1>2, <1>3
<1>5. [offset EXCEPT ![p] = @ + job.recl[p]] \in [Pinfo -> Nat]
      /\ [offset EXCEPT ![p] = @ + block] \in [Pinfo -> Nat]
  BY <1>1, <1>2, <1>4
<1>6. RecHeader("out") # {} =>
        [offset EXCEPT ![h] = @ + block, ![p] = offset[h] + block + job.recl[h]]
          \in [Pinfo -> Nat]
  BY <1>1, <1>2, <1>3
<1>7. QED
  BY <1>2, <1>5, <1>6 DEF NextOutput, p, h, block

LEMMA WriteTyped ==
  ASSUME TypeOK, pc = "put" => at \in Conduit, WriteFormats
  PROVE  TypeOK'
<1> DEFINE p == Out(at)
           n == Cardinality(buffer[p])
<1>1. CASE SkipWrite
  BY <1>1, AtTyped DEF SkipWrite, Advance, TypeOK, mapping
<1>2. CASE LockOutput
  <2>1. locked' \in [Pinfo -> BOOLEAN]
    BY <1>2 DEF LockOutput, TypeOK
  <2>2. QED
    BY <1>2, <2>1 DEF LockOutput, TypeOK, mapping
<1>3. ASSUME pc = "put", left' = AfterPut(n), Unlock(p, FALSE),
             NEW done \in BOOLEAN, offset' = NextOutput(done)
      PROVE  /\ left' \in [Pinfo -> Int] /\ offset' \in [Pinfo -> Nat]
             /\ locked' \in [Pinfo -> BOOLEAN] /\ newRecord' \in [Pinfo -> BOOLEAN]
  <2>1. at \in Conduit /\ p \in Pinfo
    BY <1>3, PinfoEnds
  <2>2. n \in Int
    BY <2>1, BufferCount
  <2>3. left' \in [Pinfo -> Int]
    <3> HIDE DEF n
    <3>1. QED
      BY <1>3, <2>1, <2>2 DEF AfterPut, TypeOK
  <2>4. QED
    BY <1>3, <2>1, <2>3, UnlockTyped, NextOutputTyped
<1>4. CASE Put
  <2>1. at \in Conduit /\ p \in Pinfo /\ buffer[p] \in SUBSET (0 .. MaxOffset)
    BY <1>4, PinfoEnds DEF Put, TypeOK
  <2> DEFINE done == IF IsFile(at) THEN left[p] = n ELSE arrayDone[p]
  <2>2. /\ pc = "put" /\ left' = AfterPut(n) /\ Unlock(p, FALSE)
        /\ offset' = NextOutput(done) /\ arrayDone' = [arrayDone EXCEPT ![p] = done]
        /\ disk' = Written(buffer[p]) /\ Advance("write") /\ UNCHANGED <<mapped, buffer>>
    BY <1>4 DEF Put
  <2>3. done \in BOOLEAN
    BY <2>1 DEF TypeOK
  <2> HIDE DEF done, n, p
  <2>4. arrayDone' \in [Pinfo -> BOOLEAN]
    BY <2>2, <2>3 DEF TypeOK
  <2>5. /\ left' \in [Pinfo -> Int] /\ offset' \in [Pinfo -> Nat]
        /\ locked' \in [Pinfo -> BOOLEAN] /\ newRecord' \in [Pinfo -> BOOLEAN]
    BY <1>3, <2>2, <2>3
  <2>6. \A w \in disk' : /\ w.file \in {"header", "data"} /\ w.conduit \in Conduit
                         /\ w.rec \in 0 .. MaxOffset
    BY <2>1, <2>2, WrittenTyped
  <2>7. QED
    BY <2>1, <2>2, <2>4, <2>5, <2>6, AtTyped DEF Advance, TypeOK
<1>5. CASE PutFails
  <2>1. at \in Conduit /\ p \in Pinfo /\ buffer[p] \in SUBSET (0 .. MaxOffset)
    BY <1>5, PinfoEnds DEF PutFails, TypeOK
  <2>2. PICK r \in buffer[p] : disk' = Written({s \in buffer[p] : s < r})
    BY <1>5 DEF PutFails
  <2>3. \A w \in disk' : /\ w.file \in {"header", "data"} /\ w.conduit \in Conduit
                         /\ w.rec \in 0 .. MaxOffset
    <3>1. {s \in buffer[p] : s < r} \in SUBSET (0 .. MaxOffset)
      BY <2>1
    <3>2. QED
      BY <2>1, <2>2, <3>1, WrittenTyped
  <2>4. arrayDone' \in [Pinfo -> BOOLEAN]
    BY <1>5, <2>1 DEF PutFails, TypeOK
  <2>5. /\ left' \in [Pinfo -> Int] /\ offset' \in [Pinfo -> Nat]
        /\ locked' \in [Pinfo -> BOOLEAN] /\ newRecord' \in [Pinfo -> BOOLEAN]
    BY <1>3, <1>5 DEF PutFails
  <2>6. QED
    BY <1>5, <2>3, <2>4, <2>5 DEF PutFails, TypeOK, Errors
<1>6. CASE EndWrite
  BY <1>6, NumConduitsAssumption DEF EndWrite, Goto, TypeOK, mapping
<1>7. QED
  BY <1>1, <1>2, <1>4, <1>5, <1>6 DEF WriteFormats

-----------------------------------------------------------------------------
(* The inductive invariant.  LockDiscipline needs to know that the passes that *)
(* hold a lock are at a conduit; CacheStable, that a cache being filled is not *)
(* in use; Drained, how far the pass that empties the outputs has come.        *)

AtConduit ==
    /\ pc \in {"fill", "put"} => at \in Conduit
    /\ pc = "fill" => ~newRecord[In(at)]

Settled(c) == newRecord[Out(c)] => job.kind[c] = "array" /\ arrayDone[Out(c)]

Emptied ==
    /\ \A c \in Conduit : Out(c) \notin job.ends => ~newRecord[Out(c)]
    /\ pc \in {"read", "fill", "return"} => \A c \in Conduit : Settled(c)
    /\ pc \in {"write", "put"} => \A c \in Conduit : c < at => Settled(c)

IInv == TypeOK /\ AtConduit /\ LockDiscipline /\ Emptied

LEMMA InOut ==
  /\ \A c, d : In(c) # Out(d)
  /\ \A c, d : In(c) = In(d) => c = d
  /\ \A c, d : Out(c) = Out(d) => c = d
  BY DEF In, Out

LEMMA InitIInv == Init => IInv
<1> SUFFICES ASSUME Init PROVE IInv
  OBVIOUS
<1>1. \A p \in Pinfo : ~newRecord[p] /\ ~locked[p]
  BY DEF Init
<1>2. AtConduit /\ LockDiscipline
  BY <1>1 DEF Init, AtConduit, LockDiscipline
<1>3. Emptied
  BY <1>1, PinfoEnds DEF Init, Emptied, Settled
<1>4. QED
  BY <1>2, <1>3, InitTyped DEF IInv

LEMMA TypedStep ==
  ASSUME IInv, [Next]_vars
  PROVE  TypeOK'
<1>1. TypeOK /\ (pc = "put" => at \in Conduit)
  BY DEF IInv, AtConduit
<1>2. CASE UNCHANGED vars
  BY <1>1, <1>2 DEF vars, control, mapping, TypeOK
<1>3. QED
  BY <1>1, <1>2, ReadTyped, EndReadTyped, ConvertTyped, WriteTyped DEF Next, Finished

\* Locks are taken by LockFormat and LockOutput; whatever ends "fill" or "put"
\* releases them.
LEMMA LockStep ==
  ASSUME IInv, [Next]_vars
  PROVE  AtConduit' /\ LockDiscipline'
<1> DEFINE free == \A p \in Pinfo : ~locked[p]
<1>1. /\ locked \in [Pinfo -> BOOLEAN] /\ newRecord \in [Pinfo -> BOOLEAN]
      /\ LockDiscipline
  BY DEF IInv, TypeOK
<1>2. pc \notin {"fill", "put"} => free
  BY <1>1 DEF LockDiscipline
<1>3. pc = "fill" => \A p \in Pinfo : locked[p] <=> p = In(at)
  BY <1>1 DEF LockDiscipline
<1>4. pc = "put" => \A p \in Pinfo : locked[p] <=> p = Out(at)
  BY <1>1 DEF LockDiscipline
<1>5. ASSUME free, UNCHANGED locked, pc' \notin {"fill", "put"}
      PROVE  AtConduit' /\ LockDiscipline'
  BY <1>5 DEF AtConduit, LockDiscipline
<1>6. ASSUME NEW p, \A q \in Pinfo : locked[q] <=> q = p,
             locked' = [locked EXCEPT ![p] = FALSE], pc' \notin {"fill", "put"}
      PROVE  AtConduit' /\ LockDiscipline'
  BY <1>1, <1>6 DEF AtConduit, LockDiscipline
<1>7. CASE SkipFormat \/ FinishReading \/ EndRead \/ ConvertFormats \/ SkipWrite \/ EndWrite
  <2>1. pc \notin {"fill", "put"} /\ pc' \notin {"fill", "put"} /\ UNCHANGED locked
    BY <1>7, Zenon DEF SkipFormat, Reading, FinishReading, Advance, Return, Goto, EndRead,
       HeadersRead, RecordHeaderRead, CreateMappings, Processing, GiveUp,
       ConvertFormats, SkipConversion, Convert, ConvertFails, FillTemplate,
       EndConversion, Converting, SkipWrite, EndWrite
  <2>2. QED
    BY <1>2, <1>5, <2>1
<1>8. CASE LockFormat
  <2>1. /\ pc' = "fill" /\ UNCHANGED <<at, newRecord>> /\ at \in Conduit
        /\ locked' = [locked EXCEPT ![In(at)] = TRUE] /\ ~newRecord[In(at)]
    BY <1>8 DEF LockFormat, PassedOver, Reading
  <2>2. free
    BY <1>2, <1>8 DEF LockFormat, Reading
  <2>3. AtConduit'
    BY <2>1 DEF AtConduit, In
  <2>4. LockDiscipline'
    BY <1>1, <2>1, <2>2 DEF LockDiscipline, In
  <2>5. QED
    BY <2>3, <2>4
<1>9. CASE LockOutput
  <2>1. /\ pc' = "put" /\ UNCHANGED at /\ at \in Conduit
        /\ locked' = [locked EXCEPT ![Out(at)] = TRUE]
    BY <1>9 DEF LockOutput
  <2>2. free
    BY <1>2, <1>9 DEF LockOutput
  <2>3. AtConduit'
    BY <2>1 DEF AtConduit
  <2>4. LockDiscipline'
    BY <1>1, <2>1, <2>2 DEF LockDiscipline, Out
  <2>5. QED
    BY <2>3, <2>4
<1>10. CASE FillFileHeader \/ FillRecordHeader \/ WaitForData \/ EndOfData \/ FillData
  <2>1. /\ pc = "fill" /\ pc' \in {"read", "return"}
        /\ locked' = [locked EXCEPT ![In(at)] = FALSE]
    BY <1>10, Zenon DEF FillFileHeader, FillRecordHeader, WaitForData, EndOfData, FillData,
       Filling, PassBy, Fail, Unlock, Advance, Return
  <2>2. QED
    BY <1>3, <1>6, <2>1
<1>11. CASE Put \/ PutFails
  <2>1. /\ pc = "put" /\ pc' \in {"write", "done"}
        /\ locked' = [locked EXCEPT ![Out(at)] = FALSE]
    BY <1>11, Zenon DEF Put, PutFails, Unlock, Advance
  <2>2. QED
    BY <1>4, <1>6, <2>1
<1>12. CASE UNCHANGED vars
  BY <1>12 DEF vars, control, IInv, AtConduit, LockDiscipline, In, Out
<1>13. QED
  BY <1>7, <1>8, <1>9, <1>10, <1>11, <1>12 DEF Next, Read, WriteFormats, Finished

\* A step that leaves the outputs as they were settles nothing and unsettles
\* nothing: all reading steps are of this kind.
LEMMA OutputsKept ==
  ASSUME IInv, UNCHANGED job,
         \A c \in Conduit : newRecord'[Out(c)] => newRecord[Out(c)],
         \A c \in Conduit : job.kind[c] = "array" /\ arrayDone[Out(c)]
                                => arrayDone'[Out(c)],
         pc' \in {"read", "fill", "return", "convert", "done"},
         pc' \in {"read", "fill", "return"} => \A c \in Conduit : Settled(c)
  PROVE  Emptied'
<1>1. \A c \in Conduit : Settled(c) => Settled(c)'
  BY DEF Settled
<1>2. \A c \in Conduit : Out(c) \notin job'.ends => ~newRecord'[Out(c)]
  BY DEF IInv, Emptied
<1>3. QED
  BY <1>1, <1>2 DEF Emptied

LEMMA EmptiedRead ==
  ASSUME IInv, Read
  PROVE  Emptied'
<1>1. /\ newRecord \in [Pinfo -> BOOLEAN] /\ arrayDone \in [Pinfo -> BOOLEAN]
      /\ pc \in {"read", "fill", "return"} => \A c \in Conduit : Settled(c)
  BY DEF IInv, TypeOK, Emptied
<1>2. pc \in {"read", "fill"} /\ pc' \in {"read", "fill", "return"} /\ UNCHANGED job
  BY Zenon DEF Read, SkipFormat, LockFormat, FinishReading, FillFileHeader,
     FillRecordHeader, WaitForData, EndOfData, FillData, Reading, Filling, PassBy, Fail,
     Advance, Return
<1>3. \A c \in Conduit : newRecord'[Out(c)] = newRecord[Out(c)]
  <2>1. CASE UNCHANGED newRecord
    BY <2>1
  <2>2. CASE \E b : Unlock(In(at), b)
    BY <1>1, <2>2, InOut, PinfoEnds DEF Unlock
  <2>3. CASE FillData
    <3>1. \/ \E b : Unlock(In(at), b)
          \/ newRecord' = [[newRecord EXCEPT ![In(at)] = TRUE] EXCEPT ![In(FirstData)] = FALSE]
          \/ newRecord' = [newRecord EXCEPT ![In(at)] = TRUE]
      BY <2>3, FillDataShape, Zenon DEF NotFilled, FilledFrom, Fail, FirstIn
    <3>2. ASSUME \/ newRecord' = [[newRecord EXCEPT ![In(at)] = TRUE]
                                    EXCEPT ![In(FirstData)] = FALSE]
                 \/ newRecord' = [newRecord EXCEPT ![In(at)] = TRUE]
          PROVE  \A c \in Conduit : newRecord'[Out(c)] = newRecord[Out(c)]
      <4>1. TAKE c \in Conduit
      <4> DEFINE o == Out(c)
                 p == In(at)
                 q == In(FirstData)
      <4>2. o \in Pinfo /\ o # p /\ o # q
        BY InOut, PinfoEnds
      <4>3. \/ newRecord' = [[newRecord EXCEPT ![p] = TRUE] EXCEPT ![q] = FALSE]
            \/ newRecord' = [newRecord EXCEPT ![p] = TRUE]
        BY <3>2
      <4> HIDE DEF o, p, q
      <4>4. newRecord'[o] = newRecord[o]
        BY <1>1, <4>2, <4>3
      <4>5. QED
        BY <4>4 DEF o
    <3>3. QED
      BY <2>2, <3>1, <3>2
  <2>4. QED
    BY <2>1, <2>2, <2>3 DEF Read, SkipFormat, LockFormat, FinishReading,
       FillFileHeader, FillRecordHeader, WaitForData, EndOfData, PassBy, Fail
<1>4. \A c \in Conduit : job.kind[c] = "array" /\ arrayDone[Out(c)] => arrayDone'[Out(c)]
  <2>1. CASE UNCHANGED arrayDone
    BY <2>1
  <2>2. CASE FillFileHeader
    <3>1. UNCHANGED arrayDone \/ arrayDone' = [arrayDone EXCEPT ![In(at)] = TRUE]
      BY <2>2 DEF FillFileHeader, PassBy
    <3>2. QED
      BY <1>1, <3>1, InOut, PinfoEnds
  <2>3. CASE FillRecordHeader
    <3>1. job.kind[at] # "array"
      BY <2>3 DEF FillRecordHeader
    <3>2. \A c \in Conduit : c # at => arrayDone'[Out(c)] = arrayDone[Out(c)]
      BY <2>3, InOut, PinfoEnds DEF FillRecordHeader
    <3>3. QED
      BY <3>1, <3>2
  <2>4. CASE FillData
    <3>1. arrayDone[In(at)] => job.kind[at] # "array"
      BY <2>4 DEF FillData, DataMaps
    <3>2. \E b : arrayDone' = [q \in Pinfo |-> IF q = In(at) THEN b
                    ELSE IF q \in {Out(at)} \cap job.ends /\ arrayDone[In(at)] THEN FALSE
                    ELSE arrayDone[q]]
      BY <2>4 DEF FillData
    <3>3. QED
      BY <3>1, <3>2, InOut, PinfoEnds
  <2>5. QED
    BY <2>1, <2>2, <2>3, <2>4 DEF Read, SkipFormat, LockFormat, FinishReading,
       WaitForData, EndOfData, PassBy
<1>5. QED
  BY <1>1, <1>2, <1>3, <1>4, OutputsKept

LEMMA EmptiedEndRead ==
  ASSUME IInv, EndRead
  PROVE  Emptied'
<1>1. pc = "return" /\ \A c \in Conduit : Settled(c)
  BY DEF EndRead, HeadersRead, RecordHeaderRead, CreateMappings, Processing, GiveUp,
     IInv, Emptied
<1>2. UNCHANGED <<job, newRecord>> /\ pc' \in {"read", "convert", "done"}
  BY DEF EndRead, HeadersRead, RecordHeaderRead, CreateMappings, Processing, GiveUp, Goto
<1>3. \A c \in Conduit : arrayDone[Out(c)] => arrayDone'[Out(c)]
  BY PinfoEnds DEF EndRead, HeadersRead, RecordHeaderRead, CreateMappings, Processing, GiveUp
<1>4. QED
  BY <1>1, <1>2, <1>3, OutputsKept

LEMMA EmptiedConvert ==
  ASSUME IInv, ConvertFormats
  PROVE  Emptied'
<1>1. /\ newRecord \in [Pinfo -> BOOLEAN] /\ at \in 1 .. NumConduits + 1
      /\ \A c \in Conduit : Out(c) \notin job.ends => ~newRecord[Out(c)]
  BY DEF IInv, TypeOK, Emptied
<1>2. UNCHANGED job
  BY DEF ConvertFormats, SkipConversion, Convert, ConvertFails, FillTemplate,
     EndConversion, Advance
<1>3. \A c \in Conduit : Out(c) \notin job.ends => ~newRecord'[Out(c)]
  <2>1. CASE SkipConversion \/ ConvertFails
    BY <1>1, <2>1 DEF SkipConversion, ConvertFails
  <2>2. CASE Convert
    BY <1>1, <2>2, InOut, PinfoEnds DEF Convert, Convertible, HasMate
  <2>3. CASE FillTemplate
    BY <1>1, <2>3, InOut, PinfoEnds DEF FillTemplate, Templated
  <2>4. CASE EndConversion
    BY <1>1, <2>4, PinfoEnds DEF EndConversion
  <2>5. QED
    BY <2>1, <2>2, <2>3, <2>4 DEF ConvertFormats
<1>4. pc' \in {"convert", "done"} \/ (pc' = "write" /\ at' = 1)
  BY DEF ConvertFormats, SkipConversion, Convert, ConvertFails, FillTemplate,
     EndConversion, Advance, Goto
<1>5. \A c \in Conduit : ~(c < 1)
  BY NumConduitsAssumption DEF Conduit
<1>6. QED
  BY <1>2, <1>3, <1>4, <1>5 DEF Emptied

LEMMA EmptiedWrite ==
  ASSUME IInv, WriteFormats
  PROVE  Emptied'
<1>1. /\ newRecord \in [Pinfo -> BOOLEAN] /\ arrayDone \in [Pinfo -> BOOLEAN]
      /\ \A c \in Conduit : Out(c) \notin job.ends => ~newRecord[Out(c)]
      /\ pc \in {"write", "put"} => \A c \in Conduit : c < at => Settled(c)
  BY DEF IInv, TypeOK, Emptied
<1>2. UNCHANGED job /\ pc \in {"write", "put"}
  BY DEF WriteFormats, SkipWrite, LockOutput, Put, PutFails, EndWrite, Advance
<1>3. \A c \in Conduit, d \in Conduit : c < d + 1 => c < d \/ c = d
  BY NumConduitsAssumption DEF Conduit
<1>4. CASE SkipWrite
  <2>1. Settled(at) /\ at \in Conduit
    BY <1>1, <1>4 DEF SkipWrite, Idle, Settled
  <2>2. /\ UNCHANGED <<newRecord, arrayDone>> /\ pc' = "write" /\ at' = at + 1
    BY <1>4 DEF SkipWrite, Advance
  <2>3. QED
    BY <1>1, <1>2, <1>3, <2>1, <2>2 DEF Emptied, Settled
<1>5. CASE LockOutput
  BY <1>1, <1>2, <1>5 DEF LockOutput, Emptied, Settled
<1>6. CASE Put
  <2>1. at \in Conduit
    BY <1>6 DEF Put, IInv, AtConduit
  <2>2. /\ newRecord' = [newRecord EXCEPT ![Out(at)] = FALSE]
        /\ \E b : arrayDone' = [arrayDone EXCEPT ![Out(at)] = b]
        /\ pc' = "write" /\ at' = at + 1
    BY <1>6 DEF Put, Unlock, Advance
  <2>3. \A c \in Conduit : newRecord'[Out(c)] =>
           newRecord[Out(c)] /\ c # at /\ arrayDone'[Out(c)] = arrayDone[Out(c)]
    BY <1>1, <2>1, <2>2, InOut, PinfoEnds
  <2>4. QED
    BY <1>1, <1>2, <1>3, <2>1, <2>2, <2>3 DEF Emptied, Settled
<1>7. CASE PutFails
  <2>1. newRecord' = [newRecord EXCEPT ![Out(at)] = FALSE] /\ pc' = "done"
    BY <1>7 DEF PutFails, Unlock
  <2>2. QED
    BY <1>1, <1>2, <2>1, PinfoEnds DEF Emptied
<1>8. CASE EndWrite
  <2>1. \A c \in Conduit : Settled(c)
    BY <1>1, <1>8, NumConduitsAssumption DEF EndWrite, Conduit
  <2>2. UNCHANGED <<newRecord, arrayDone>> /\ pc' \in {"done", "read"}
    BY <1>8 DEF EndWrite, Goto
  <2>3. QED
    BY <1>2, <2>1, <2>2, OutputsKept
<1>9. QED
  BY <1>4, <1>5, <1>6, <1>7, <1>8 DEF WriteFormats

LEMMA IInvStep ==
  ASSUME IInv, [Next]_vars
  PROVE  IInv'
<1>1. CASE UNCHANGED vars
  <2>1. Emptied'
    BY <1>1 DEF vars, control, IInv, Emptied, Settled
  <2>2. QED
    BY <2>1, TypedStep, LockStep DEF IInv
<1>2. QED
  BY <1>1, TypedStep, LockStep, EmptiedRead, EmptiedEndRead, EmptiedConvert, EmptiedWrite
     DEF IInv, Next, Finished

-----------------------------------------------------------------------------
(* The theorems *)

\* FormatCaching: the inductive invariant holds in every state.
THEOREM Inductive == Spec => []IInv
<1>1. IInv /\ [Next]_vars => IInv'
  BY IInvStep
<1>2. QED
  BY <1>1, InitIInv, PTL DEF Spec

\* Every variable holds a value of its type, for every set of conversions: no
\* offset becomes negative (dbevents.c moves them forward only).
THEOREM TypeCorrect == Spec => []TypeOK
<1>1. IInv => TypeOK
  BY DEF IInv
<1>2. QED
  BY <1>1, Inductive, PTL

\* A buffer is locked exactly while it is filled or put: no early return of
\* read_formats or write_formats leaves one locked (ff_lock would refuse it).
THEOREM LocksReleased == Spec => []LockDiscipline
<1>1. IInv => LockDiscipline
  BY DEF IInv
<1>2. QED
  BY <1>1, Inductive, PTL

\* Whatever the query, the headers and the sizes of the caches, a round of
\* reading begins with every output written.
THEOREM OutputsDrained == Spec => []Drained
<1>1. IInv => Drained
  BY DEF IInv, Emptied, Settled, Drained
<1>2. QED
  BY <1>1, Inductive, PTL

\* A cache that holds unprocessed records is never read into: read_formats
\* passes over it, convert_formats waits for it.
THEOREM CachesKept == Spec => CacheStable
<1> DEFINE Stable == \A p \in Pinfo :
             newRecord[p] /\ newRecord'[p] => buffer'[p] \subseteq buffer[p]
<1>1. ASSUME IInv, Next PROVE Stable
  <2>1. /\ newRecord \in [Pinfo -> BOOLEAN]
        /\ buffer \in [Pinfo -> SUBSET (0 .. MaxOffset)]
        /\ pc = "fill" => ~newRecord[In(at)]
    BY <1>1 DEF IInv, TypeOK, AtConduit
  <2>2. CASE UNCHANGED buffer
    BY <2>2
  <2>3. CASE FillFileHeader \/ FillRecordHeader
    <3>1. pc = "fill" /\ (UNCHANGED buffer \/ \E b : buffer' = [buffer EXCEPT ![In(at)] = b])
      BY <2>3 DEF FillFileHeader, FillRecordHeader, Filling, PassBy, Fail
    <3>2. QED
      BY <2>1, <3>1
  <2>4. CASE FillData
    <3>1. pc = "fill" /\ (UNCHANGED buffer \/ \E m : buffer' = Filtered(Full(m)))
      BY <2>4, FillDataShape DEF NotFilled, FilledFrom, Fail
    <3>2. ASSUME NEW m, buffer' = Filtered(Full(m))
          PROVE  Stable
      <4>1. Full(m) \in [Pinfo -> SUBSET (0 .. MaxOffset)]
        BY <2>1, ChunkTyped DEF Full
      <4>2. \A q \in Pinfo : buffer'[q] \subseteq Full(m)[q]
        BY <3>2, <4>1, FilteredLess
      <4>3. \A q \in Pinfo \ {In(at)} : Full(m)[q] = buffer[q]
        BY <2>1 DEF Full
      <4>4. QED
        BY <2>1, <3>1, <4>2, <4>3
    <3>3. QED
      BY <3>1, <3>2
  <2>5. CASE Convert \/ ConvertFails \/ FillTemplate
    <3>1. ~newRecord[Out(at)] /\ \E b : buffer' = [buffer EXCEPT ![Out(at)] = b]
      BY <2>5 DEF Convert, ConvertFails, FillTemplate, Convertible, Templated
    <3>2. QED
      BY <2>1, <3>1
  <2>6. QED
    BY <1>1, <2>2, <2>3, <2>4, <2>5, Zenon DEF Next, Read, EndRead, ConvertFormats,
       WriteFormats, Finished, vars, SkipFormat, LockFormat, FinishReading, WaitForData,
       EndOfData, PassBy, Fail, HeadersRead, RecordHeaderRead, CreateMappings,
       Processing, GiveUp, SkipConversion, EndConversion, SkipWrite, LockOutput, Put,
       PutFails, EndWrite
<1>2. IInv /\ [Next]_vars => [Stable]_vars
  BY <1>1
<1>3. QED
  BY <1>2, Inductive, PTL DEF Spec, CacheStable

-----------------------------------------------------------------------------
(* Conversions without record headers.  The inductive invariant: Data says     *)
(* where the records are, Passes how far the passes have come; a conversion    *)
(* that has failed keeps only Failure.                                         *)

Templates == {c \in Conduit : Out(c) \in job.ends /\ In(c) \notin job.ends}

\* The records that an output is to receive
Expected(c) == IF In(c) \in job.ends THEN job.wanted[c] ELSE {0}
Rank(c, r) == Cardinality({s \in Expected(c) : s < r})
Place(c, r) ==
    [file |-> FileOf(c), pos |-> job.start[Out(c)] + Rank(c, r) * job.recl[Out(c)],
     conduit |-> c, rec |-> r]

\* How far the input has been read
ReadTo(c) == job.start[In(c)] + (job.size[c] - left[In(c)]) * job.recl[In(c)]
Upto(c, t) == {r \in job.wanted[c] : r < t}
\* ... a cache at a time, but for the last one
Even(c) ==
    left[In(c)] > 0 =>
        \E k \in 0 .. job.size[c] : job.size[c] - left[In(c)] = k * job.cache[c]
Seen(c) == Delivered(c) \cup Cached(Out(c)) \cup Cached(In(c))

Fixed ==
    /\ offset = job.start
    /\ mapped = [p \in Pinfo |-> IF p \in job.ends THEN job.size[p[2]] ELSE 0]

Reads ==
    \A c \in Conduit : In(c) \in job.ends =>
        /\ left[In(c)] \in 0 .. job.size[c] /\ Even(c)
        /\ left[In(c)] < job.size[c] => ReadTo(c) <= job.eof[c]
        /\ arrayDone[In(c)] => left[In(c)] = 0
        /\ job.kind[c] = "fileHeader" =>
              /\ newRecord[In(c)] => arrayDone[In(c)]
              /\ ~arrayDone[In(c)] => left[In(c)] = 1

Ordered(c) ==
    /\ \A r \in Delivered(c), s \in Cached(Out(c)) \cup Cached(In(c)) : r < s
    /\ \A r \in Cached(Out(c)), s \in Cached(In(c)) : r < s
Runs == \A c \in Mated : Ordered(c) /\ Seen(c) = Upto(c, ReadTo(c))

Blanks ==
    \A c \in Templates :
        /\ newRecord[Out(c)] => buffer[Out(c)] = {0} /\ Delivered(c) = {}
        /\ arrayDone[Out(c)] <=> Delivered(c) = {0}
        /\ ~arrayDone[Out(c)] => Delivered(c) = {}

Placed ==
    \A w \in disk : /\ w.conduit \in Conduit /\ Out(w.conduit) \in job.ends
                    /\ w.rec \in Expected(w.conduit)
                    /\ w = Place(w.conduit, w.rec)

Counts ==
    \A c \in Conduit : Out(c) \in job.ends =>
        /\ left[Out(c)] = job.size[c] - Cardinality(Delivered(c))
        /\ arrayDone[Out(c)] => left[Out(c)] = 0

Data == Fixed /\ Reads /\ Runs /\ Blanks /\ Placed /\ Counts

AllRead == \A c \in Conduit : In(c) \in job.ends => left[In(c)] = 0
HeaderRead(c) == In(c) \in job.ends /\ job.kind[c] = "fileHeader" => arrayDone[In(c)]
\* The input's records have gone on to the output
Moved(c) ==
    /\ c \in Mated => Cached(In(c)) = {}
    /\ c \in Templates => newRecord[Out(c)] \/ arrayDone[Out(c)]
\* The output's records have gone on to the file
Gone(c) ==
    Out(c) \in job.ends => /\ Cached(Out(c)) = {}
                           /\ c \in Templates => arrayDone[Out(c)]

Reading_Passes ==
    /\ pc \in {"read", "fill", "return"} => ~doneReading
    /\ pc = "fill" => Listed(at)
    /\ pc = "return" => error \in {"none", "EOF", "ERR_READ_FILE"}
    /\ pc = "return" /\ error = "EOF" /\ stage = "process" => AllRead
    /\ stage = "fileHeaders" /\ pc \in {"read", "fill"} =>
          \A c \in Conduit : c < at => HeaderRead(c)
    /\ stage = "fileHeaders" /\ pc = "return" /\ error \in {"none", "EOF"} =>
          \A c \in Conduit : HeaderRead(c)
    /\ stage # "fileHeaders" => \A c \in Conduit : HeaderRead(c)
    /\ doneReading => AllRead

Moving_Passes ==
    /\ pc = "convert" => \A c \in Conduit : IF c < at THEN Moved(c) ELSE Settled(c)
    /\ pc \in {"write", "put", "done"} => \A c \in Conduit : Moved(c)
    /\ pc \in {"write", "put"} => \A c \in Conduit : c < at => Gone(c)
    /\ pc = "put" => ~Idle(at)
    /\ pc = "done" => doneReading /\ \A c \in Conduit : Gone(c)

Passes == Reading_Passes /\ Moving_Passes

\* A query that fails in the middle of a cache ends the conversion: nothing but
\* GiveUp is left to come.
Failed ==
    error # "none" /\ (pc = "done" \/ (pc = "return" /\ error = "ERR_GEN_QUERY"))
Right == IF Failed THEN Placed /\ Conservation ELSE Data /\ Passes
PlainInv == IInv /\ job \in Jobs /\ PlainJob(job) /\ Right


-----------------------------------------------------------------------------
(* Arithmetic and counting                                                    *)

\* Records of one length lie in the order of their numbers.
LEMMA Multiples ==
  ASSUME NEW m \in Nat \ {0}, NEW a \in Nat, NEW b \in Nat
  PROVE  /\ a * m \in Nat
         /\ (a + b) * m = a * m + b * m
         /\ (a + 1) * m = a * m + m
         /\ a < b <=> a * m < b * m
         /\ a <= b <=> a * m <= b * m
<1>1. a * m \in Nat /\ (a + b) * m = a * m + b * m /\ (a + 1) * m = a * m + m
  BY SMT
<1>2. a < b => a * m < b * m
  <2>1. SUFFICES ASSUME a < b PROVE a * m < b * m
    OBVIOUS
  <2>2. PICK d \in Nat \ {0} : b = a + d
    <3>1. b - a \in Nat \ {0} /\ b = a + (b - a)
      BY <2>1
    <3>2. QED
      BY <3>1
  <2>3. b * m = a * m + d * m /\ d * m >= m
    BY <2>2, SMT
  <2>4. QED
    BY <1>1, <2>3, SMT
<1>3. b < a => b * m < a * m
  <2>1. SUFFICES ASSUME b < a PROVE b * m < a * m
    OBVIOUS
  <2>2. PICK d \in Nat \ {0} : a = b + d
    <3>1. a - b \in Nat \ {0} /\ a = b + (a - b)
      BY <2>1
    <3>2. QED
      BY <3>1
  <2>3. a * m = b * m + d * m /\ d * m >= m
    BY <2>2, SMT
  <2>4. b * m \in Nat
    BY SMT
  <2>5. QED
    BY <2>3, <2>4, SMT
<1>4. b * m \in Nat
  BY SMT
<1>5. QED
  BY <1>1, <1>2, <1>3, <1>4, SMT

\* What a conversion under way knows of itself.
LEMMA PlainTyped ==
  ASSUME job \in JobSpace
  PROVE  /\ \A p \in Pinfo : job.recl[p] \in Nat \ {0} /\ job.start[p] \in Nat
         /\ \A c \in Conduit : /\ job.size[c] \in Nat
                               /\ job.cache[c] \in Nat \ {0}
                               /\ job.eof[c] \in 0 .. MaxOffset
                               /\ job.wanted[c] \in SUBSET (0 .. MaxOffset)
         /\ job.ends \in SUBSET Pinfo
<1>1. /\ job.recl \in [Pinfo -> Nat \ {0}]
      /\ job.start \in [Pinfo -> Nat]
      /\ job.size \in [Conduit -> Nat]
      /\ job.cache \in [Conduit -> Nat \ {0}]
      /\ job.eof \in [Conduit -> 0 .. MaxOffset]
      /\ job.wanted \in [Conduit -> SUBSET (0 .. MaxOffset)]
      /\ job.ends \in SUBSET Pinfo
  BY DEF JobSpace
<1>2. QED
  BY <1>1

LEMMA ExpectedFinite ==
  ASSUME job \in JobSpace, NEW c \in Conduit
  PROVE  /\ Expected(c) \in SUBSET (0 .. MaxOffset)
         /\ \A S \in SUBSET Expected(c) : IsFiniteSet(S) /\ Cardinality(S) \in Nat
<1>1. Expected(c) \in SUBSET (0 .. MaxOffset)
  BY PlainTyped, MaxOffsetAssumption DEF Expected
<1>2. IsFiniteSet(0 .. MaxOffset)
  BY MaxOffsetAssumption, FS_Interval
<1>3. QED
  BY <1>1, <1>2, FS_Subset, FS_CardinalityType

\* Sizes of parts of the expected records: of two sets without a common member
\* the counts add, of a part the count is no more.
LEMMA Parts ==
  ASSUME job \in JobSpace, NEW c \in Conduit, NEW S, NEW T,
         S \subseteq Expected(c), T \subseteq Expected(c)
  PROVE  /\ S \cap T = {} => Cardinality(S \cup T) = Cardinality(S) + Cardinality(T)
         /\ S \subseteq T => Cardinality(S) <= Cardinality(T)
         /\ S \subseteq T /\ Cardinality(S) = Cardinality(T) => S = T
<1>1. IsFiniteSet(S) /\ IsFiniteSet(T) /\ Cardinality(S) \in Nat /\ Cardinality(T) \in Nat
  BY ExpectedFinite
<1>2. S \cap T = {} => Cardinality(S \cup T) = Cardinality(S) + Cardinality(T)
  <2>1. Cardinality(S \cup T) = Cardinality(S) + Cardinality(T) - Cardinality(S \cap T)
    BY <1>1, FS_Union
  <2>2. S \cap T = {} => Cardinality(S \cap T) = 0
    BY FS_EmptySet
  <2>3. SUFFICES ASSUME S \cap T = {}
                 PROVE  Cardinality(S \cup T) = Cardinality(S) + Cardinality(T)
    OBVIOUS
  <2>4. Cardinality(S \cap T) = 0
    BY <2>2, <2>3
  <2>5. QED
    BY <1>1, <2>1, <2>4
<1>3. QED
  BY <1>1, <1>2, FS_Subset

\* Every record has a rank of its own, in the order of the records.
LEMMA Ranks ==
  ASSUME job \in JobSpace, NEW c \in Conduit, NEW r \in Expected(c)
  PROVE  /\ Rank(c, r) \in Nat
         /\ Rank(c, r) + 1 <= Cardinality(Expected(c))
         /\ \A s \in Expected(c) : r < s => Rank(c, r) + 1 <= Rank(c, s)
<1> DEFINE before(s) == {t \in Expected(c) : t < s}
<1>1. Expected(c) \in SUBSET (0 .. MaxOffset)
  BY ExpectedFinite
<1>2. \A s : IsFiniteSet(before(s)) /\ Cardinality(before(s)) \in Nat
  BY ExpectedFinite
<1>3. Cardinality(before(r) \cup {r}) = Cardinality(before(r)) + 1
  <2>1. r \notin before(r)
    BY <1>1, MaxOffsetAssumption
  <2>2. QED
    BY <1>2, <2>1, FS_AddElement
<1>4. ASSUME NEW T, T \subseteq Expected(c), before(r) \cup {r} \subseteq T
      PROVE  Cardinality(before(r)) + 1 <= Cardinality(T)
  BY <1>3, <1>4, Parts, SMTT(30)
<1>5. ASSUME NEW s \in Expected(c), r < s
      PROVE  before(r) \cup {r} \subseteq before(s)
  BY <1>1, <1>5, MaxOffsetAssumption
<1>6. \A s \in Expected(c) : r < s => Cardinality(before(r)) + 1 <= Cardinality(before(s))
  BY <1>4, <1>5
<1>7. Cardinality(before(r)) + 1 <= Cardinality(Expected(c))
  BY <1>4
<1>8. QED
  BY <1>2, <1>6, <1>7 DEF Rank

\* No output has more records to receive than are mapped to it.
LEMMA ExpectedSize ==
  ASSUME job \in JobSpace, PlainJob(job), NEW c \in Conduit, Out(c) \in job.ends
  PROVE  Cardinality(Expected(c)) <= job.size[c]
<1>1. In(c) \in Pinfo /\ Out(c) \in Pinfo
  BY PinfoEnds
<1>2. job.size[c] \in Nat /\ job.start[In(c)] \in Nat /\ job.recl[In(c)] \in Nat
  BY <1>1, PlainTyped
<1>3. CASE In(c) \in job.ends
  <2> DEFINE f == [i \in 0 .. job.size[c] - 1 |-> job.start[In(c)] + i * job.recl[In(c)]]
             T == {f[i] : i \in 0 .. job.size[c] - 1}
  <2>1. IsFiniteSet(0 .. job.size[c] - 1) /\ Cardinality(0 .. job.size[c] - 1) = job.size[c]
    <3> DEFINE n == job.size[c]
    <3> HIDE DEF f, T
    <3>1. n \in Nat /\ 0 \in Int /\ n - 1 \in Int
      BY <1>2
    <3> HIDE DEF n
    <3>2. IsFiniteSet(0 .. n - 1)
          /\ Cardinality(0 .. n - 1) = IF 0 > n - 1 THEN 0 ELSE n - 1 - 0 + 1
      BY <3>1, FS_Interval
    <3>3. (IF 0 > n - 1 THEN 0 ELSE n - 1 - 0 + 1) = n
      BY <3>1
    <3>4. QED
      BY <3>2, <3>3 DEF n
  <2>2. f \in Surjection(0 .. job.size[c] - 1, T)
    BY DEF Surjection
  <2>3. IsFiniteSet(T) /\ Cardinality(T) <= job.size[c]
    <3> HIDE DEF f, T
    <3>1. QED
      BY <2>1, <2>2, FS_Surjection
  <2>4. Expected(c) \subseteq T
    <3>1. \A r \in Expected(c) : \E i \in 0 .. job.size[c] - 1 :
             r = job.start[In(c)] + i * job.recl[In(c)]
      BY <1>3 DEF PlainJob, Expected
    <3>2. QED
      BY <3>1
  <2>5. Cardinality(Expected(c)) \in Nat /\ Cardinality(Expected(c)) <= Cardinality(T)
        /\ Cardinality(T) \in Nat
    BY <2>3, <2>4, ExpectedFinite, FS_Subset, FS_CardinalityType
  <2>6. QED
    BY <1>2, <2>3, <2>5
<1>4. CASE In(c) \notin job.ends
  <2>1. job.size[c] = 1
    BY <1>4 DEF PlainJob
  <2>2. Expected(c) = {0}
    BY <1>4 DEF Expected
  <2>3. Cardinality(Expected(c)) = 1
    BY <2>2, FS_Singleton
  <2>4. QED
    BY <2>1, <2>3
<1>5. QED
  BY <1>3, <1>4

\* The places of an output's records lie in its region, one behind the other.
LEMMA Places ==
  ASSUME job \in JobSpace, PlainJob(job), NEW c \in Conduit, Out(c) \in job.ends,
         NEW r \in Expected(c)
  PROVE  /\ Place(c, r).pos \in Nat
         /\ job.start[Out(c)] <= Place(c, r).pos
         /\ Place(c, r).pos + job.recl[Out(c)] <= RegionEnd(job, Out(c))
         /\ \A s \in Expected(c) :
              r < s => Place(c, r).pos + job.recl[Out(c)] <= Place(c, s).pos
<1> DEFINE m == job.recl[Out(c)]
           b == job.start[Out(c)]
           n == job.size[c]
<1>1. m \in Nat \ {0} /\ b \in Nat /\ n \in Nat
  BY PinfoEnds, PlainTyped
<1>2. \A s \in Expected(c) : Place(c, s).pos = b + Rank(c, s) * m
  BY DEF Place
<1>3. RegionEnd(job, Out(c)) = b + n * m
  BY DEF RegionEnd, Out
<1>4. /\ Rank(c, r) \in Nat /\ Rank(c, r) + 1 <= n
      /\ \A s \in Expected(c) : Rank(c, s) \in Nat
      /\ \A s \in Expected(c) : r < s => Rank(c, r) + 1 <= Rank(c, s)
  <2>1. Cardinality(Expected(c)) \in Nat /\ Cardinality(Expected(c)) <= n
    BY ExpectedSize, ExpectedFinite
  <2>2. QED
    BY <1>1, <2>1, Ranks
<1> HIDE DEF m, b, n
<1>5. Rank(c, r) * m \in Nat
  BY <1>1, <1>4, Multiples
<1>6. ASSUME NEW k \in Nat, Rank(c, r) + 1 <= k
      PROVE  Rank(c, r) * m + m <= k * m /\ k * m \in Nat
  <2>1. (Rank(c, r) + 1) * m = Rank(c, r) * m + m /\ k * m \in Nat
    BY <1>1, <1>4, Multiples
  <2>2. (Rank(c, r) + 1) * m <= k * m
    BY <1>1, <1>4, <1>6, Multiples
  <2>3. QED
    BY <2>1, <2>2
<1>7. b + Rank(c, r) * m + m <= b + n * m
  <2>1. Rank(c, r) * m + m <= n * m /\ n * m \in Nat
    BY <1>1, <1>4, <1>6
  <2>2. QED
    BY <1>1, <1>5, <2>1
<1>8. ASSUME NEW s \in Expected(c), r < s
      PROVE  b + Rank(c, r) * m + m <= b + Rank(c, s) * m
  <2>1. Rank(c, r) * m + m <= Rank(c, s) * m /\ Rank(c, s) * m \in Nat
    BY <1>4, <1>6, <1>8
  <2>2. QED
    BY <1>1, <1>5, <2>1
<1>9. Place(c, r).pos \in Nat /\ b <= Place(c, r).pos
  BY <1>1, <1>2, <1>5
<1>10. QED
  BY <1>2, <1>3, <1>7, <1>8, <1>9 DEF m, b

\* No two records share a byte of a file.
LEMMA PlacesApart ==
  ASSUME job \in JobSpace, PlainJob(job),
         NEW c \in Conduit, Out(c) \in job.ends, NEW r \in Expected(c),
         NEW d \in Conduit, Out(d) \in job.ends, NEW s \in Expected(d),
         c # d \/ r # s
  PROVE  ~Overlaps(Place(c, r), Place(d, s))
<1>1. /\ Place(c, r).file = FileOf(c) /\ Place(d, s).file = FileOf(d)
      /\ Place(c, r).conduit = c /\ Place(d, s).conduit = d
  BY DEF Place
<1>2. /\ job.recl[Out(c)] \in Nat \ {0} /\ job.recl[Out(d)] \in Nat \ {0}
      /\ job.start[Out(c)] \in Nat /\ job.start[Out(d)] \in Nat
  BY PinfoEnds, PlainTyped
<1>3. /\ Place(c, r).pos \in Nat /\ Place(d, s).pos \in Nat
      /\ job.start[Out(c)] <= Place(c, r).pos /\ job.start[Out(d)] <= Place(d, s).pos
      /\ Place(c, r).pos + job.recl[Out(c)] <= RegionEnd(job, Out(c))
      /\ Place(d, s).pos + job.recl[Out(d)] <= RegionEnd(job, Out(d))
  BY Places
<1>4. RegionEnd(job, Out(c)) \in Nat /\ RegionEnd(job, Out(d)) \in Nat
  <2>1. job.size[c] * job.recl[Out(c)] \in Nat /\ job.size[d] * job.recl[Out(d)] \in Nat
    BY PinfoEnds, PlainTyped, NatProduct
  <2>2. QED
    BY <1>2, <2>1 DEF RegionEnd, Out
<1>5. SUFFICES ASSUME FileOf(c) = FileOf(d)
               PROVE  \/ Place(d, s).pos + job.recl[Out(d)] <= Place(c, r).pos
                      \/ Place(c, r).pos + job.recl[Out(c)] <= Place(d, s).pos
  BY <1>1, <1>2, <1>3 DEF Overlaps
<1>6. CASE c = d
  <2>1. r \in Int /\ s \in Int /\ r # s
    BY <1>6, ExpectedFinite, MaxOffsetAssumption
  <2>2. QED
    BY <1>6, <2>1, Places
<1>7. CASE c # d
  <2>1. SameFile(job, c, d) /\ SameFile(job, d, c)
    <3>1. job.kind[c] # "recHeader" /\ job.kind[d] # "recHeader"
      BY DEF PlainJob
    <3>2. QED
      BY <1>5, <3>1 DEF FileOf, SameFile
  <2>2. c \in Int /\ d \in Int
    BY DEF Conduit
  <2>3. \/ RegionEnd(job, Out(c)) <= job.start[Out(d)]
        \/ RegionEnd(job, Out(d)) <= job.start[Out(c)]
    BY <1>7, <2>1, <2>2 DEF PlainJob
  <2>4. QED
    BY <1>2, <1>3, <1>4, <2>3
<1>8. QED
  BY <1>6, <1>7

-----------------------------------------------------------------------------
(* What the invariant says of the files                                       *)

\* The three runs of Conservation, for sets in general.
Consecutive(D, O, I, W) ==
    LET runs == <<D, O, I>>
        seen == UNION {runs[i] : i \in 1 .. 3}
    IN  /\ \A i, j \in 1 .. 3 : i < j =>
              \A r \in runs[i], s \in runs[j] : r < s
        /\ seen \subseteq W
        /\ \A r \in W : (\E s \in seen : r < s) => r \in seen

LEMMA ThreeRuns ==
  ASSUME NEW D, NEW O, NEW I, NEW W \in SUBSET Nat, NEW t \in Int,
         D \cup O \cup I = {r \in W : r < t},
         \A r \in D, s \in O \cup I : r < s,
         \A r \in O, s \in I : r < s
  PROVE  Consecutive(D, O, I, W)
<1> DEFINE runs == <<D, O, I>>
           seen == UNION {runs[i] : i \in 1 .. 3}
<1>1. runs[1] = D /\ runs[2] = O /\ runs[3] = I
  OBVIOUS
<1>2. 1 .. 3 = {1, 2, 3}
  OBVIOUS
<1>3. seen = D \cup O \cup I
  <2>1. seen = UNION {D, O, I}
    BY <1>1, <1>2
  <2>2. QED
    BY <2>1
<1>4. \A i, j \in 1 .. 3 : i < j => \A r \in runs[i], s \in runs[j] : r < s
  <2>1. \A i, j \in 1 .. 3 : i < j =>
           (i = 1 /\ j = 2) \/ (i = 1 /\ j = 3) \/ (i = 2 /\ j = 3)
    OBVIOUS
  <2> HIDE DEF runs
  <2>2. QED
    BY <1>1, <2>1
<1> HIDE DEF seen, runs
<1>5. seen \subseteq W
  BY <1>3
<1>6. ASSUME NEW r \in W, NEW s \in seen, r < s
      PROVE  r \in seen
  <2>1. s \in W /\ s < t
    BY <1>3
  <2>2. r \in Int /\ s \in Int
    BY <2>1
  <2>3. r < t
    BY <1>6, <2>1, <2>2
  <2>4. QED
    BY <1>3, <2>3
<1>7. QED
  BY <1>4, <1>5, <1>6 DEF Consecutive, runs, seen

\* They stay so without the last one.
LEMMA TwoRuns ==
  ASSUME NEW D, NEW O, NEW I, NEW W \in SUBSET Nat, Consecutive(D, O, I, W)
  PROVE  Consecutive(D, O, {}, W)
<1> DEFINE three == <<D, O, I>>
           two == <<D, O, {}>>
           seen3 == UNION {three[i] : i \in 1 .. 3}
           seen2 == UNION {two[i] : i \in 1 .. 3}
<1>1. /\ three[1] = D /\ three[2] = O /\ three[3] = I
      /\ two[1] = D /\ two[2] = O /\ two[3] = {}
  OBVIOUS
<1>2. 1 .. 3 = {1, 2, 3}
  OBVIOUS
<1>3. seen3 = D \cup O \cup I /\ seen2 = D \cup O
  <2>1. seen3 = UNION {D, O, I} /\ seen2 = UNION {D, O, {}}
    BY <1>1, <1>2
  <2>2. QED
    BY <2>1
<1>4. /\ \A i, j \in 1 .. 3 : i < j => \A r \in three[i], s \in three[j] : r < s
      /\ seen3 \subseteq W
      /\ \A r \in W : (\E s \in seen3 : r < s) => r \in seen3
  BY DEF Consecutive
<1> HIDE DEF three, two, seen3, seen2
<1>5. /\ \A r \in D, s \in O \cup I : r < s
      /\ \A r \in O, s \in I : r < s
  <2>1. 1 < 2 /\ 1 < 3 /\ 2 < 3
    OBVIOUS
  <2>2. QED
    BY <1>1, <1>2, <1>4, <2>1
<1>6. \A i, j \in 1 .. 3 : i < j => \A r \in two[i], s \in two[j] : r < s
  <2>1. \A i, j \in 1 .. 3 : i < j =>
           (i = 1 /\ j = 2) \/ (i = 1 /\ j = 3) \/ (i = 2 /\ j = 3)
    OBVIOUS
  <2>2. QED
    BY <1>1, <1>5, <2>1
<1>7. ASSUME NEW r \in W, NEW s \in seen2, r < s
      PROVE  r \in seen2
  <2>1. r \in D \cup O \cup I
    BY <1>3, <1>4, <1>7
  <2>2. r \in I => s < r
    BY <1>3, <1>5
  <2>3. r \in Nat /\ s \in Nat
    BY <1>3, <1>4
  <2>4. QED
    BY <1>3, <1>7, <2>1, <2>2, <2>3
<1>8. seen2 \subseteq W
  BY <1>3, <1>4
<1>9. QED
  BY <1>6, <1>7, <1>8 DEF Consecutive, two, seen2

LEMMA WantedNat ==
  ASSUME TypeOK, NEW c \in Mated
  PROVE  job.wanted[c] \in SUBSET Nat
  BY PlainTyped, MaxOffsetAssumption DEF Mated, TypeOK

LEMMA DataRuns ==
  ASSUME TypeOK, Data, NEW c \in Mated
  PROVE  Consecutive(Delivered(c), Cached(Out(c)), Cached(In(c)), job.wanted[c])
<1>1. c \in Conduit /\ In(c) \in job.ends
  BY DEF Mated
<1>2. job.wanted[c] \in SUBSET Nat
  BY WantedNat
<1>3. ReadTo(c) \in Int
  <2>1. left[In(c)] \in Int /\ job.size[c] \in Int /\ job.start[In(c)] \in Int
        /\ job.recl[In(c)] \in Int
    BY <1>1, PinfoEnds, PlainTyped DEF TypeOK
  <2>2. \A x, y \in Int : x * y \in Int
    BY SMT
  <2>3. (job.size[c] - left[In(c)]) * job.recl[In(c)] \in Int
    BY <2>1, <2>2
  <2>4. QED
    BY <2>1, <2>3 DEF ReadTo
<1>4. Ordered(c) /\ Seen(c) = Upto(c, ReadTo(c))
  BY DEF Data, Runs
<1>5. QED
  BY <1>2, <1>3, <1>4, ThreeRuns DEF Ordered, Seen, Upto

LEMMA DataConserves ==
  ASSUME TypeOK, Data
  PROVE  Conservation
<1> SUFFICES ASSUME NEW c \in Mated
             PROVE  Consecutive(Delivered(c), Cached(Out(c)), Held(c), job.wanted[c])
  BY DEF Conservation, Consecutive
<1>1. Held(c) = Cached(In(c)) \/ Held(c) = {}
  BY DEF Held
<1>2. QED
  BY <1>1, DataRuns, TwoRuns, WantedNat

LEMMA PlacedInOrder ==
  ASSUME TypeOK, PlainJob(job), Placed
  PROVE  InOrder
<1> SUFFICES ASSUME NEW v \in disk, NEW w \in disk, v.file = w.file,
                    v.conduit = w.conduit \/
                      (~job.sepIn /\ {v.conduit, w.conduit} \subseteq Mated),
                    v.rec < w.rec
             PROVE  v.pos < w.pos
  BY DEF InOrder
<1> DEFINE c == v.conduit
           d == w.conduit
<1>1. /\ c \in Conduit /\ d \in Conduit
      /\ Out(c) \in job.ends /\ Out(d) \in job.ends
      /\ v.rec \in Expected(c) /\ w.rec \in Expected(d)
      /\ v = Place(c, v.rec) /\ w = Place(d, w.rec)
  BY DEF Placed
<1>2. job \in JobSpace
  BY DEF TypeOK
<1>3. /\ v.pos \in Nat /\ w.pos \in Nat
      /\ job.recl[Out(c)] \in Nat \ {0} /\ job.recl[Out(d)] \in Nat \ {0}
  BY <1>1, <1>2, Places, PlainTyped, PinfoEnds
<1>4. CASE c = d
  <2>1. v.pos + job.recl[Out(c)] <= w.pos
    BY <1>1, <1>2, <1>4, Places
  <2>2. QED
    BY <1>3, <2>1
<1>5. CASE c # d
  <2>1. ~job.sepIn /\ c \in Mated /\ d \in Mated
    BY <1>5
  <2>2. SameFile(job, c, d)
    <3>1. job.kind[c] # "recHeader" /\ job.kind[d] # "recHeader"
      BY <1>1 DEF PlainJob
    <3>2. FileOf(c) = FileOf(d)
      <4>1. v.file = FileOf(c) /\ w.file = FileOf(d)
        BY <1>1 DEF Place
      <4>2. QED
        BY <4>1
    <3>3. QED
      BY <3>1, <3>2 DEF FileOf, SameFile
  <2>3. c \in Int /\ d \in Int
    BY <1>1 DEF Conduit
  <2>4. CASE c < d
    <3>1. RegionEnd(job, Out(c)) <= job.start[Out(d)]
      BY <1>1, <2>2, <2>4 DEF PlainJob
    <3>2. v.pos + job.recl[Out(c)] <= RegionEnd(job, Out(c)) /\ job.start[Out(d)] <= w.pos
      BY <1>1, <1>2, Places
    <3>3. RegionEnd(job, Out(c)) \in Int /\ job.start[Out(d)] \in Int
      <4>1. job.size[c] * job.recl[Out(c)] \in Nat
        BY <1>1, <1>2, PinfoEnds, PlainTyped, NatProduct
      <4>2. QED
        BY <1>1, <1>2, <4>1, PinfoEnds, PlainTyped DEF RegionEnd, Out
    <3>4. QED
      BY <1>3, <3>1, <3>2, <3>3
  <2>5. CASE d < c
    \* the records of d lie in front of those of c in the input
    <3>1. {In(c), In(d)} \subseteq job.ends
      BY <2>1 DEF Mated
    <3>2. RegionEnd(job, In(d)) <= job.start[In(c)]
      BY <1>1, <2>1, <2>5, <3>1 DEF PlainJob
    <3> DEFINE m == job.recl[In(d)]
               b == job.start[In(d)]
               n == job.size[d]
    <3>3. PICK i \in 0 .. job.size[d] - 1 : w.rec = b + i * m
      BY <1>1, <2>1, <3>1 DEF PlainJob, Expected, Mated
    <3>4. PICK k \in 0 .. job.size[c] - 1 : v.rec = job.start[In(c)] + k * job.recl[In(c)]
      BY <1>1, <2>1, <3>1 DEF PlainJob, Expected, Mated
    <3>5. m \in Nat \ {0} /\ b \in Nat /\ n \in Nat /\ job.start[In(c)] \in Nat
          /\ job.recl[In(c)] \in Nat \ {0} /\ job.size[c] \in Nat
      BY <1>1, <1>2, PlainTyped, PinfoEnds
    <3>6. RegionEnd(job, In(d)) = b + n * m
      BY DEF RegionEnd, In
    <3>7. i \in Nat /\ i < n /\ k \in Nat
      BY <3>5
    <3> HIDE DEF m, b, n
    <3>8. i * m < n * m /\ i * m \in Nat /\ n * m \in Nat
      BY <3>5, <3>7, Multiples
    <3>9. k * job.recl[In(c)] \in Nat
      BY <3>5, <3>7, Multiples
    <3>10. w.rec < v.rec
      BY <3>2, <3>3, <3>4, <3>5, <3>6, <3>8, <3>9
    <3>11. v.rec \in Int /\ w.rec \in Int
      BY <3>3, <3>4, <3>5, <3>8, <3>9
    <3>12. QED
      BY <3>10, <3>11
  <2>6. QED
    BY <1>5, <2>3, <2>4, <2>5
<1>6. QED
  BY <1>4, <1>5

LEMMA PlacedOnce ==
  ASSUME Placed
  PROVE  TemplateOnce
<1> SUFFICES ASSUME NEW v \in disk, NEW w \in disk, v.conduit = w.conduit,
                    In(v.conduit) \notin job.ends
             PROVE  v = w
  BY DEF TemplateOnce
<1>1. v.rec = 0 /\ w.rec = 0
  BY DEF Placed, Expected
<1>2. QED
  BY <1>1 DEF Placed

-----------------------------------------------------------------------------
(* What a success leaves                                                      *)

\* All of the mapped records have been read: they are all within the file.
LEMMA AllWanted ==
  ASSUME TypeOK, PlainJob(job), Reads, AllRead, NEW c \in Mated
  PROVE  /\ Upto(c, ReadTo(c)) = job.wanted[c]
         /\ ~Thinned(job, c) => Cardinality(job.wanted[c]) = job.size[c]
<1> DEFINE b == job.start[In(c)]
           m == job.recl[In(c)]
           n == job.size[c]
<1>1. c \in Conduit /\ In(c) \in job.ends /\ job \in JobSpace
  BY DEF Mated, TypeOK
<1>2. /\ b \in Nat /\ m \in Nat \ {0} /\ n \in Nat /\ job.eof[c] \in 0 .. MaxOffset
      /\ job.wanted[c] \in SUBSET (0 .. MaxOffset)
  BY <1>1, PlainTyped, PinfoEnds
<1>3. job.wanted[c] = {r \in 0 .. MaxOffset :
              /\ \E i \in 0 .. n - 1 : r = b + i * m
              /\ Thinned(job, c) => r \in job.keep}
  BY <1>1 DEF PlainJob, Mated
<1>4. ReadTo(c) = b + n * m /\ (n > 0 => ReadTo(c) <= job.eof[c])
  <2>1. left[In(c)] = 0
    BY <1>1 DEF AllRead
  <2>2. ReadTo(c) = b + (n - 0) * m /\ n - 0 = n
    BY <1>2, <2>1 DEF ReadTo
  <2>3. left[In(c)] < job.size[c] => ReadTo(c) <= job.eof[c]
    BY <1>1 DEF Reads
  <2>4. ReadTo(c) = b + n * m
    BY <2>2
  <2>5. n > 0 => ReadTo(c) <= job.eof[c]
    <3> HIDE DEF b, m
    <3>1. QED
      BY <1>2, <2>1, <2>3
  <2>6. QED
    BY <2>4, <2>5
<1> HIDE DEF b, m, n
<1>5. \A i \in 0 .. n - 1 : b + i * m \in Nat /\ b + i * m < b + n * m /\ n > 0
  <2>1. TAKE i \in 0 .. n - 1
  <2>2. i \in Nat /\ i < n
    BY <1>2
  <2>3. i * m \in Nat /\ n * m \in Nat /\ i * m < n * m
    BY <1>2, <2>2, Multiples
  <2>4. QED
    BY <1>2, <2>2, <2>3
<1>6. Upto(c, ReadTo(c)) = job.wanted[c]
  BY <1>3, <1>4, <1>5 DEF Upto
<1>7. ASSUME ~Thinned(job, c)
      PROVE  Cardinality(job.wanted[c]) = n
  <2> DEFINE f == [i \in 0 .. n - 1 |-> b + i * m]
  <2>1. \A i \in 0 .. n - 1 : b + i * m \in 0 .. MaxOffset
    <3>1. TAKE i \in 0 .. n - 1
    <3>2. b + i * m \in Nat /\ b + i * m < ReadTo(c) /\ ReadTo(c) <= job.eof[c]
      BY <1>4, <1>5
    <3>3. ReadTo(c) \in Int
      <4>1. n * m \in Nat
        BY <1>2, Multiples
      <4>2. QED
        BY <1>2, <1>4, <4>1
    <3>4. job.eof[c] \in Int /\ job.eof[c] <= MaxOffset /\ MaxOffset \in Int
      BY <1>2, MaxOffsetAssumption
    <3>5. QED
      BY <3>2, <3>3, <3>4
  <2>2. job.wanted[c] = {b + i * m : i \in 0 .. n - 1}
    BY <1>3, <1>7, <2>1
  <2>3. \A i, k \in 0 .. n - 1 : i # k => b + i * m # b + k * m
    <3>1. TAKE i, k \in 0 .. n - 1
    <3>2. i \in Nat /\ k \in Nat
      BY <1>2
    <3>3. i * m \in Nat /\ k * m \in Nat /\ (i < k => i * m < k * m) /\ (k < i => k * m < i * m)
      BY <1>2, <3>2, Multiples
    <3>4. QED
      BY <1>2, <3>2, <3>3
  <2>4. f \in Bijection(0 .. n - 1, job.wanted[c])
    <3>1. f \in [0 .. n - 1 -> job.wanted[c]]
      BY <2>2
    <3>2. \A x, y \in 0 .. n - 1 : f[x] = f[y] => x = y
      BY <2>3
    <3>3. \A t \in job.wanted[c] : \E i \in 0 .. n - 1 : f[i] = t
      BY <2>2
    <3> HIDE DEF f
    <3>4. QED
      BY <3>1, <3>2, <3>3 DEF Bijection, Injection, Surjection, IsInjective
  <2>5. IsFiniteSet(0 .. n - 1) /\ Cardinality(0 .. n - 1) = n
    <3>1. IsFiniteSet(0 .. n - 1)
          /\ Cardinality(0 .. n - 1) = IF 0 > n - 1 THEN 0 ELSE n - 1 - 0 + 1
      BY <1>2, FS_Interval
    <3>2. (IF 0 > n - 1 THEN 0 ELSE n - 1 - 0 + 1) = n
      BY <1>2
    <3>3. QED
      BY <3>1, <3>2
  <2>6. ExistsBijection(0 .. n - 1, job.wanted[c])
    BY <2>4 DEF ExistsBijection
  <2>7. QED
    BY <2>5, <2>6, FS_Bijection
<1>8. QED
  BY <1>6, <1>7 DEF n

LEMMA AllDelivered ==
  ASSUME TypeOK, PlainJob(job), Data, Passes, pc = "done"
  PROVE  /\ \A c \in Conduit : Out(c) \in job.ends =>
              /\ Delivered(c) = Expected(c)
              /\ ~Thinned(job, c) => Cardinality(Expected(c)) = job.size[c]
         /\ AllRead
<1>1. /\ AllRead /\ \A c \in Conduit : Moved(c) /\ Gone(c)
  BY DEF Passes, Reading_Passes, Moving_Passes
<1>2. ASSUME NEW c \in Mated
      PROVE  Delivered(c) = job.wanted[c] /\ Expected(c) = job.wanted[c]
             /\ (~Thinned(job, c) => Cardinality(job.wanted[c]) = job.size[c])
  <2>1. c \in Conduit /\ In(c) \in job.ends /\ Out(c) \in job.ends
    BY DEF Mated
  <2>2. Seen(c) = job.wanted[c]
    BY <1>1, AllWanted DEF Data, Runs
  <2>3. Cached(In(c)) = {} /\ Cached(Out(c)) = {}
    BY <1>1, <2>1 DEF Moved, Gone
  <2>4. QED
    BY <1>1, <2>1, <2>2, <2>3, AllWanted DEF Data, Seen, Expected
<1>3. ASSUME NEW c \in Templates
      PROVE  Delivered(c) = {0} /\ Expected(c) = {0} /\ job.size[c] = 1
  <2>1. arrayDone[Out(c)] /\ c \in Conduit
    BY <1>1 DEF Gone, Templates
  <2>2. QED
    BY <2>1 DEF Data, Blanks, Templates, Expected, PlainJob
<1>4. \A c \in Conduit : Out(c) \in job.ends => c \in Mated \/ c \in Templates
  BY DEF Mated, Templates
<1>5. ASSUME NEW c \in Conduit, Out(c) \in job.ends
      PROVE  /\ Delivered(c) = Expected(c)
             /\ ~Thinned(job, c) => Cardinality(Expected(c)) = job.size[c]
  <2>1. CASE c \in Mated
    BY <1>2, <2>1
  <2>2. CASE c \in Templates
    BY <1>3, <2>2, FS_Singleton
  <2>3. QED
    BY <1>4, <1>5, <2>1, <2>2
<1>6. QED
  BY <1>1, <1>5

\* Every set of offsets has a last one.
LEMMA LastOffset ==
  ASSUME NEW S \in SUBSET (0 .. MaxOffset), S # {}
  PROVE  \E s \in S : \A t \in S : t <= s
<1> DEFINE R == {ss \in Nat \X Nat : ss[1] < ss[2]}
           T == {MaxOffset - s : s \in S}
<1>1. IsWellFoundedOn(R, Nat)
  BY NatLessThanWellFounded DEF OpToRel
<1>2. T \in SUBSET Nat /\ T # {}
  <2>1. \A s \in S : MaxOffset - s \in Nat
    BY MaxOffsetAssumption
  <2>2. QED
    BY <2>1
<1> HIDE DEF R
<1>3. PICK n \in T : \A m \in T : ~(<<m, n>> \in R)
  <2> HIDE DEF T
  <2>1. QED
    BY <1>1, <1>2, WFMin
<1>4. \A m \in T : n <= m
  <2>1. \A m \in T : ~(m < n) /\ m \in Nat /\ n \in Nat
    <3> HIDE DEF T
    <3>1. QED
      BY <1>2, <1>3 DEF R
  <2>2. QED
    BY <2>1
<1>5. PICK s \in S : n = MaxOffset - s
  OBVIOUS
<1>6. \A t \in S : MaxOffset - s <= MaxOffset - t
  BY <1>4, <1>5
<1>7. \A t \in S : t <= s
  BY <1>6, MaxOffsetAssumption
<1>8. QED
  BY <1>7

\* Behind the records in front of an offset comes the place of the next rank.
LEMMA Predecessor ==
  ASSUME job \in JobSpace, NEW c \in Conduit, NEW S \in SUBSET Expected(c), S # {},
         \A s \in S, t \in Expected(c) : t < s => t \in S
  PROVE  \E s \in S : Rank(c, s) + 1 = Cardinality(S)
<1>1. Expected(c) \in SUBSET (0 .. MaxOffset)
  BY ExpectedFinite
<1>2. PICK s \in S : \A t \in S : t <= s
  BY <1>1, LastOffset
<1> DEFINE B == {t \in Expected(c) : t < s}
<1>3. S = B \cup {s} /\ s \notin B
  BY <1>1, <1>2, MaxOffsetAssumption
<1>4. IsFiniteSet(B) /\ Cardinality(B) \in Nat
  BY ExpectedFinite
<1>5. Cardinality(B \cup {s}) = Cardinality(B) + 1
  BY <1>3, <1>4, FS_AddElement
<1>6. QED
  BY <1>3, <1>5 DEF Rank

LEMMA PackedAtEnd ==
  ASSUME TypeOK, PlainJob(job), Data, Passes
  PROVE  Packed
<1> SUFFICES ASSUME Success, NEW w \in disk, w.pos # 0
             PROVE  \E v \in disk : v.file = w.file
                                      /\ v.pos + job.recl[Out(v.conduit)] = w.pos
  BY DEF Packed
<1> DEFINE c == w.conduit
           r == w.rec
<1>1. job \in JobSpace /\ pc = "done"
  BY DEF TypeOK, Success
<1>2. /\ c \in Conduit /\ Out(c) \in job.ends /\ r \in Expected(c) /\ w = Place(c, r)
  BY DEF Data, Placed
<1>3. w.file = FileOf(c) /\ w.pos = job.start[Out(c)] + Rank(c, r) * job.recl[Out(c)]
  <2>1. Place(c, r).file = FileOf(c)
        /\ Place(c, r).pos = job.start[Out(c)] + Rank(c, r) * job.recl[Out(c)]
    BY DEF Place
  <2>2. QED
    BY <1>2, <2>1
\* what is expected somewhere is there
<1>4. ASSUME NEW d \in Conduit, Out(d) \in job.ends, NEW s \in Expected(d)
      PROVE  \E v \in disk : v = Place(d, s) /\ v.conduit = d
  <2>1. Delivered(d) = Expected(d)
    BY <1>1, <1>4, AllDelivered
  <2>2. PICK v \in disk : v.conduit = d /\ v.rec = s
    BY <2>1 DEF Delivered
  <2>3. QED
    BY <2>2 DEF Data, Placed
<1>5. ASSUME NEW d \in Conduit, Out(d) \in job.ends, NEW s \in Expected(d)
      PROVE  /\ Rank(d, s) \in Nat /\ job.recl[Out(d)] \in Nat \ {0}
             /\ job.start[Out(d)] \in Nat
             /\ Place(d, s).file = FileOf(d)
             /\ Place(d, s).pos + job.recl[Out(d)]
                  = job.start[Out(d)] + (Rank(d, s) + 1) * job.recl[Out(d)]
  <2>1. Rank(d, s) \in Nat /\ job.recl[Out(d)] \in Nat \ {0} /\ job.start[Out(d)] \in Nat
    BY <1>1, <1>5, Ranks, PlainTyped, PinfoEnds
  <2>2. (Rank(d, s) + 1) * job.recl[Out(d)]
           = Rank(d, s) * job.recl[Out(d)] + job.recl[Out(d)]
        /\ Rank(d, s) * job.recl[Out(d)] \in Nat
    BY <2>1, Multiples
  <2>3. Place(d, s).pos = job.start[Out(d)] + Rank(d, s) * job.recl[Out(d)]
        /\ Place(d, s).file = FileOf(d)
    BY DEF Place
  <2>4. QED
    BY <2>1, <2>2, <2>3
<1>6. CASE Rank(c, r) = 0
  <2>1. job.start[Out(c)] # 0 /\ w.pos = job.start[Out(c)]
    <3>1. \A x \in Nat : 0 * x = 0
      BY SMT
    <3>2. job.recl[Out(c)] \in Nat /\ job.start[Out(c)] \in Nat
      BY <1>2, <1>5
    <3>3. Rank(c, r) * job.recl[Out(c)] = 0
      BY <1>6, <3>1, <3>2
    <3> HIDE DEF c, r
    <3>4. QED
      BY <1>3, <3>2, <3>3
  <2>2. PICK d \in Conduit :
                /\ Out(d) \in job.ends /\ SameFile(job, d, c)
                /\ job.size[d] > 0 /\ ~Thinned(job, d)
                /\ RegionEnd(job, Out(d)) = job.start[Out(c)]
    BY <1>2, <2>1 DEF PlainJob
  <2>3. Cardinality(Expected(d)) = job.size[d] /\ job.size[d] \in Nat
    BY <1>1, <2>2, AllDelivered, PlainTyped
  <2>4. Expected(d) # {}
    BY <2>2, <2>3, FS_EmptySet
  <2>5. PICK s \in Expected(d) : Rank(d, s) + 1 = job.size[d]
    BY <1>1, <2>3, <2>4, Predecessor
  <2>6. Place(d, s).pos + job.recl[Out(d)] = w.pos
    BY <1>5, <2>1, <2>2, <2>5 DEF RegionEnd, Out
  <2>7. FileOf(d) = FileOf(c)
    <3>1. job.kind[c] # "recHeader" /\ job.kind[d] # "recHeader"
      BY <1>2, <2>2 DEF PlainJob
    <3>2. QED
      BY <2>2, <3>1 DEF FileOf, SameFile
  <2>8. QED
    BY <1>3, <1>4, <1>5, <2>2, <2>6, <2>7
<1>7. CASE Rank(c, r) # 0
  <2> DEFINE S == {t \in Expected(c) : t < r}
  <2>1. Expected(c) \in SUBSET (0 .. MaxOffset)
    BY <1>1, <1>2, ExpectedFinite
  <2>2. S # {} /\ S \in SUBSET Expected(c)
    BY <1>7, FS_EmptySet DEF Rank
  <2>3. \A s \in S, t \in Expected(c) : t < s => t \in S
    BY <1>2, <2>1, MaxOffsetAssumption
  <2>4. PICK s \in S : Rank(c, s) + 1 = Rank(c, r)
    <3>1. \E s \in S : Rank(c, s) + 1 = Cardinality(S)
      <4> HIDE DEF S
      <4>1. QED
        BY <1>1, <1>2, <2>2, <2>3, Predecessor
    <3>2. QED
      BY <3>1 DEF Rank
  <2>5. Place(c, s).pos + job.recl[Out(c)] = w.pos
    BY <1>2, <1>3, <1>5, <2>4
  <2>6. QED
    BY <1>2, <1>3, <1>4, <1>5, <2>5
<1>8. QED
  BY <1>6, <1>7

\* The files of a conversion are right in every state of the invariant.
LEMMA PlainRight ==
  ASSUME PlainInv
  PROVE  FilesRight /\ CompleteOnSuccess
<1>1. TypeOK /\ PlainJob(job) /\ Drained
  BY DEF PlainInv, Right, IInv, Emptied, Settled, Drained
<1>2. CASE Failed
  <2>1. ~Success
    BY <1>2 DEF Failed, Success
  <2>2. Placed /\ Conservation
    BY <1>2 DEF PlainInv, Right
  <2>3. QED
    BY <1>1, <2>1, <2>2, PlacedInOrder, PlacedOnce
       DEF FilesRight, CompleteOnSuccess, Packed, NoFalseAlarm
<1>3. CASE ~Failed
  <2>1. Data /\ Passes /\ Placed /\ Counts
    BY <1>3 DEF PlainInv, Right, Data
  <2>2. Conservation /\ InOrder /\ TemplateOnce /\ Packed
    BY <1>1, <2>1, DataConserves, PlacedInOrder, PlacedOnce, PackedAtEnd
  <2>3. CompleteOnSuccess
    <3>1. SUFFICES ASSUME Success, NEW c \in Mated PROVE Delivered(c) = job.wanted[c]
      BY DEF CompleteOnSuccess
    <3>2. QED
      BY <1>1, <2>1, <3>1, AllDelivered DEF Success, Mated, Expected
  <2>4. NoFalseAlarm
    <3>1. SUFFICES ASSUME Success, ~job.query, NEW p \in job.ends, p[1] = "out"
                   PROVE  left[p] = 0
      BY DEF NoFalseAlarm, NothingLeft
    <3>2. PICK c \in Conduit : p = Out(c)
      <4>1. p \in Pinfo
        BY <1>1, PlainTyped DEF TypeOK
      <4>2. p = <<p[1], p[2]>> /\ p[2] \in Conduit
        BY <4>1 DEF Pinfo
      <4>3. QED
        BY <3>1, <4>2 DEF Out
    <3>3. Cardinality(Delivered(c)) = job.size[c]
      BY <1>1, <2>1, <3>1, <3>2, AllDelivered DEF Success, Thinned
    <3>4. left[p] = job.size[c] - job.size[c] /\ job.size[c] \in Nat
      BY <1>1, <2>1, <3>1, <3>2, <3>3, PlainTyped DEF Counts, TypeOK
    <3>5. QED
      BY <3>4
  <2>5. QED
    BY <1>1, <2>2, <2>3, <2>4 DEF FilesRight
<1>4. QED
  BY <1>2, <1>3

-----------------------------------------------------------------------------
(* Data, conduit by conduit                                                    *)

DataAt(c) ==
    /\ In(c) \in job.ends =>
        /\ left[In(c)] \in 0 .. job.size[c] /\ Even(c)
        /\ left[In(c)] < job.size[c] => ReadTo(c) <= job.eof[c]
        /\ arrayDone[In(c)] => left[In(c)] = 0
        /\ job.kind[c] = "fileHeader" =>
              /\ newRecord[In(c)] => arrayDone[In(c)]
              /\ ~arrayDone[In(c)] => left[In(c)] = 1
    /\ c \in Mated => Ordered(c) /\ Seen(c) = Upto(c, ReadTo(c))
    /\ c \in Templates =>
        /\ newRecord[Out(c)] => buffer[Out(c)] = {0} /\ Delivered(c) = {}
        /\ arrayDone[Out(c)] <=> Delivered(c) = {0}
        /\ ~arrayDone[Out(c)] => Delivered(c) = {}
    /\ Out(c) \in job.ends =>
        /\ left[Out(c)] = job.size[c] - Cardinality(Delivered(c))
        /\ arrayDone[Out(c)] => left[Out(c)] = 0

LEMMA DataByConduit == Data <=> Fixed /\ Placed /\ \A c \in Conduit : DataAt(c)
<1>1. \A c : c \in Mated \/ c \in Templates => c \in Conduit
  BY DEF Mated, Templates
<1>2. QED
  BY <1>1 DEF Data, Reads, Runs, Blanks, Counts, DataAt

\* The same, after a step.
LEMMA DataByConduitNext ==
  ASSUME Fixed', Placed', \A c \in Conduit : DataAt(c)'
  PROVE  Data'
<1>1. \A c : c \in Mated' \/ c \in Templates' => c \in Conduit
  BY DEF Mated, Templates
<1>2. QED
  BY <1>1 DEF Data, Reads, Runs, Blanks, Counts, DataAt

\* A step that passes a conduit by leaves what the invariant says of it.
SameAt(c) ==
    /\ UNCHANGED job
    /\ left'[In(c)] = left[In(c)] /\ left'[Out(c)] = left[Out(c)]
    /\ arrayDone'[In(c)] = arrayDone[In(c)] /\ arrayDone'[Out(c)] = arrayDone[Out(c)]
    /\ buffer'[In(c)] = buffer[In(c)] /\ buffer'[Out(c)] = buffer[Out(c)]
    /\ newRecord'[Out(c)] = newRecord[Out(c)]
    /\ newRecord'[In(c)] => newRecord[In(c)]
    /\ c \in Mated => newRecord'[In(c)] = newRecord[In(c)]
    /\ Delivered(c)' = Delivered(c)

LEMMA KeptAt ==
  ASSUME NEW c \in Conduit, DataAt(c), SameAt(c)
  PROVE  DataAt(c)'
<1>1. (c \in Mated)' = (c \in Mated) /\ (c \in Templates)' = (c \in Templates)
  BY DEF SameAt, Mated, Templates
<1>2. ReadTo(c)' = ReadTo(c) /\ (Even(c) => Even(c)')
  BY DEF SameAt, ReadTo, Even
<1>3. ASSUME c \in Mated
      PROVE  Ordered(c)' /\ Seen(c)' = Upto(c, ReadTo(c))'
  <2>1. Cached(In(c))' = Cached(In(c)) /\ Cached(Out(c))' = Cached(Out(c))
    BY <1>3 DEF SameAt, Cached
  <2>2. Upto(c, ReadTo(c))' = Upto(c, ReadTo(c))
    BY <1>2 DEF SameAt, Upto
  <2>3. QED
    BY <1>3, <2>1, <2>2 DEF DataAt, SameAt, Seen, Ordered
<1>4. QED
  BY <1>1, <1>2, <1>3 DEF DataAt, SameAt

LEMMA PlacedKept ==
  ASSUME Placed, UNCHANGED <<job, disk>>
  PROVE  Placed'
  BY DEF Placed, Place, Rank, Expected, FileOf

LEMMA FixedKept ==
  ASSUME Fixed, UNCHANGED <<job, mapped, offset>>
  PROVE  Fixed'
  BY DEF Fixed

\* Most steps move no record.
Quiet ==
    /\ UNCHANGED <<job, left, mapped, offset, buffer, disk, arrayDone>>
    /\ \A c \in Conduit : /\ newRecord'[Out(c)] = newRecord[Out(c)]
                          /\ newRecord'[In(c)] => newRecord[In(c)]
                          /\ c \in Mated => newRecord'[In(c)] = newRecord[In(c)]

LEMMA QuietKeeps ==
  ASSUME Data, Quiet
  PROVE  Data'
<1>1. \A c \in Conduit : SameAt(c)
  BY DEF Quiet, SameAt, Delivered
<1>2. Fixed' /\ Placed'
  BY FixedKept, PlacedKept DEF Quiet, Data
<1>3. QED
  BY <1>1, <1>2, KeptAt, DataByConduit, DataByConduitNext

\* What a conversion that fails without a write leaves: what there was.
LEMMA FailureKeeps ==
  ASSUME Placed, UNCHANGED <<job, disk>>,
         \A c \in Mated :
            /\ Cached(Out(c))' = Cached(Out(c))
            /\ Consecutive(Delivered(c), Cached(Out(c)), Held(c)', job.wanted[c])
  PROVE  Placed' /\ Conservation'
<1>1. Placed'
  BY PlacedKept
<1>2. Mated' = Mated
  BY DEF Mated
<1>3. ASSUME NEW c \in Mated'
      PROVE  Consecutive(Delivered(c)', Cached(Out(c))', Held(c)', job'.wanted[c])
  <2>1. Delivered(c)' = Delivered(c) /\ Cached(Out(c))' = Cached(Out(c))
    BY <1>2 DEF Delivered
  <2>2. QED
    BY <1>2, <2>1
<1>4. Conservation'
  BY <1>3 DEF Conservation, Consecutive
<1>5. QED
  BY <1>1, <1>4

\* It keeps what waits in the inputs' caches, but for a query that failed on it.
LEMMA FailureRight ==
  ASSUME TypeOK, Data, UNCHANGED <<job, disk>>,
         \A c \in Mated :
            /\ Cached(Out(c))' = Cached(Out(c))
            /\ Cached(In(c))' = Cached(In(c)) \/ error' = "ERR_GEN_QUERY"
  PROVE  Placed' /\ Conservation'
<1>1. ASSUME NEW c \in Mated
      PROVE  Consecutive(Delivered(c), Cached(Out(c)), Held(c)', job.wanted[c])
  <2>1. Held(c)' = Cached(In(c)) \/ Held(c)' = {}
    BY DEF Held
  <2>2. QED
    BY <2>1, DataRuns, TwoRuns, WantedNat
<1>2. QED
  BY <1>1, FailureKeeps DEF Data

-----------------------------------------------------------------------------
(* The beginning                                                              *)

LEMMA InitPlain ==
  ASSUME Init, PlainJob(job)
  PROVE  PlainInv
<1>1. IInv /\ TypeOK /\ job \in Jobs /\ PlainJob(job) /\ job \in JobSpace
  BY InitIInv DEF Init, IInv, TypeOK
<1>2. \A c \in Conduit : Delivered(c) = {} /\ Cached(In(c)) = {} /\ Cached(Out(c)) = {}
  BY PinfoEnds DEF Init, Delivered, Cached
<1>3. \A c \in Conduit : /\ In(c) \in job.ends => left[In(c)] = job.size[c]
                         /\ Out(c) \in job.ends => left[Out(c)] = job.size[c]
                         /\ In(c)[2] = c /\ Out(c)[2] = c
  BY PinfoEnds DEF Init, In, Out
<1>4. Fixed /\ Placed
  BY DEF Init, Fixed, Placed
<1>5. ASSUME NEW c \in Conduit
      PROVE  DataAt(c)
  <2>1. job.size[c] \in Nat /\ job.start[In(c)] \in Nat /\ job.recl[In(c)] \in Nat
    BY <1>1, PlainTyped, PinfoEnds
  <2>2. ~arrayDone[In(c)] /\ ~newRecord[In(c)] /\ ~arrayDone[Out(c)] /\ ~newRecord[Out(c)]
    BY PinfoEnds DEF Init
  <2>3. In(c) \in job.ends => /\ left[In(c)] \in 0 .. job.size[c]
                              /\ ~(left[In(c)] < job.size[c])
                              /\ job.kind[c] = "fileHeader" => left[In(c)] = 1
    BY <1>1, <1>3, <2>1 DEF PlainJob
  <2>4. c \in Mated => Ordered(c) /\ Seen(c) = Upto(c, ReadTo(c))
    <3>1. SUFFICES ASSUME c \in Mated PROVE Upto(c, ReadTo(c)) = {}
      BY <1>2 DEF Ordered, Seen
    <3>2. In(c) \in job.ends
      BY <3>1 DEF Mated
    <3>3. ReadTo(c) = job.start[In(c)]
      <4>1. job.size[c] - left[In(c)] = 0 /\ \A x \in Nat : 0 * x = 0
        BY <1>3, <2>1, <3>2, SMT
      <4>2. QED
        BY <2>1, <4>1 DEF ReadTo
    <3>4. ASSUME NEW r \in job.wanted[c]
          PROVE  ~(r < job.start[In(c)])
      <4>1. PICK i \in 0 .. job.size[c] - 1 : r = job.start[In(c)] + i * job.recl[In(c)]
        BY <1>1, <3>1 DEF PlainJob, Mated
      <4>2. i \in Nat
        BY <2>1
      <4>3. i * job.recl[In(c)] \in Nat
        BY <2>1, <4>2, NatProduct
      <4>4. QED
        BY <2>1, <4>1, <4>3
    <3>5. QED
      BY <3>3, <3>4 DEF Upto
  <2>5. Out(c) \in job.ends => left[Out(c)] = job.size[c] - Cardinality(Delivered(c))
    <3>1. Cardinality(Delivered(c)) = 0
      BY <1>2, FS_EmptySet
    <3>2. QED
      BY <1>3, <2>1, <3>1
  <2>6. In(c) \in job.ends => Even(c)
    <3>1. SUFFICES ASSUME In(c) \in job.ends
                   PROVE  \E k \in 0 .. job.size[c] : job.size[c] - left[In(c)] = k * job.cache[c]
      BY DEF Even
    <3>2. job.size[c] - left[In(c)] = 0 /\ 0 \in 0 .. job.size[c]
      BY <1>3, <2>1, <3>1
    <3>3. 0 * job.cache[c] = 0
      <4>1. job.cache[c] \in Nat /\ \A x \in Nat : 0 * x = 0
        BY <1>1, PlainTyped, SMT
      <4>2. QED
        BY <4>1
    <3>4. QED
      BY <3>2, <3>3
  <2>7. QED
    BY <1>2, <2>2, <2>3, <2>4, <2>5, <2>6 DEF DataAt
<1>6. Data
  BY <1>4, <1>5, DataByConduit
<1>7. Passes
  <2>1. \A c \in Conduit : ~(c < 1)
    BY NumConduitsAssumption DEF Conduit
  <2>2. QED
    BY <2>1 DEF Init, Passes, Reading_Passes, Moving_Passes
<1>8. QED
  BY <1>1, <1>6, <1>7 DEF PlainInv, Right, Failed, Init

-----------------------------------------------------------------------------
(* Reading                                                                    *)

\* What every step may rely on, until the conversion fails.
Going ==
    /\ IInv /\ PlainJob(job) /\ Data /\ Passes
    /\ pc # "done"

LEMMA GoingTyped ==
  ASSUME Going
  PROVE  /\ TypeOK /\ job \in JobSpace
         /\ RecHeader("in") = {} /\ RecHeader("out") = {}
         /\ DataIn(job) = InputData
         /\ \A c \in Conduit : In(c) \in job.ends =>
              job.kind[c] = "fileHeader" \/ c \in InputData
<1>1. TypeOK /\ job \in JobSpace /\ PlainJob(job)
  BY DEF Going, IInv, TypeOK
<1>2. \A c \in Conduit : job.kind[c] \in Kinds
  BY <1>1, JobTyped
<1>3. \A c \in Conduit : job.kind[c] = "recHeader" => In(c) \notin job.ends /\ Out(c) \notin job.ends
  BY <1>1 DEF PlainJob
<1>4. RecHeader("in") = {} /\ RecHeader("out") = {}
  BY <1>3 DEF RecHeader, In, Out
<1>5. QED
  BY <1>1, <1>2, <1>3, <1>4 DEF DataIn, InputData, Kinds

\* The steps of a reading pass that take up no record
ReadsNothing ==
    /\ UNCHANGED <<job, stage, doneReading, mapping, buffer, disk, newRecord, arrayDone>>

LEMMA PassByReadsNothing ==
  ASSUME TypeOK, ~newRecord[In(at)], UNCHANGED <<mapping, arrayDone>>,
         PassBy \/ \E e : Fail(e)
  PROVE  ReadsNothing
<1>1. newRecord \in [Pinfo -> BOOLEAN]
  BY DEF TypeOK
<1>2. newRecord' = [newRecord EXCEPT ![In(at)] = FALSE]
  BY DEF PassBy, Fail, Unlock
<1>3. newRecord' = newRecord
  BY <1>1, <1>2
<1>4. QED
  BY <1>3 DEF ReadsNothing, PassBy, Fail, Advance, Return, mapping

LEMMA ReadsNothingQuiet ==
  ASSUME ReadsNothing
  PROVE  Quiet /\ \A c \in Conduit : HeaderRead(c) => HeaderRead(c)'
  BY DEF ReadsNothing, Quiet, mapping, HeaderRead

\* The end of what can be read is the end of everything.
LEMMA TableAtEnd ==
  ASSUME Going, pc = "fill", at \in InputData, job.kind[at] = "table", arrayDone[In(at)]
  PROVE  stage # "fileHeaders" /\ AllRead
<1>1. Listed(at) /\ Reads
  BY DEF Going, Passes, Reading_Passes, Data
<1>2. stage # "fileHeaders"
  BY <1>1 DEF Listed
<1>3. \A c \in Conduit : HeaderRead(c)
  BY <1>2 DEF Going, Passes, Reading_Passes
<1>4. ASSUME NEW c \in Conduit, In(c) \in job.ends
      PROVE  left[In(c)] = 0
  <2>1. job.kind[c] = "fileHeader" \/ c = at
    BY <1>4, GoingTyped DEF Going, PlainJob
  <2>2. arrayDone[In(c)]
    BY <1>3, <1>4, <2>1 DEF HeaderRead
  <2>3. QED
    BY <1>1, <1>4, <2>2 DEF Reads
<1>5. QED
  BY <1>2, <1>4 DEF AllRead

LEMMA PassedByRight ==
  ASSUME Going, pc = "fill", ReadsNothing, Advance("read"), HeaderRead(at)
  PROVE  Right'
<1>1. Data'
  BY QuietKeeps, ReadsNothingQuiet DEF Going
<1>2. pc' = "read" /\ at' = at + 1 /\ UNCHANGED <<job, stage, doneReading, error>>
  BY DEF Advance
<1>3. \A c \in Conduit : HeaderRead(c) => HeaderRead(c)'
  BY ReadsNothingQuiet
<1>4. at \in Conduit
  BY DEF Going, IInv, AtConduit
<1>5. \A c \in Conduit : c < at + 1 => c < at \/ c = at
  BY <1>4 DEF Conduit
<1>6. /\ ~doneReading
      /\ stage = "fileHeaders" => \A c \in Conduit : c < at + 1 => HeaderRead(c)
      /\ stage # "fileHeaders" => \A c \in Conduit : HeaderRead(c)
  BY <1>5 DEF Going, Passes, Reading_Passes
<1>7. Passes'
  BY <1>2, <1>3, <1>6 DEF Passes, Reading_Passes, Moving_Passes
<1>8. QED
  BY <1>1, <1>2, <1>7 DEF Right, Failed

LEMMA FailsRight ==
  ASSUME Going, pc = "fill", ReadsNothing, NEW e \in {"EOF", "ERR_READ_FILE"}, Fail(e),
         e = "EOF" => stage # "fileHeaders" /\ AllRead
  PROVE  Right'
<1>1. Data'
  BY QuietKeeps, ReadsNothingQuiet DEF Going
<1>2. pc' = "return" /\ error' = e /\ UNCHANGED <<job, stage, at, doneReading>>
  BY DEF Fail, Return
<1>3. /\ \A c \in Conduit : HeaderRead(c) => HeaderRead(c)'
      /\ AllRead => AllRead'
  BY ReadsNothingQuiet DEF AllRead, ReadsNothing, mapping
<1>4. /\ ~doneReading
      /\ stage # "fileHeaders" => \A c \in Conduit : HeaderRead(c)
  BY DEF Going, Passes, Reading_Passes
<1>5. Passes'
  BY <1>2, <1>3, <1>4 DEF Passes, Reading_Passes, Moving_Passes
<1>6. QED
  BY <1>1, <1>2, <1>5 DEF Right, Failed

LEMMA SkipFormatRight ==
  ASSUME Going, SkipFormat
  PROVE  Right'
<1>1. ReadsNothing /\ pc = "read" /\ at \in Conduit /\ PassedOver /\ Advance("read")
  BY DEF SkipFormat, Reading, Advance, ReadsNothing
<1>2. HeaderRead(at)
  BY <1>1 DEF PassedOver, Listed, HeaderRead, Going, Data, Reads, Passes, Reading_Passes
<1>3. Data'
  BY <1>1, QuietKeeps, ReadsNothingQuiet DEF Going
<1>4. pc' = "read" /\ at' = at + 1 /\ UNCHANGED <<job, stage, doneReading, error>>
  BY <1>1 DEF Advance
<1>5. \A c \in Conduit : HeaderRead(c) => HeaderRead(c)'
  BY <1>1, ReadsNothingQuiet
<1>6. \A c \in Conduit : c < at + 1 => c < at \/ c = at
  BY <1>1 DEF Conduit
<1>7. /\ ~doneReading
      /\ stage = "fileHeaders" => \A c \in Conduit : c < at + 1 => HeaderRead(c)
      /\ stage # "fileHeaders" => \A c \in Conduit : HeaderRead(c)
  BY <1>1, <1>2, <1>6 DEF Going, Passes, Reading_Passes
<1>8. Passes'
  BY <1>4, <1>5, <1>7 DEF Passes, Reading_Passes, Moving_Passes
<1>9. QED
  BY <1>3, <1>4, <1>8 DEF Right, Failed

LEMMA LockFormatRight ==
  ASSUME Going, LockFormat
  PROVE  Right'
<1>1. /\ ReadsNothing /\ pc = "read" /\ pc' = "fill" /\ Listed(at)
      /\ UNCHANGED <<at, error>>
  BY DEF LockFormat, Reading, PassedOver, ReadsNothing
<1>2. Data'
  BY <1>1, QuietKeeps, ReadsNothingQuiet DEF Going
<1>3. \A c \in Conduit : HeaderRead(c) => HeaderRead(c)'
  BY <1>1, ReadsNothingQuiet
<1>4. Listed(at)'
  BY <1>1 DEF Listed, ReadsNothing
<1>5. /\ ~doneReading
      /\ stage = "fileHeaders" => \A c \in Conduit : c < at => HeaderRead(c)
      /\ stage # "fileHeaders" => \A c \in Conduit : HeaderRead(c)
  BY <1>1 DEF Going, Passes, Reading_Passes
<1>6. Passes'
  BY <1>1, <1>3, <1>4, <1>5 DEF Passes, Reading_Passes, Moving_Passes, ReadsNothing
<1>7. QED
  BY <1>1, <1>2, <1>6 DEF Right, Failed

LEMMA FinishReadingRight ==
  ASSUME Going, FinishReading
  PROVE  Right'
<1>1. /\ ReadsNothing /\ pc = "read" /\ at = NumConduits + 1 /\ pc' = "return"
      /\ error' = IF ArrayEOF THEN "EOF" ELSE "none"
      /\ UNCHANGED at
  BY DEF FinishReading, Return, ReadsNothing
<1>2. Data'
  BY <1>1, QuietKeeps, ReadsNothingQuiet DEF Going
<1>3. /\ \A c \in Conduit : HeaderRead(c) => HeaderRead(c)'
      /\ AllRead => AllRead'
  BY <1>1, ReadsNothingQuiet DEF AllRead, ReadsNothing, mapping
<1>4. \A c \in Conduit : c < at
  BY <1>1, NumConduitsAssumption DEF Conduit
<1>5. ~doneReading /\ \A c \in Conduit : HeaderRead(c)
  BY <1>1, <1>4 DEF Going, Passes, Reading_Passes
<1>6. stage = "process" /\ ArrayEOF => AllRead
  BY DEF ArrayEOF, Listed, AllRead, Going, Data, Reads
<1>7. Passes'
  BY <1>1, <1>3, <1>5, <1>6 DEF Passes, Reading_Passes, Moving_Passes, ReadsNothing
<1>8. QED
  BY <1>1, <1>2, <1>7 DEF Right, Failed

LEMMA EndOfDataRight ==
  ASSUME Going, EndOfData
  PROVE  Right'
<1>1. /\ pc = "fill" /\ at \in Conduit /\ at \in InputData /\ arrayDone[In(at)]
      /\ UNCHANGED <<mapping, arrayDone>>
  BY DEF EndOfData, Filling
<1>2. TypeOK /\ ~newRecord[In(at)]
  BY <1>1 DEF Going, IInv, AtConduit
<1>3. HeaderRead(at)
  BY <1>1 DEF InputData, HeaderRead
<1>4. CASE PassBy
  BY <1>1, <1>2, <1>3, <1>4, PassByReadsNothing, PassedByRight DEF PassBy
<1>5. CASE job.kind[at] = "table" /\ Fail("EOF")
  <2>1. ReadsNothing
    BY <1>1, <1>2, <1>5, PassByReadsNothing
  <2>2. stage # "fileHeaders" /\ AllRead
    BY <1>1, <1>5, TableAtEnd
  <2>3. QED
    BY <1>1, <1>5, <2>1, <2>2, FailsRight
<1>6. QED
  BY <1>4, <1>5, GoingTyped DEF EndOfData

-----------------------------------------------------------------------------
(* A cache is filled                                                          *)

\* The next n records, as the mapping numbers them
Stretch(c, n) ==
    {r \in 0 .. MaxOffset :
        /\ \E i \in 0 .. job.size[c] - 1 : r = job.start[In(c)] + i * job.recl[In(c)]
        /\ ReadTo(c) <= r
        /\ r < ReadTo(c) + n * job.recl[In(c)]}

LEMMA ChunkIsStretch ==
  ASSUME TypeOK, Fixed, Reads, NEW c \in Conduit, In(c) \in job.ends,
         NEW n \in Nat, n <= left[In(c)]
  PROVE  /\ Position(In(c), CurrentMap, n) = ReadTo(c) + n * job.recl[In(c)]
         /\ Chunk(In(c), CurrentMap, n) = Stretch(c, n)
         /\ \A r \in 0 .. MaxOffset :
              r \in Stretch(c, n) <=>
                \E i \in Nat : /\ r = job.start[In(c)] + i * job.recl[In(c)]
                              /\ job.size[c] - left[In(c)] <= i
                              /\ i < job.size[c] - left[In(c)] + n
<1> DEFINE b == job.start[In(c)]
           m == job.recl[In(c)]
           k == job.size[c] - left[In(c)]
<1>1. /\ b \in Nat /\ m \in Nat \ {0} /\ job.size[c] \in Nat
      /\ left[In(c)] \in 0 .. job.size[c]
  BY PlainTyped, PinfoEnds DEF TypeOK, Reads
<1>2. k \in Nat /\ k + n <= job.size[c]
  BY <1>1
<1>3. ReadTo(c) = b + k * m
  BY DEF ReadTo
<1>4. mapped[In(c)] = job.size[c] /\ offset[In(c)] = b
  BY PinfoEnds DEF Fixed, In
<1>5. \A i : Position(In(c), CurrentMap, i) = b + (k + i) * m
  BY <1>4 DEF Position, CurrentMap
<1> HIDE DEF b, m, k
<1>6. Position(In(c), CurrentMap, n) = ReadTo(c) + n * m
  <2>1. (k + n) * m = k * m + n * m /\ k * m \in Nat /\ n * m \in Nat
    BY <1>1, <1>2, Multiples
  <2>2. QED
    BY <1>1, <1>3, <1>5, <2>1
<1>7. \A i \in Nat : /\ b + i * m \in Nat
                     /\ b + k * m <= b + i * m <=> k <= i
                     /\ b + i * m < b + k * m + n * m <=> i < k + n
  <2>1. TAKE i \in Nat
  <2>2. /\ i * m \in Nat /\ k * m \in Nat /\ (k + n) * m \in Nat
        /\ (k + n) * m = k * m + n * m
        /\ k <= i <=> k * m <= i * m
        /\ i < k + n <=> i * m < (k + n) * m
    BY <1>1, <1>2, Multiples
  <2>3. QED
    BY <1>1, <2>2
<1>8. Chunk(In(c), CurrentMap, n) = {o \in 0 .. MaxOffset : \E i \in 0 .. n - 1 : o = b + (k + i) * m}
  BY <1>5 DEF Chunk
<1>9. Stretch(c, n) = {r \in 0 .. MaxOffset : \E i \in 0 .. job.size[c] - 1 :
                          r = b + i * m /\ k <= i /\ i < k + n}
  <2>1. \A i \in 0 .. job.size[c] - 1 : i \in Nat
    BY <1>1
  <2>2. QED
    BY <1>3, <1>7, <2>1 DEF Stretch, b, m
<1>10. \A o : (\E i \in 0 .. n - 1 : o = b + (k + i) * m)
          <=> \E i \in 0 .. job.size[c] - 1 : o = b + i * m /\ k <= i /\ i < k + n
  <2>1. ASSUME NEW o, NEW i \in 0 .. n - 1, o = b + (k + i) * m
        PROVE  \E j \in 0 .. job.size[c] - 1 : o = b + j * m /\ k <= j /\ j < k + n
    <3>1. k + i \in 0 .. job.size[c] - 1 /\ k <= k + i /\ k + i < k + n
      BY <1>1, <1>2
    <3>2. QED
      BY <2>1, <3>1
  <2>2. ASSUME NEW o, NEW j \in 0 .. job.size[c] - 1, o = b + j * m, k <= j, j < k + n
        PROVE  \E i \in 0 .. n - 1 : o = b + (k + i) * m
    <3>1. j - k \in 0 .. n - 1 /\ k + (j - k) = j
      BY <1>1, <1>2, <2>2
    <3>2. QED
      BY <2>2, <3>1
  <2>3. QED
    BY <2>1, <2>2
<1>11. \A r \in 0 .. MaxOffset :
         r \in Stretch(c, n) <=> \E i \in Nat : r = b + i * m /\ k <= i /\ i < k + n
  <2>1. \A i : i \in 0 .. job.size[c] - 1 /\ k <= i /\ i < k + n
                 <=> i \in Nat /\ k <= i /\ i < k + n
    BY <1>1, <1>2
  <2>2. QED
    BY <1>9, <2>1
<1>12. QED
  BY <1>6, <1>8, <1>9, <1>10, <1>11 DEF m, k, b

\* What FailureTold says of the records that a read takes up.
LEMMA QueryTold ==
  ASSUME TypeOK, PlainJob(job), Fixed, Reads, NEW c \in DataIn(job), job.query,
         NEW n \in Nat \ {0}, n = Lesser(left[In(c)], job.cache[c])
  PROVE  \A r \in job.keep \cap Stretch(c, n), u \in job.undefined \cap Stretch(c, n) :
            \E s \in job.keep \cap Stretch(c, n) : s < u
<1>1. c \in Conduit /\ In(c) \in job.ends
  BY DEF DataIn
<1>2. /\ left[In(c)] \in 0 .. job.size[c] /\ job.size[c] \in Nat
      /\ job.cache[c] \in Nat \ {0} /\ Even(c)
      /\ job.keep \in SUBSET (0 .. MaxOffset) /\ job.undefined \in SUBSET (0 .. MaxOffset)
  BY <1>1, PlainTyped DEF Reads, TypeOK, JobSpace
<1>3. left[In(c)] > 0 /\ n <= left[In(c)]
      /\ n = IF left[In(c)] < job.cache[c] THEN left[In(c)] ELSE job.cache[c]
  BY <1>2 DEF Lesser
<1>4. PICK k \in 0 .. job.size[c] : job.size[c] - left[In(c)] = k * job.cache[c]
  BY <1>2, <1>3 DEF Even
<1>5. Lesser((k + 1) * job.cache[c], job.size[c]) = job.size[c] - left[In(c)] + n
  <2>1. (k + 1) * job.cache[c] = k * job.cache[c] + job.cache[c]
    BY <1>2, Multiples
  <2>2. (k + 1) * job.cache[c] = job.size[c] - left[In(c)] + job.cache[c]
    BY <1>4, <2>1
  <2> HIDE <1>4
  <2>3. QED
    BY <1>2, <1>3, <2>2 DEF Lesser
<1>6. CacheFull(job, c, k) =
        {job.start[In(c)] + i * job.recl[In(c)] :
            i \in job.size[c] - left[In(c)] .. (job.size[c] - left[In(c)] + n) - 1}
  BY <1>4, <1>5, Zenon DEF CacheFull
<1>7. \A i : i \in job.size[c] - left[In(c)] .. (job.size[c] - left[In(c)] + n) - 1
            <=> i \in Nat /\ job.size[c] - left[In(c)] <= i /\ i < job.size[c] - left[In(c)] + n
  BY <1>2
<1>8. \A r \in 0 .. MaxOffset : r \in Stretch(c, n) <=> r \in CacheFull(job, c, k)
  <2>1. \A r \in 0 .. MaxOffset :
          r \in Stretch(c, n) <=>
            \E i \in Nat : /\ r = job.start[In(c)] + i * job.recl[In(c)]
                          /\ job.size[c] - left[In(c)] <= i
                          /\ i < job.size[c] - left[In(c)] + n
    BY <1>1, <1>3, ChunkIsStretch
  <2>2. QED
    BY <1>6, <1>7, <2>1
<1>9. job.keep \cap CacheFull(job, c, k) = job.keep \cap Stretch(c, n)
      /\ job.undefined \cap CacheFull(job, c, k) = job.undefined \cap Stretch(c, n)
  BY <1>2, <1>8
<1>10. FailureTold(job)
  BY DEF PlainJob
<1>11. QED
  BY <1>4, <1>9, <1>10 DEF FailureTold

\* Every set of offsets has a first one.
LEMMA FirstOffset ==
  ASSUME NEW S \in SUBSET (0 .. MaxOffset), S # {}
  PROVE  \E s \in S : \A t \in S : s <= t
<1> DEFINE R == {ss \in Nat \X Nat : ss[1] < ss[2]}
<1>1. IsWellFoundedOn(R, Nat)
  BY NatLessThanWellFounded DEF OpToRel
<1>2. S \in SUBSET Nat
  BY MaxOffsetAssumption
<1> HIDE DEF R
<1>3. PICK n \in S : \A m \in S : ~(<<m, n>> \in R)
  BY <1>1, <1>2, WFMin
<1>4. \A m \in S : ~(m < n) /\ m \in Nat /\ n \in Nat
  BY <1>2, <1>3 DEF R
<1>5. QED
  BY <1>4

\* What the filter says of a cache of which it tells its failures: it has kept
\* the records to keep, there are none, or it fails.
LEMMA FilterTells ==
  ASSUME job \in JobSpace, NEW S \in SUBSET (0 .. MaxOffset),
         \A r \in job.keep \cap S, u \in job.undefined \cap S :
            \E s \in job.keep \cap S : s < u
  PROVE  \/ FilterError(S) = "none" /\ ~FailsToSet(S) /\ Kept(S) = S \cap job.keep
         \/ FilterError(S) = "EOF" /\ S \cap job.keep = {}
         \/ FilterError(S) = "ERR_GEN_QUERY"
<1>1. CASE FailsToSet(S)
  BY <1>1 DEF FilterError
<1>2. CASE ~FailsToSet(S) /\ Kept(S) # {} /\ Stops(S) = {}
  BY <1>2 DEF FilterError, Kept
<1>3. CASE ~FailsToSet(S) /\ Kept(S) # {} /\ Stops(S) # {}
  BY <1>3 DEF FilterError
<1>4. CASE ~FailsToSet(S) /\ Kept(S) = {}
  <2>1. SUFFICES ASSUME NEW r \in S \cap job.keep PROVE FALSE
    BY <1>4 DEF FilterError
  <2>2. Stops(S) # {} /\ Stops(S) \subseteq S
    BY <1>4, <2>1 DEF Kept, Stops
  <2>3. PICK u \in Stops(S) : \A v \in Stops(S) : u <= v
    BY <2>2, FirstOffset
  <2>4. u \in job.undefined \cap S
    BY <1>4, <2>3 DEF FailsToSet, Stops
  <2>5. PICK s \in job.keep \cap S : s < u
    BY <2>1, <2>4
  <2>6. \A v \in Stops(S) : s < v
    <3>1. s \in Nat /\ u \in Nat /\ \A v \in Stops(S) : v \in Nat
      <4>1. \A v \in S : v \in Nat
        BY MaxOffsetAssumption
      <4>2. QED
        BY <2>2, <2>3, <2>5, <4>1
    <3>2. QED
      BY <2>3, <2>5, <3>1
  <2>7. s \in Kept(S)
    BY <2>5, <2>6 DEF Kept
  <2>8. QED
    BY <1>4, <2>7
<1>5. QED
  BY <1>1, <1>2, <1>3, <1>4

\* The records taken up are the next of the wanted ones.
LEMMA FilledAt ==
  ASSUME Going, pc = "fill", NEW c \in Conduit, c = at, In(c) \in job.ends,
         UNCHANGED job, NEW n \in Nat,
         n <= left[In(c)], n = left[In(c)] \/ n = job.cache[c],
         Position(In(c), CurrentMap, n) <= job.eof[c],
         left' = [left EXCEPT ![In(c)] = @ - n], UNCHANGED disk,
         arrayDone' = [arrayDone EXCEPT ![In(c)] = (left[In(c)] = n)],
         buffer'[Out(c)] = buffer[Out(c)], newRecord'[Out(c)] = newRecord[Out(c)],
         Cached(In(c))' = {r \in Stretch(c, n) : Thinned(job, c) => r \in job.keep},
         job.kind[c] = "fileHeader" => n = left[In(c)]
  PROVE  DataAt(c)'
<1> DEFINE p == In(c)
           m == job.recl[p]
           k == job.size[c] - left[p]
<1>1. /\ TypeOK /\ PlainJob(job) /\ Reads /\ Fixed /\ Data
      /\ ~newRecord[p]
  BY DEF Going, IInv, AtConduit, Data
<1>2. p \in Pinfo /\ Out(c) \in Pinfo /\ p # Out(c)
  BY <1>1, PinfoEnds, InOut
<1>3. /\ job.start[p] \in Nat /\ m \in Nat \ {0} /\ job.size[c] \in Nat
      /\ left[p] \in 0 .. job.size[c] /\ job.wanted[c] \in SUBSET (0 .. MaxOffset)
  BY <1>1, <1>2, PlainTyped DEF TypeOK, Reads
<1>4. /\ left'[p] = left[p] - n /\ left'[Out(c)] = left[Out(c)]
      /\ arrayDone'[p] = (left[p] = n) /\ arrayDone'[Out(c)] = arrayDone[Out(c)]
  <2>1. left \in [Pinfo -> Int] /\ arrayDone \in [Pinfo -> BOOLEAN]
    BY <1>1 DEF TypeOK
  <2>2. QED
    BY <1>2, <2>1
<1>5. ReadTo(c)' = ReadTo(c) + n * m /\ ReadTo(c) \in Nat /\ n * m \in Nat
  <2>1. ReadTo(c)' = job.start[p] + (job.size[c] - (left[p] - n)) * m
    BY <1>4 DEF ReadTo
  <2>2. job.size[c] - (left[p] - n) = k + n /\ k \in Nat
    BY <1>3
  <2>3. (k + n) * m = k * m + n * m /\ k * m \in Nat /\ n * m \in Nat
    BY <1>3, <2>2, Multiples
  <2>4. ReadTo(c) = job.start[p] + k * m
    BY DEF ReadTo
  <2> HIDE DEF k, m, p
  <2>5. QED
    BY <1>3, <2>1, <2>2, <2>3, <2>4
<1>6. ReadTo(c)' <= job.eof[c]
  BY <1>1, <1>5, ChunkIsStretch
<1>7. (c \in Mated)' = (c \in Mated) /\ (c \in Templates)' = (c \in Templates)
  BY DEF Mated, Templates
<1>8. ASSUME c \in Mated
      PROVE  Ordered(c)' /\ Seen(c)' = Upto(c, ReadTo(c))'
  <2> DEFINE X == {r \in Stretch(c, n) : Thinned(job, c) => r \in job.keep}
  <2>1. Cached(In(c)) = {} /\ Cached(Out(c))' = Cached(Out(c))
        /\ Delivered(c)' = Delivered(c) /\ Cached(In(c))' = X
    BY <1>1 DEF Cached, Delivered
  <2>2. Ordered(c) /\ Seen(c) = Upto(c, ReadTo(c))
    BY <1>1, <1>8 DEF Data, Runs
  <2>3. job.wanted[c] = {r \in 0 .. MaxOffset :
              /\ \E i \in 0 .. job.size[c] - 1 : r = job.start[In(c)] + i * job.recl[In(c)]
              /\ Thinned(job, c) => r \in job.keep}
    BY <1>1, <1>8 DEF PlainJob, Mated
  <2>4. X = {r \in job.wanted[c] : ReadTo(c) <= r /\ r < ReadTo(c) + n * m}
    BY <2>3 DEF Stretch
  <2>5. Delivered(c) \cup Cached(Out(c)) = {r \in job.wanted[c] : r < ReadTo(c)}
    BY <2>1, <2>2 DEF Seen, Upto
  <2>6. \A r \in job.wanted[c] : r \in Int
    BY <1>3, MaxOffsetAssumption
  <2> HIDE DEF X, m
  <2>7. \A r \in Delivered(c) \cup Cached(Out(c)), s \in X : r < s
    BY <1>5, <2>4, <2>5, <2>6
  <2>8. Delivered(c) \cup Cached(Out(c)) \cup X
          = {r \in job.wanted[c] : r < ReadTo(c) + n * m}
    BY <1>5, <2>4, <2>5, <2>6
  <2>9. Seen(c)' = Upto(c, ReadTo(c))'
    BY <1>5, <2>1, <2>8 DEF Seen, Upto
  <2>10. Ordered(c)'
    BY <2>1, <2>2, <2>7 DEF Ordered
  <2>11. QED
    BY <2>9, <2>10
<1>9. left[p] - n \in 0 .. job.size[c] /\ (left[p] = n => left[p] - n = 0)
  BY <1>3
<1>10. /\ DataAt(c) /\ c \notin Templates
  BY <1>1, DataByConduit DEF Templates
<1>11. Out(c) \in job'.ends =>
        /\ left'[Out(c)] = job'.size[c] - Cardinality(Delivered(c)')
        /\ arrayDone'[Out(c)] => left'[Out(c)] = 0
  BY <1>4, <1>10 DEF DataAt, Delivered
<1>12. job.kind[c] = "fileHeader" => arrayDone'[p]
  BY <1>4
<1>13. Even(c)'
  <2>1. SUFFICES ASSUME left[p] - n > 0
                 PROVE  \E k1 \in 0 .. job.size[c] : job.size[c] - (left[p] - n) = k1 * job.cache[c]
    BY <1>4 DEF Even
  <2>2. n = job.cache[c] /\ left[p] > 0 /\ job.cache[c] \in Nat \ {0}
    BY <1>1, <1>3, <2>1, PlainTyped DEF TypeOK
  <2>3. PICK k0 \in 0 .. job.size[c] : job.size[c] - left[p] = k0 * job.cache[c]
    BY <1>1, <2>2 DEF Reads, Even
  <2>4. k0 \in Nat /\ k0 <= k0 * job.cache[c]
    <3>1. \A x \in Nat, y \in Nat \ {0} : x <= x * y
      <4>1. TAKE x \in Nat, y \in Nat \ {0}
      <4>2. PICK z \in Nat : y = z + 1
        <5>1. y - 1 \in Nat /\ y = (y - 1) + 1
          OBVIOUS
        <5>2. QED
          BY <5>1
      <4>3. x * (z + 1) = x * z + x /\ x * z \in Nat
        BY SMT
      <4>4. QED
        BY <4>2, <4>3
    <3>2. QED
      BY <1>3, <2>2, <3>1
  <2>5. (k0 + 1) * job.cache[c] = k0 * job.cache[c] + job.cache[c]
    BY <2>2, <2>4, Multiples
  <2>6. job.size[c] - (left[p] - n) = (k0 + 1) * job.cache[c]
    <3>1. job.size[c] - (left[p] - n) = (job.size[c] - left[p]) + n
      BY <1>3
    <3>2. QED
      BY <2>2, <2>3, <2>5, <3>1
  <2>7. k0 + 1 \in 0 .. job.size[c]
    <3>1. k0 <= job.size[c] - left[p]
      BY <2>3, <2>4
    <3>2. QED
      BY <1>3, <2>2, <2>4, <3>1
  <2>8. QED
    BY <2>6, <2>7
<1> HIDE DEF p
<1>14. QED
  BY <1>4, <1>6, <1>7, <1>8, <1>9, <1>10, <1>11, <1>12, <1>13 DEF DataAt, p

LEMMA FilledRight ==
  ASSUME Going, pc = "fill", NEW c \in Conduit, c = at, DataAt(c)',
         \A d \in Conduit \ {c} : SameAt(d),
         UNCHANGED <<job, mapped, offset, disk, stage, doneReading, error>>,
         pc' = "read", at' = at \/ at' = at + 1,
         HeaderRead(c) => HeaderRead(c)', at' = at + 1 => HeaderRead(c)'
  PROVE  Right'
<1>1. \A d \in Conduit \ {c} : DataAt(d)'
  BY KeptAt, DataByConduit DEF Going
<1>2. Fixed' /\ Placed'
  BY FixedKept, PlacedKept DEF Going, Data
<1>3. Data'
  BY <1>1, <1>2, DataByConduitNext
<1>4. \A d \in Conduit : HeaderRead(d) => HeaderRead(d)'
  <2>1. \A d \in Conduit \ {c} : HeaderRead(d) => HeaderRead(d)'
    BY DEF SameAt, HeaderRead
  <2>2. QED
    BY <2>1
<1>5. \A d \in Conduit : d < c + 1 => d < c \/ d = c
  BY DEF Conduit
<1>6. /\ ~doneReading
      /\ stage = "fileHeaders" => \A d \in Conduit : d < at => HeaderRead(d)
      /\ stage # "fileHeaders" => \A d \in Conduit : HeaderRead(d)
  BY DEF Going, Passes, Reading_Passes
<1>7. stage = "fileHeaders" => \A d \in Conduit : d < at' => HeaderRead(d)'
  BY <1>4, <1>5, <1>6
<1>8. Passes'
  BY <1>4, <1>6, <1>7 DEF Passes, Reading_Passes, Moving_Passes
<1>9. QED
  BY <1>3, <1>8 DEF Right, Failed

LEMMA FillFileHeaderRight ==
  ASSUME Going, FillFileHeader
  PROVE  Right'
<1> DEFINE p == In(at)
<1>1. /\ at \in Conduit /\ pc = "fill" /\ job.kind[at] = "fileHeader"
      /\ TypeOK /\ ~newRecord[p] /\ p \in Pinfo /\ Listed(at)
  BY PinfoEnds DEF FillFileHeader, Filling, Going, IInv, AtConduit, Passes, Reading_Passes
<1>2. p \in job.ends
  BY <1>1 DEF Listed
<1>3. CASE arrayDone[p] /\ PassBy
  BY <1>1, <1>3, PassByReadsNothing, PassedByRight DEF PassBy, HeaderRead
<1>4. CASE Fail("ERR_READ_FILE") /\ UNCHANGED <<mapping, arrayDone>>
  BY <1>1, <1>4, PassByReadsNothing, FailsRight
<1>5. CASE /\ ~arrayDone[p]
           /\ Position(p, CurrentMap, 1) <= job.eof[at]
           /\ buffer' = [buffer EXCEPT ![p] = Chunk(p, CurrentMap, 1)]
           /\ left' = [left EXCEPT ![p] = 0]
           /\ arrayDone' = [arrayDone EXCEPT ![p] = TRUE]
           /\ Unlock(p, TRUE) /\ Advance("read")
           /\ UNCHANGED <<mapped, offset, disk>>
  <2>1. left[p] = 1
    BY <1>1, <1>2, <1>5 DEF Going, Data, Reads
  <2>2. /\ buffer \in [Pinfo -> SUBSET (0 .. MaxOffset)] /\ newRecord \in [Pinfo -> BOOLEAN]
        /\ left \in [Pinfo -> Int] /\ arrayDone \in [Pinfo -> BOOLEAN]
        /\ newRecord' = [newRecord EXCEPT ![p] = TRUE]
        /\ UNCHANGED <<job, stage, doneReading, error>> /\ pc' = "read" /\ at' = at + 1
    BY <1>1, <1>5 DEF TypeOK, Unlock, Advance
  <2>3. PICK c \in Conduit : c = at
    BY <1>1
  <2>4. DataAt(c)'
    <3>1. Chunk(p, CurrentMap, 1) = Stretch(c, 1)
      BY <1>1, <1>2, <2>1, <2>3, ChunkIsStretch DEF Going, Data
    <3>2. ~Thinned(job, c)
      BY <1>1, <2>3 DEF Thinned
    <3>3. newRecord'[In(c)] /\ buffer'[In(c)] = Stretch(c, 1)
      BY <1>1, <1>5, <2>2, <2>3, <3>1
    <3>4. Cached(In(c))' = {r \in Stretch(c, 1) : Thinned(job, c) => r \in job.keep}
      BY <3>2, <3>3 DEF Cached
    <3>5. left' = [left EXCEPT ![In(c)] = @ - 1]
          /\ arrayDone' = [arrayDone EXCEPT ![In(c)] = (left[In(c)] = 1)]
      <4>1. left[In(c)] = 1 /\ left[In(c)] - 1 = 0 /\ (left[In(c)] = 1) = TRUE
        BY <2>1, <2>3
      <4>2. left' = [left EXCEPT ![In(c)] = 0] /\ arrayDone' = [arrayDone EXCEPT ![In(c)] = TRUE]
        BY <1>5, <2>3
      <4>3. QED
        BY <4>1, <4>2
    <3>6. buffer'[Out(c)] = buffer[Out(c)] /\ newRecord'[Out(c)] = newRecord[Out(c)]
      BY <1>1, <1>5, <2>2, <2>3, PinfoEnds, InOut
    <3>7. Position(In(c), CurrentMap, 1) <= job.eof[c]
      BY <1>5, <2>3
    <3>8. /\ In(c) \in job.ends /\ left[In(c)] = 1 /\ UNCHANGED <<job, disk>>
          /\ 1 \in Nat /\ 1 <= left[In(c)]
      BY <1>2, <1>5, <2>1, <2>2, <2>3
    <3>9. QED
      BY <1>1, <2>3, <3>4, <3>5, <3>6, <3>7, <3>8, FilledAt
  <2>5. \A d \in Conduit \ {c} : SameAt(d)
    <3>1. TAKE d \in Conduit \ {c}
    <3>2. In(d) \in Pinfo /\ Out(d) \in Pinfo /\ In(d) # p /\ Out(d) # p
      BY <2>3, PinfoEnds, InOut
    <3>3. Delivered(d)' = Delivered(d)
      BY <1>5 DEF Delivered
    <3> HIDE DEF p
    <3>4. QED
      BY <1>5, <2>2, <3>2, <3>3 DEF SameAt
  <2>6. HeaderRead(c)'
    BY <1>1, <1>5, <2>2, <2>3 DEF HeaderRead
  <2>7. QED
    BY <1>1, <1>5, <2>2, <2>3, <2>4, <2>5, <2>6, FilledRight
<1>6. QED
  BY <1>3, <1>4, <1>5 DEF FillFileHeader

LEMMA FillDataRight ==
  ASSUME Going, FillData
  PROVE  Right'
<1> DEFINE p == In(at)
<1>1. /\ at \in Conduit /\ pc = "fill" /\ at \in InputData /\ p \in job.ends
      /\ TypeOK /\ PlainJob(job) /\ Reads /\ Fixed /\ ~newRecord[p] /\ p \in Pinfo
      /\ job \in JobSpace /\ at \in DataIn(job)
  BY PinfoEnds, FillDataShape, GoingTyped DEF Going, IInv, AtConduit, Data, InputData
<1>2. PICK m \in DataMaps : NotFilled(m) \/ FilledFrom(m)
  BY FillDataShape
<1>3. m = CurrentMap /\ ~arrayDone[p]
  <2>1. RecHeader("in") = {}
    BY GoingTyped
  <2>2. QED
    BY <2>1 DEF DataMaps
<1>4. /\ buffer \in [Pinfo -> SUBSET (0 .. MaxOffset)] /\ newRecord \in [Pinfo -> BOOLEAN]
      /\ left \in [Pinfo -> Int] /\ arrayDone \in [Pinfo -> BOOLEAN]
  BY <1>1 DEF TypeOK
<1>5. \A b \in BOOLEAN : DoneIf(b) = [arrayDone EXCEPT ![p] = b]
  BY <1>1, <1>3, <1>4 DEF DoneIf
<1>6. CASE NotFilled(m)
  <2>1. arrayDone' = arrayDone
    <3>1. [arrayDone EXCEPT ![p] = FALSE] = arrayDone
      BY <1>1, <1>3, <1>4
    <3>2. QED
      BY <1>5, <1>6, <3>1 DEF NotFilled
  <2>2. UNCHANGED mapping
    BY <1>3, <1>6 DEF SetMap, CurrentMap, mapping, NotFilled
  <2>3. Fail("ERR_READ_FILE")
    BY <1>6 DEF NotFilled
  <2>4. QED
    BY <1>1, <2>1, <2>2, <2>3, PassByReadsNothing, FailsRight
<1>7. CASE FilledFrom(m)
  <2>1. PICK n \in Nat \ {0} : /\ n = Taken(m) /\ n <= left[p]
                               /\ n = Lesser(left[p], job.cache[at])
                               /\ n = left[p] \/ n = job.cache[at]
    <3>1. left[p] \in Nat /\ job.cache[at] \in Nat \ {0}
      <4>1. left[p] \in 0 .. job.size[at] /\ job.size[at] \in Nat
        BY <1>1, PlainTyped DEF Reads
      <4>2. QED
        BY <1>1, <4>1, PlainTyped
    <3>2. Taken(m) = Lesser(left[p], job.cache[at]) /\ Taken(m) > 0
      BY <1>3, <1>7 DEF CurrentMap, Taken, FilledFrom
    <3>3. Taken(m) \in Nat /\ Taken(m) <= left[p] /\ (Taken(m) = left[p] \/ Taken(m) = job.cache[at])
      BY <3>1, <3>2 DEF Lesser
    <3>4. Taken(m) \in Nat \ {0}
      BY <3>2, <3>3
    <3>5. QED
      BY <3>2, <3>3, <3>4
  <2>2. PICK c \in Conduit : c = at
    BY <1>1
  <2> DEFINE S == Stretch(c, n)
             X == IF ~job.query THEN S ELSE IF FailsToSet(S) THEN HalfMoved(S) ELSE Kept(S)
  <2>3. job.query => FirstIn = p /\ Thinned(job, c)
    <3>1. SUFFICES ASSUME job.query PROVE FirstData = at /\ job.kind[c] = "table"
      BY DEF Thinned, FirstIn
    <3>2. \A d \in InputData : d = at /\ job.kind[d] = "table"
      BY <1>1, <3>1, GoingTyped DEF PlainJob
    <3>3. FirstData \in InputData
      <4>1. at \in InputData /\ \A d \in InputData : at <= d
        BY <1>1, <3>2 DEF Conduit
      <4>2. QED
        BY <4>1 DEF FirstData
    <3>4. QED
      BY <1>1, <2>2, <3>2, <3>3
  <2>4. /\ left' = [left EXCEPT ![p] = @ - n] /\ UNCHANGED <<mapped, offset>>
        /\ arrayDone' = [arrayDone EXCEPT ![p] = (left[p] = n)]
    <3>1. m.left = left /\ m.mapped = mapped /\ m.offset = offset
      BY <1>3 DEF CurrentMap
    <3>2. [m EXCEPT !.left[p] = @ - n].left = [left EXCEPT ![p] = @ - n]
          /\ [m EXCEPT !.left[p] = @ - n].mapped = mapped
          /\ [m EXCEPT !.left[p] = @ - n].offset = offset
      BY <1>3 DEF CurrentMap
    <3>3. arrayDone' = DoneIf(left[p] = n) /\ SetMap([m EXCEPT !.left[p] = @ - n])
      BY <1>7, <2>1, <3>1 DEF FilledFrom
    <3>4. (left[p] = n) \in BOOLEAN
      OBVIOUS
    <3> HIDE DEF p
    <3>5. QED
      BY <1>5, <3>2, <3>3, <3>4 DEF SetMap
  <2>5. Full(m) = [buffer EXCEPT ![p] = S]
    <3>1. Chunk(p, m, Taken(m)) = S
      BY <1>1, <1>3, <2>1, <2>2, ChunkIsStretch
    <3>2. QED
      BY <3>1 DEF Full
  <2>6. S \in SUBSET (0 .. MaxOffset) /\ Full(m)[p] = S
    BY <1>1, <1>4, <2>5 DEF Stretch
  <2>7. buffer' = [buffer EXCEPT ![p] = X]
    <3>1. buffer' = Filtered(Full(m))
      BY <1>7 DEF FilledFrom
    <3>2. CASE ~job.query
      BY <2>5, <3>1, <3>2 DEF Filtered
    <3>3. CASE job.query
      <4>1. In(FirstData) = p
        BY <2>3, <3>3 DEF FirstIn
      <4>2. Filtered(Full(m)) =
              [Full(m) EXCEPT ![p] = IF FailsToSet(Full(m)[p]) THEN HalfMoved(Full(m)[p])
                                     ELSE Kept(Full(m)[p])]
        BY <3>3, <4>1, Zenon DEF Filtered
      <4>3. Filtered(Full(m)) = [[buffer EXCEPT ![p] = S] EXCEPT ![p] = X]
        BY <2>5, <2>6, <3>3, <4>2
      <4> HIDE DEF X, S, p
      <4>4. QED
        BY <1>1, <1>4, <3>1, <4>3
    <3>4. QED
      BY <3>2, <3>3
  <2>8. /\ newRecord'[p] = (Told(m) # "EOF")
        /\ \A q \in Pinfo \ {p} : newRecord'[q] = newRecord[q]
    <3>1. CASE Told(m) = "EOF"
      <4>1. job.query
        BY <3>1 DEF Told
      <4>2. newRecord' = [[newRecord EXCEPT ![p] = TRUE] EXCEPT ![p] = FALSE]
        BY <1>7, <2>3, <3>1, <4>1, Zenon DEF FilledFrom
      <4> HIDE DEF p
      <4>3. QED
        BY <1>1, <1>4, <3>1, <4>2
    <3>2. CASE Told(m) # "EOF"
      <4>1. newRecord' = [newRecord EXCEPT ![p] = TRUE]
        BY <1>7, <3>2, Zenon DEF FilledFrom
      <4> HIDE DEF p
      <4>2. QED
        BY <1>1, <1>4, <3>2, <4>1
    <3>3. QED
      BY <3>1, <3>2
  <2>9. \/ Told(m) = "none" /\ X = {r \in S : Thinned(job, c) => r \in job.keep}
        \/ Told(m) = "EOF" /\ {r \in S : Thinned(job, c) => r \in job.keep} = {}
        \/ Told(m) = "ERR_GEN_QUERY"
    <3>1. CASE ~job.query
      BY <3>1 DEF Told, Thinned
    <3>2. CASE job.query
      <4>1. Told(m) = FilterError(S)
        BY <2>3, <2>6, <3>2 DEF Told
      <4>2. \A r \in job.keep \cap S, u \in job.undefined \cap S :
              \E s \in job.keep \cap S : s < u
        BY <1>1, <2>1, <2>2, <3>2, QueryTold
      <4>3. \/ FilterError(S) = "none" /\ ~FailsToSet(S) /\ Kept(S) = S \cap job.keep
            \/ FilterError(S) = "EOF" /\ S \cap job.keep = {}
            \/ FilterError(S) = "ERR_GEN_QUERY"
        <5> HIDE DEF S
        <5>1. QED
          BY <1>1, <2>6, <4>2, FilterTells
      <4>4. {r \in S : Thinned(job, c) => r \in job.keep} = S \cap job.keep
        BY <2>3, <3>2
      <4>5. QED
        BY <3>2, <4>1, <4>3, <4>4
    <3>3. QED
      BY <3>1, <3>2
  <2>10. UNCHANGED disk /\ Position(In(c), CurrentMap, n) <= job.eof[c]
    BY <1>3, <1>7, <2>1, <2>2 DEF FilledFrom
  <2>11. \A q \in Pinfo \ {p} : /\ left'[q] = left[q] /\ arrayDone'[q] = arrayDone[q]
                                /\ buffer'[q] = buffer[q]
    <3> HIDE DEF X, S, p
    <3>1. QED
      BY <1>1, <1>4, <2>4, <2>7
  <2>12. CASE Told(m) # "ERR_GEN_QUERY"
    <3>1. /\ UNCHANGED <<job, stage, doneReading, error>> /\ pc' = "read"
          /\ at' = at \/ at' = at + 1
      BY <1>7, <2>9, <2>12, Zenon DEF FilledFrom, Advance
    <3>2. DataAt(c)'
      <4>1. buffer'[p] = X
        <5> HIDE DEF X, S, p
        <5>1. QED
          BY <1>1, <1>4, <2>7
      <4>2. Cached(In(c))' = {r \in S : Thinned(job, c) => r \in job.keep}
        <5>1. Cached(In(c))' = IF newRecord'[In(c)] THEN buffer'[In(c)] ELSE {}
          BY DEF Cached
        <5>2. newRecord'[In(c)] = (Told(m) # "EOF") /\ buffer'[In(c)] = X
          BY <2>2, <2>8, <4>1
        <5> HIDE DEF X, S, p
        <5>3. QED
          BY <2>9, <2>12, <5>1, <5>2
      <4>3. buffer'[Out(c)] = buffer[Out(c)] /\ newRecord'[Out(c)] = newRecord[Out(c)]
        <5>1. Out(c) \in Pinfo \ {p}
          BY PinfoEnds, InOut
        <5>2. QED
          BY <2>8, <2>11, <5>1
      <4>4. job.kind[c] # "fileHeader"
        BY <1>1, <2>2 DEF InputData
      <4>5. UNCHANGED <<job, disk>>
        BY <2>10, <3>1
      <4>6. /\ In(c) \in job.ends /\ n <= left[In(c)] /\ (n = left[In(c)] \/ n = job.cache[c])
            /\ left' = [left EXCEPT ![In(c)] = @ - n] /\ n \in Nat
            /\ arrayDone' = [arrayDone EXCEPT ![In(c)] = (left[In(c)] = n)]
        BY <1>1, <2>1, <2>2, <2>4
      <4>7. QED
        BY <1>1, <2>2, <2>10, <4>2, <4>3, <4>4, <4>5, <4>6, FilledAt
    <3>3. \A d \in Conduit \ {c} : SameAt(d)
      <4>1. TAKE d \in Conduit \ {c}
      <4>2. In(d) \in Pinfo \ {p} /\ Out(d) \in Pinfo \ {p}
        BY <2>2, PinfoEnds, InOut
      <4>3. Delivered(d)' = Delivered(d) /\ UNCHANGED job
        BY <2>10, <3>1 DEF Delivered
      <4> HIDE DEF p
      <4>4. QED
        BY <2>8, <2>11, <4>2, <4>3 DEF SameAt
    <3>4. HeaderRead(c)'
      BY <1>1, <2>2, <3>1 DEF HeaderRead, InputData
    <3>5. QED
      BY <1>1, <2>2, <2>4, <2>10, <3>1, <3>2, <3>3, <3>4, FilledRight
  <2>13. CASE Told(m) = "ERR_GEN_QUERY"
    <3>1. UNCHANGED <<job, disk>> /\ error' = "ERR_GEN_QUERY" /\ pc' = "return"
      BY <1>7, <2>13, Zenon DEF FilledFrom, Return
    <3>2. \A d \in Mated : Cached(Out(d))' = Cached(Out(d))
      <4>1. TAKE d \in Mated
      <4>2. Out(d) \in Pinfo \ {p}
        BY PinfoEnds, InOut DEF Mated
      <4>3. QED
        BY <2>8, <2>11, <4>2 DEF Cached
    <3>3. Placed' /\ Conservation'
      BY <1>1, <3>1, <3>2, FailureRight DEF Going
    <3>4. QED
      BY <3>1, <3>3 DEF Right, Failed
  <2>14. QED
    BY <2>12, <2>13
<1>8. QED
  BY <1>2, <1>6, <1>7

LEMMA ReadRight ==
  ASSUME Going, Read
  PROVE  Right'
<1>1. ~FillRecordHeader /\ ~WaitForData
  <2>1. pc = "fill" => In(at) \in job.ends /\ at \in Conduit
    BY DEF Going, Passes, Reading_Passes, Listed, IInv, AtConduit
  <2>2. pc = "fill" => job.kind[at] # "recHeader"
    BY <2>1 DEF Going, PlainJob
  <2>3. QED
    BY <2>2 DEF FillRecordHeader, WaitForData, Filling
<1>2. QED
  BY <1>1, SkipFormatRight, LockFormatRight, FinishReadingRight, FillFileHeaderRight,
     EndOfDataRight, FillDataRight DEF Read

-----------------------------------------------------------------------------
(* The callers of the reading passes                                          *)

LEMMA HeadersReadRight ==
  ASSUME Going, HeadersRead
  PROVE  Right'
<1>1. /\ pc = "return" /\ stage = "fileHeaders" /\ error \in {"none", "EOF"}
      /\ stage' = "recHeaders" /\ error' = "none" /\ pc' = "read"
      /\ UNCHANGED doneReading
  BY DEF HeadersRead, Goto
<1>2. UNCHANGED arrayDone
  <2>1. arrayDone \in [Pinfo -> BOOLEAN]
    BY GoingTyped DEF TypeOK
  <2>2. arrayDone' = [p \in Pinfo |-> arrayDone[p] \/ FALSE]
    BY GoingTyped DEF HeadersRead
  <2>3. QED
    BY <2>1, <2>2
<1>3. Quiet
  BY <1>2 DEF HeadersRead, Quiet, mapping
<1>4. Data'
  BY <1>3, QuietKeeps DEF Going
<1>5. ~doneReading /\ \A c \in Conduit : HeaderRead(c)
  BY <1>1 DEF Going, Passes, Reading_Passes
<1>6. \A c \in Conduit : HeaderRead(c)'
  BY <1>3, <1>5 DEF Quiet, HeaderRead
<1>7. Passes'
  BY <1>1, <1>5, <1>6 DEF Passes, Reading_Passes, Moving_Passes
<1>8. QED
  BY <1>1, <1>4, <1>7 DEF Right, Failed

LEMMA RecordHeaderReadRight ==
  ASSUME Going, RecordHeaderRead
  PROVE  Right'
<1>1. /\ pc = "return" /\ stage = "recHeaders" /\ stage' = "formatMappings"
      /\ error' = "none" /\ pc' = "read" /\ UNCHANGED doneReading
  BY DEF RecordHeaderRead, Goto
<1>2. Quiet
  BY DEF RecordHeaderRead, Quiet, mapping
<1>3. Data'
  BY <1>2, QuietKeeps DEF Going
<1>4. ~doneReading /\ \A c \in Conduit : HeaderRead(c)
  BY <1>1 DEF Going, Passes, Reading_Passes
<1>5. \A c \in Conduit : HeaderRead(c)'
  BY <1>2, <1>4 DEF Quiet, HeaderRead
<1>6. Passes'
  BY <1>1, <1>4, <1>5 DEF Passes, Reading_Passes, Moving_Passes
<1>7. QED
  BY <1>1, <1>3, <1>6 DEF Right, Failed

\* A failure that moves no record.
LEMMA GivenUpRight ==
  ASSUME Going, pc' = "done", error' # "none",
         UNCHANGED <<job, disk, buffer, newRecord>>
  PROVE  Right'
<1>1. \A c \in Mated : Cached(In(c))' = Cached(In(c)) /\ Cached(Out(c))' = Cached(Out(c))
  BY DEF Cached
<1>2. Placed' /\ Conservation'
  BY <1>1, GoingTyped, FailureRight DEF Going
<1>3. QED
  BY <1>2 DEF Right, Failed

LEMMA CreateMappingsRight ==
  ASSUME Going, CreateMappings
  PROVE  Right'
<1>1. /\ pc = "return" /\ stage = "formatMappings" /\ UNCHANGED doneReading
      /\ UNCHANGED <<job, mapping, newRecord, locked, arrayDone, buffer, disk>>
      /\ \/ stage' = "process" /\ error' = "none" /\ pc' = "read"
         \/ error' = "ERR_GEN_QUERY" /\ pc' = "done"
  BY DEF CreateMappings, Goto
<1>2. CASE stage' = "process" /\ error' = "none" /\ pc' = "read"
  <2>1. Quiet
    BY <1>1 DEF Quiet, mapping
  <2>2. Data'
    BY <2>1, QuietKeeps DEF Going
  <2>3. ~doneReading /\ \A c \in Conduit : HeaderRead(c)
    BY <1>1 DEF Going, Passes, Reading_Passes
  <2>4. \A c \in Conduit : HeaderRead(c)'
    BY <2>1, <2>3 DEF Quiet, HeaderRead
  <2>5. Passes'
    BY <1>1, <1>2, <2>3, <2>4 DEF Passes, Reading_Passes, Moving_Passes
  <2>6. QED
    BY <1>2, <2>2, <2>5 DEF Right, Failed
<1>3. CASE error' = "ERR_GEN_QUERY" /\ pc' = "done"
  BY <1>1, <1>3, GivenUpRight
<1>4. QED
  BY <1>1, <1>2, <1>3

LEMMA ProcessingRight ==
  ASSUME Going, Processing
  PROVE  Right'
<1>1. /\ pc = "return" /\ stage = "process" /\ stage' = stage
      /\ error \in {"none", "EOF", "ERR_GENERAL"}
      /\ doneReading' = (error # "none")
      /\ error' = "none" /\ pc' = "convert" /\ at' = 1
  BY DEF Processing, Goto
<1>2. Quiet
  BY DEF Processing, Quiet, mapping
<1>3. Data'
  BY <1>2, QuietKeeps DEF Going
<1>4. error = "none" \/ AllRead
  BY <1>1 DEF Going, Passes, Reading_Passes
<1>5. doneReading' => AllRead'
  BY <1>1, <1>2, <1>4 DEF AllRead, Quiet
<1>6. \A c \in Conduit : HeaderRead(c)'
  BY <1>1, <1>2 DEF Going, Passes, Reading_Passes, Quiet, HeaderRead
<1>7. \A c \in Conduit : Settled(c)'
  BY <1>1 DEF Going, IInv, Emptied, Settled, Processing
<1>8. \A c \in Conduit : ~(c < 1)
  BY NumConduitsAssumption DEF Conduit
<1>9. Passes'
  BY <1>1, <1>5, <1>6, <1>7, <1>8 DEF Passes, Reading_Passes, Moving_Passes
<1>10. QED
  BY <1>1, <1>3, <1>9 DEF Right, Failed

LEMMA EndReadRight ==
  ASSUME Going, EndRead
  PROVE  Right'
<1>1. CASE GiveUp
  BY <1>1, GivenUpRight DEF GiveUp
<1>2. QED
  BY <1>1, HeadersReadRight, RecordHeaderReadRight, CreateMappingsRight,
     ProcessingRight DEF EndRead

-----------------------------------------------------------------------------
(* Conversion                                                                 *)

\* An output whose mapping is used up has had every record.
LEMMA FullOutput ==
  ASSUME TypeOK, PlainJob(job), Data, NEW c \in Mated, arrayDone[Out(c)]
  PROVE  Cached(In(c)) = {} /\ Cached(Out(c)) = {}
<1>1. c \in Conduit /\ In(c) \in job.ends /\ Out(c) \in job.ends /\ job \in JobSpace
  BY DEF Mated, TypeOK
<1>2. /\ Expected(c) = job.wanted[c] /\ job.size[c] \in Nat
      /\ Expected(c) \in SUBSET (0 .. MaxOffset)
  BY <1>1, PlainTyped, ExpectedFinite DEF Expected
<1>3. Seen(c) \subseteq Expected(c) /\ Delivered(c) \subseteq Expected(c) /\ Ordered(c)
  BY <1>1, <1>2 DEF Data, Runs, Seen, Upto
<1>4. 0 = job.size[c] - Cardinality(Delivered(c))
  BY <1>1 DEF Data, Counts
<1>5. Cardinality(Delivered(c)) \in Nat /\ Cardinality(Expected(c)) \in Nat
  BY <1>1, <1>3, ExpectedFinite
<1>6. Cardinality(Expected(c)) <= Cardinality(Delivered(c))
  BY <1>1, <1>2, <1>4, <1>5, ExpectedSize
<1>7. Cardinality(Delivered(c)) <= Cardinality(Expected(c))
  BY <1>1, <1>3, Parts
<1>8. Delivered(c) = Expected(c)
  <2>1. Cardinality(Delivered(c)) = Cardinality(Expected(c))
    BY <1>5, <1>6, <1>7
  <2>2. QED
    BY <1>1, <1>3, <2>1, Parts
<1>9. ASSUME NEW r \in Cached(In(c)) \cup Cached(Out(c))
      PROVE  FALSE
  <2>1. r \in Delivered(c) /\ r \in Int
    BY <1>2, <1>3, <1>8 DEF Seen
  <2>2. r < r
    BY <1>3, <2>1 DEF Ordered
  <2>3. QED
    BY <2>1, <2>2
<1>10. QED
  BY <1>9

\* A step of the conversion: one conduit's records have moved on.
LEMMA ConvertedRight ==
  ASSUME Going, pc = "convert", NEW c \in Conduit, c = at, DataAt(c)', Moved(c)',
         \A d \in Conduit \ {c} : SameAt(d),
         UNCHANGED <<job, left, mapped, offset, disk, arrayDone, stage, doneReading>>,
         pc' = "convert", at' = at + 1
  PROVE  Right'
<1>1. \A d \in Conduit \ {c} : DataAt(d)'
  BY KeptAt, DataByConduit DEF Going
<1>2. Fixed' /\ Placed'
  BY FixedKept, PlacedKept DEF Going, Data
<1>3. Data'
  BY <1>1, <1>2, DataByConduitNext
<1>4. \A d \in Conduit : HeaderRead(d) => HeaderRead(d)'
  BY DEF HeaderRead
<1>5. AllRead => AllRead'
  BY DEF AllRead
<1>6. \A d \in Conduit \ {c} : (Moved(d) => Moved(d)') /\ (Settled(d) => Settled(d)')
  BY DEF SameAt, Moved, Settled, Cached, Mated, Templates
<1>7. \A d \in Conduit : IF d < c THEN Moved(d) ELSE Settled(d)
  BY DEF Going, Passes, Moving_Passes
<1>8. \A d \in Conduit : IF d < c + 1 THEN Moved(d)' ELSE Settled(d)'
  <2>1. \A d \in Conduit : d = c \/ (d # c /\ d < c + 1 /\ d < c) \/ (d # c /\ ~(d < c + 1) /\ ~(d < c))
    BY DEF Conduit
  <2>2. c < c + 1
    BY DEF Conduit
  <2>3. QED
    BY <1>6, <1>7, <2>1, <2>2
<1>9. /\ stage # "fileHeaders" => \A d \in Conduit : HeaderRead(d)
      /\ doneReading => AllRead
  BY DEF Going, Passes, Reading_Passes
<1>10. \A d \in Conduit : IF d < at' THEN Moved(d)' ELSE Settled(d)'
  BY <1>8
<1>11. Passes'
  BY <1>4, <1>5, <1>9, <1>10 DEF Passes, Reading_Passes, Moving_Passes
<1>12. QED
  BY <1>3, <1>11 DEF Right, Failed

LEMMA SkipConversionRight ==
  ASSUME Going, SkipConversion
  PROVE  Right'
<1>1. /\ pc = "convert" /\ at \in Conduit /\ ~Convertible /\ ~Templated
      /\ Advance("convert")
      /\ UNCHANGED <<mapping, newRecord, locked, arrayDone, buffer, disk>>
  BY DEF SkipConversion, Converting
<1>2. PICK c \in Conduit : c = at
  BY <1>1
<1>3. \A d \in Conduit : SameAt(d)
  BY <1>1 DEF SameAt, Advance, mapping, Delivered
<1>4. Settled(c) /\ DataAt(c)
  <2>1. ~(c < c)
    BY DEF Conduit
  <2>2. QED
    BY <1>1, <1>2, <2>1, DataByConduit DEF Going, Passes, Moving_Passes
<1>5. Moved(c)
  <2>1. ASSUME c \in Mated
        PROVE  Cached(In(c)) = {}
    <3>1. ~newRecord[In(c)] \/ newRecord[Out(c)]
      BY <1>1, <1>2, <2>1 DEF Convertible, HasMate, Mated
    <3>2. CASE ~newRecord[In(c)]
      BY <3>2 DEF Cached
    <3>3. CASE newRecord[Out(c)]
      BY <1>4, <2>1, <3>3, FullOutput, GoingTyped DEF Settled, Going
    <3>4. QED
      BY <3>1, <3>2, <3>3
  <2>2. ASSUME c \in Templates
        PROVE  newRecord[Out(c)] \/ arrayDone[Out(c)]
    BY <1>1, <1>2, <2>2 DEF Templated, Templates
  <2>3. QED
    BY <2>1, <2>2 DEF Moved
<1>6. DataAt(c)'
  BY <1>3, <1>4, KeptAt
<1>7. Moved(c)'
  BY <1>1, <1>5 DEF Moved, Cached, Mated, Templates, Advance
<1>8. QED
  BY <1>1, <1>2, <1>3, <1>6, <1>7, ConvertedRight DEF Advance, mapping

LEMMA ConvertRight ==
  ASSUME Going, Convert
  PROVE  Right'
<1>1. /\ pc = "convert" /\ at \in Conduit /\ Convertible /\ Advance("convert")
      /\ buffer' = [buffer EXCEPT ![Out(at)] = buffer[In(at)]]
      /\ newRecord' = [newRecord EXCEPT ![Out(at)] = TRUE, ![In(at)] = FALSE]
      /\ UNCHANGED <<mapping, locked, arrayDone, disk>>
  BY DEF Convert, Converting
<1>2. PICK c \in Conduit : c = at
  BY <1>1
<1>3. /\ buffer \in [Pinfo -> SUBSET (0 .. MaxOffset)] /\ newRecord \in [Pinfo -> BOOLEAN]
  BY GoingTyped DEF TypeOK
<1>4. /\ In(c) \in Pinfo /\ Out(c) \in Pinfo /\ In(c) # Out(c)
  BY PinfoEnds, InOut
<1>5. /\ buffer'[Out(c)] = buffer[In(c)] /\ newRecord'[Out(c)] /\ ~newRecord'[In(c)]
      /\ c \in Mated /\ newRecord[In(c)] /\ ~newRecord[Out(c)]
      /\ UNCHANGED <<job, left, mapped, offset, disk, arrayDone, stage, doneReading>>
  <2>1. c \in Mated /\ newRecord[In(c)] /\ ~newRecord[Out(c)]
    BY <1>1, <1>2 DEF Convertible, HasMate, Mated
  <2>2. buffer'[Out(c)] = buffer[In(c)] /\ newRecord'[Out(c)] /\ ~newRecord'[In(c)]
    BY <1>1, <1>2, <1>3, <1>4
  <2>3. QED
    BY <1>1, <2>1, <2>2 DEF Advance, mapping
<1>6. /\ Cached(Out(c))' = Cached(In(c)) /\ Cached(In(c))' = {} /\ Cached(Out(c)) = {}
      /\ Delivered(c)' = Delivered(c)
  BY <1>5 DEF Cached, Delivered
<1>7. DataAt(c) /\ c \notin Templates
  BY <1>5, DataByConduit DEF Going, Mated, Templates
<1>8. DataAt(c)'
  <2>1. c \in Mated' /\ c \notin Templates'
    BY <1>5 DEF Mated, Templates
  <2>2. Ordered(c) /\ Seen(c) = Upto(c, ReadTo(c))
    BY <1>5, <1>7 DEF DataAt
  <2>3. Ordered(c)'
    BY <1>6, <2>2 DEF Ordered
  <2>4. Seen(c)' = Seen(c)
    BY <1>6 DEF Seen
  <2>5. ReadTo(c)' = ReadTo(c) /\ Upto(c, ReadTo(c))' = Upto(c, ReadTo(c))
        /\ (Even(c) => Even(c)')
    BY <1>5 DEF ReadTo, Upto, Even
  <2>6. QED
    BY <1>5, <1>6, <1>7, <2>1, <2>2, <2>3, <2>4, <2>5 DEF DataAt
<1>9. \A d \in Conduit \ {c} : SameAt(d)
  <2>1. TAKE d \in Conduit \ {c}
  <2>2. /\ In(d) \in Pinfo /\ Out(d) \in Pinfo
        /\ In(d) \notin {In(c), Out(c)} /\ Out(d) \notin {In(c), Out(c)}
    BY PinfoEnds, InOut
  <2>3. \A q \in Pinfo \ {In(c), Out(c)} : buffer'[q] = buffer[q] /\ newRecord'[q] = newRecord[q]
    BY <1>1, <1>2, <1>3, <1>4
  <2>4. Delivered(d)' = Delivered(d)
    BY <1>5 DEF Delivered
  <2>5. QED
    BY <1>5, <2>2, <2>3, <2>4 DEF SameAt
<1>10. Moved(c)'
  BY <1>6, <1>7, <1>5 DEF Moved, Templates
<1>11. QED
  BY <1>1, <1>2, <1>5, <1>8, <1>9, <1>10, ConvertedRight DEF Advance

LEMMA ConvertFailsRight ==
  ASSUME Going, ConvertFails
  PROVE  Right'
<1>1. /\ at \in Conduit /\ ~newRecord[Out(at)] /\ UNCHANGED <<job, disk, newRecord>>
      /\ error' = "ERR_CONVERT" /\ pc' = "done"
      /\ \E S : buffer' = [buffer EXCEPT ![Out(at)] = S]
  BY DEF ConvertFails, Converting, Convertible
<1>2. buffer \in [Pinfo -> SUBSET (0 .. MaxOffset)]
  BY GoingTyped DEF TypeOK
<1>3. \A q \in Pinfo : Cached(q)' = Cached(q)
  BY <1>1, <1>2 DEF Cached
<1>4. \A c \in Mated : Cached(In(c))' = Cached(In(c)) /\ Cached(Out(c))' = Cached(Out(c))
  BY <1>3, PinfoEnds DEF Mated
<1>5. Placed' /\ Conservation'
  BY <1>1, <1>4, GoingTyped, FailureRight DEF Going
<1>6. QED
  BY <1>1, <1>5 DEF Right, Failed

LEMMA FillTemplateRight ==
  ASSUME Going, FillTemplate
  PROVE  Right'
<1>1. /\ pc = "convert" /\ at \in Conduit /\ Templated /\ Advance("convert")
      /\ buffer' = [buffer EXCEPT ![Out(at)] = {i \in 0 .. MaxOffset : i < mapped[Out(at)]}]
      /\ newRecord' = [newRecord EXCEPT ![Out(at)] = TRUE]
      /\ UNCHANGED <<mapping, locked, arrayDone, disk>>
  BY DEF FillTemplate, Converting
<1>2. PICK c \in Conduit : c = at
  BY <1>1
<1>3. /\ buffer \in [Pinfo -> SUBSET (0 .. MaxOffset)] /\ newRecord \in [Pinfo -> BOOLEAN]
  BY GoingTyped DEF TypeOK
<1>4. /\ In(c) \in Pinfo /\ Out(c) \in Pinfo /\ In(c) # Out(c)
  BY PinfoEnds, InOut
<1>5. /\ c \in Templates /\ c \notin Mated /\ ~newRecord[Out(c)] /\ ~arrayDone[Out(c)]
      /\ Out(c) \in job.ends /\ In(c) \notin job.ends
  BY <1>1, <1>2 DEF Templated, Templates, Mated, Going, PlainJob
<1>6. /\ newRecord'[Out(c)] /\ buffer'[Out(c)] = {0}
      /\ UNCHANGED <<job, left, mapped, offset, disk, arrayDone, stage, doneReading>>
  <2>1. mapped[Out(c)] = 1
    <3>1. mapped[Out(c)] = job.size[c]
      BY <1>4, <1>5 DEF Going, Data, Fixed, Out
    <3>2. QED
      BY <1>5, <3>1 DEF Going, PlainJob
  <2>2. {i \in 0 .. MaxOffset : i < 1} = {0}
    BY MaxOffsetAssumption
  <2>3. newRecord'[Out(c)] /\ buffer'[Out(c)] = {0}
    BY <1>1, <1>2, <1>3, <1>4, <2>1, <2>2
  <2>4. QED
    BY <1>1, <2>3 DEF Advance, mapping
<1>7. DataAt(c)
  BY DataByConduit DEF Going
<1>8. DataAt(c)'
  <2>1. c \in Templates' /\ c \notin Mated'
    BY <1>5, <1>6 DEF Templates, Mated
  <2>2. Delivered(c)' = Delivered(c) /\ Delivered(c) = {}
    BY <1>5, <1>6, <1>7 DEF DataAt, Delivered
  <2>3. QED
    BY <1>5, <1>6, <1>7, <2>1, <2>2 DEF DataAt
<1>9. \A d \in Conduit \ {c} : SameAt(d)
  <2>1. TAKE d \in Conduit \ {c}
  <2>2. /\ In(d) \in Pinfo \ {Out(c)} /\ Out(d) \in Pinfo \ {Out(c)}
    BY PinfoEnds, InOut
  <2>3. \A q \in Pinfo \ {Out(c)} : buffer'[q] = buffer[q] /\ newRecord'[q] = newRecord[q]
    BY <1>1, <1>2, <1>3, <1>4
  <2>4. Delivered(d)' = Delivered(d)
    BY <1>6 DEF Delivered
  <2>5. QED
    BY <1>6, <2>2, <2>3, <2>4 DEF SameAt
<1>10. Moved(c)'
  BY <1>5, <1>6 DEF Moved, Mated, Templates
<1>11. QED
  BY <1>1, <1>2, <1>6, <1>8, <1>9, <1>10, ConvertedRight DEF Advance

LEMMA EndConversionRight ==
  ASSUME Going, EndConversion
  PROVE  Right'
<1>1. /\ pc = "convert" /\ at = NumConduits + 1 /\ pc' = "write" /\ at' = 1
      /\ newRecord' = [p \in Pinfo |-> newRecord[p] /\
                         ~(p \in job.ends /\ p[1] = "in" /\ Out(p[2]) \notin job.ends)]
      /\ UNCHANGED <<job, stage, doneReading, error, mapping, locked, arrayDone,
                     buffer, disk>>
  BY DEF EndConversion, Goto
<1>2. newRecord \in [Pinfo -> BOOLEAN]
  BY GoingTyped DEF TypeOK
<1>3. Quiet
  <2>1. ASSUME NEW c \in Conduit
        PROVE  /\ newRecord'[Out(c)] = newRecord[Out(c)]
               /\ newRecord'[In(c)] => newRecord[In(c)]
               /\ c \in Mated => newRecord'[In(c)] = newRecord[In(c)]
    <3>1. In(c) \in Pinfo /\ Out(c) \in Pinfo
      BY PinfoEnds
    <3>2. Out(c)[1] = "out" /\ In(c)[1] = "in" /\ In(c)[2] = c
      BY DEF In, Out
    <3>3. newRecord[In(c)] \in BOOLEAN /\ newRecord[Out(c)] \in BOOLEAN
      BY <1>2, <3>1
    <3>4. newRecord'[Out(c)] = newRecord[Out(c)]
      BY <1>1, <3>1, <3>2, <3>3
    <3>5. newRecord'[In(c)] = (newRecord[In(c)] /\ ~(In(c) \in job.ends /\ Out(c) \notin job.ends))
      BY <1>1, <3>1, <3>2
    <3>6. c \in Mated => newRecord'[In(c)] = newRecord[In(c)]
      BY <3>3, <3>5 DEF Mated
    <3>7. QED
      BY <3>4, <3>5, <3>6
  <2>2. QED
    BY <1>1, <2>1 DEF Quiet, mapping
<1>4. Data'
  BY <1>3, QuietKeeps DEF Going
<1>5. \A c \in Conduit : c < at /\ ~(c < 1)
  BY <1>1, NumConduitsAssumption DEF Conduit
<1>6. \A c \in Conduit : Moved(c)
  BY <1>1, <1>5 DEF Going, Passes, Moving_Passes
<1>7. \A c \in Conduit : Moved(c)'
  BY <1>3, <1>6 DEF Quiet, Moved, Cached, Mated, Templates
<1>8. /\ stage # "fileHeaders" => \A d \in Conduit : HeaderRead(d)'
      /\ doneReading => AllRead'
  BY <1>3 DEF Going, Passes, Reading_Passes, Quiet, HeaderRead, AllRead
<1>9. Passes'
  BY <1>1, <1>5, <1>7, <1>8 DEF Passes, Reading_Passes, Moving_Passes
<1>10. QED
  BY <1>1, <1>4, <1>9 DEF Right, Failed

LEMMA ConvertFormatsRight ==
  ASSUME Going, ConvertFormats
  PROVE  Right'
BY SkipConversionRight, ConvertRight, ConvertFailsRight, FillTemplateRight,
   EndConversionRight DEF ConvertFormats

-----------------------------------------------------------------------------
(* Writing                                                                    *)

\* What waits in an output's cache comes right behind what has been written.
LEMMA OutputAhead ==
  ASSUME Going, NEW c \in Conduit, Out(c) \in job.ends, newRecord[Out(c)]
  PROVE  /\ buffer[Out(c)] \subseteq Expected(c) /\ Delivered(c) \subseteq Expected(c)
         /\ Delivered(c) \cap buffer[Out(c)] = {}
         /\ \A r \in buffer[Out(c)] :
              {s \in Expected(c) : s < r} = Delivered(c) \cup {s \in buffer[Out(c)] : s < r}
<1>1. DataAt(c) /\ job \in JobSpace /\ Cached(Out(c)) = buffer[Out(c)]
  BY GoingTyped, DataByConduit DEF Going, Cached
<1>2. Expected(c) \in SUBSET (0 .. MaxOffset)
  BY <1>1, ExpectedFinite
<1>3. \A r \in Expected(c) : r \in Int
  BY <1>2, MaxOffsetAssumption
<1>4. CASE c \in Mated
  <2>1. Expected(c) = job.wanted[c]
    BY <1>4 DEF Mated, Expected
  <2>2. Ordered(c) /\ Seen(c) = {r \in Expected(c) : r < ReadTo(c)}
    BY <1>1, <1>4, <2>1 DEF DataAt, Upto
  <2>3. /\ Delivered(c) \subseteq Expected(c) /\ buffer[Out(c)] \subseteq Expected(c)
        /\ Cached(In(c)) \subseteq Expected(c)
    BY <1>1, <2>2 DEF Seen
  <2>4. \A r \in Delivered(c), s \in buffer[Out(c)] : r < s
    BY <1>1, <2>2 DEF Ordered
  <2>5. ReadTo(c) \in Int
    <3>1. left[In(c)] \in Int /\ job.size[c] \in Int /\ job.start[In(c)] \in Int
          /\ job.recl[In(c)] \in Int
      BY <1>1, PinfoEnds, PlainTyped, GoingTyped DEF TypeOK
    <3>2. \A x, y \in Int : x * y \in Int
      BY SMT
    <3>3. (job.size[c] - left[In(c)]) * job.recl[In(c)] \in Int
      BY <3>1, <3>2
    <3>4. QED
      BY <3>1, <3>3 DEF ReadTo
  <2>6. ASSUME NEW r \in buffer[Out(c)]
        PROVE  {s \in Expected(c) : s < r} = Delivered(c) \cup {s \in buffer[Out(c)] : s < r}
    <3>1. ASSUME NEW s \in Expected(c), s < r
          PROVE  s \in Delivered(c) \cup buffer[Out(c)]
      <4>1. r \in Seen(c) /\ r \in Int /\ s \in Int
        BY <1>1, <1>3, <2>3, <2>6 DEF Seen
      <4>2. r < ReadTo(c)
        BY <2>2, <4>1
      <4>3. s \in Seen(c)
        BY <2>2, <2>5, <3>1, <4>1, <4>2
      <4>4. s \in Cached(In(c)) => r < s
        BY <1>1, <2>2, <2>6 DEF Ordered
      <4>5. s \notin Cached(In(c))
        BY <3>1, <4>1, <4>4
      <4>6. QED
        BY <1>1, <4>3, <4>5 DEF Seen
    <3>2. \A s \in Delivered(c) : s \in Expected(c) /\ s < r
      BY <2>3, <2>4, <2>6
    <3>3. QED
      BY <2>3, <3>1, <3>2
  <2>7. Delivered(c) \cap buffer[Out(c)] = {}
    BY <1>3, <2>3, <2>4
  <2>8. QED
    BY <2>3, <2>6, <2>7
<1>5. CASE c \in Templates
  <2>1. Expected(c) = {0} /\ buffer[Out(c)] = {0} /\ Delivered(c) = {}
    BY <1>1, <1>5 DEF DataAt, Templates, Expected
  <2>2. QED
    BY <2>1
<1>6. QED
  BY <1>4, <1>5 DEF Mated, Templates

\* What is put goes to its place, and to nobody else's.
LEMMA WrittenPlaces ==
  ASSUME Going, NEW c \in Conduit, c = at, Out(c) \in job.ends, newRecord[Out(c)],
         NEW S \in SUBSET buffer[Out(c)]
  PROVE  Written(S) = disk \cup {Place(c, r) : r \in S}
<1> DEFINE X == buffer[Out(c)]
           D == Delivered(c)
           m == job.recl[Out(c)]
           b == job.start[Out(c)]
<1>1. /\ TypeOK /\ job \in JobSpace /\ PlainJob(job) /\ Placed /\ DataAt(c) /\ Fixed
      /\ Out(c) \in Pinfo
  BY GoingTyped, DataByConduit, PinfoEnds DEF Going
<1>2. /\ X \subseteq Expected(c) /\ D \subseteq Expected(c) /\ D \cap X = {}
      /\ \A r \in X : {s \in Expected(c) : s < r} = D \cup {s \in X : s < r}
  BY OutputAhead
<1>3. m \in Nat \ {0} /\ b \in Nat /\ job.size[c] \in Nat /\ Cardinality(D) \in Nat
  BY <1>1, <1>2, PlainTyped, ExpectedFinite
<1>4. IsFile(at) /\ Position(Out(at), CurrentMap, 0) = b + Cardinality(D) * m
  <2>1. mapped[Out(c)] = job.size[c] /\ offset[Out(c)] = b
    BY <1>1 DEF Fixed, Out
  <2>2. left[Out(c)] = job.size[c] - Cardinality(D)
    BY <1>1 DEF DataAt
  <2>3. mapped[Out(c)] - left[Out(c)] + 0 = Cardinality(D)
    BY <1>3, <2>1, <2>2
  <2>4. Position(Out(at), CurrentMap, 0) = b + Cardinality(D) * m
    BY <2>1, <2>3 DEF Position, CurrentMap
  <2>5. QED
    BY <1>1, <2>4 DEF PlainJob, IsFile
<1>5. ASSUME NEW r \in X
      PROVE  b + Cardinality(D) * m + Cardinality({s \in X : s < r}) * m = Place(c, r).pos
  <2> DEFINE B == {s \in X : s < r}
  <2>1. Rank(c, r) = Cardinality(D \cup B)
    BY <1>2 DEF Rank
  <2>2. D \cap B = {} /\ B \subseteq Expected(c)
    BY <1>2
  <2>3. Cardinality(D \cup B) = Cardinality(D) + Cardinality(B)
    <3> HIDE DEF D, B
    <3>1. QED
      BY <1>1, <1>2, <2>2, Parts
  <2>4. Cardinality(B) \in Nat
    BY <1>1, <2>2, ExpectedFinite
  <2>5. Place(c, r).pos = b + Rank(c, r) * m
    BY DEF Place
  <2> HIDE DEF B, D, m, b
  <2>6. /\ (Cardinality(D) + Cardinality(B)) * m = Cardinality(D) * m + Cardinality(B) * m
        /\ Cardinality(D) * m \in Nat /\ Cardinality(B) * m \in Nat
    BY <1>3, <2>4, Multiples
  <2>7. b + Cardinality(D) * m + Cardinality(B) * m = Place(c, r).pos
    BY <1>3, <2>1, <2>3, <2>5, <2>6
  <2>8. QED
    BY <2>7 DEF B
<1> DEFINE base == IF IsFile(at) THEN Position(Out(at), CurrentMap, 0) ELSE EndOfFile
           put(r) == [file |-> FileOf(at),
                      pos |-> base + Cardinality({s \in buffer[Out(at)] : s < r})
                                       * job.recl[Out(at)],
                      conduit |-> at, rec |-> r]
           new == {put(r) : r \in S}
<1>6. new = {Place(c, r) : r \in S}
  <2>1. ASSUME NEW r \in S
        PROVE  put(r) = Place(c, r)
    <3>1. r \in X
      OBVIOUS
    <3> DEFINE e == base + Cardinality({s \in buffer[Out(at)] : s < r}) * job.recl[Out(at)]
    <3>2. e = b + Cardinality(D) * m + Cardinality({s \in X : s < r}) * m
      <4>1. base = b + Cardinality(D) * m
        BY <1>4
      <4>2. {s \in buffer[Out(at)] : s < r} = {s \in X : s < r} /\ job.recl[Out(at)] = m
        OBVIOUS
      <4> HIDE DEF base, b, m, D
      <4>3. QED
        BY <4>1, <4>2
    <3>3. Place(c, r) = [file |-> FileOf(c), pos |-> Place(c, r).pos, conduit |-> c, rec |-> r]
      BY DEF Place
    <3>4. e = Place(c, r).pos
      BY <1>5, <3>1, <3>2
    <3>5. put(r) = [file |-> FileOf(at), pos |-> e, conduit |-> at, rec |-> r]
      OBVIOUS
    <3> HIDE DEF e, put
    <3>6. QED
      BY <3>3, <3>4, <3>5
  <2> HIDE DEF put
  <2>2. QED
    BY <2>1
<1>7. Written(S) = new \cup {w \in disk : \A v \in new : ~Overlaps(v, w)}
  BY Zenon DEF Written
<1>8. ASSUME NEW w \in disk, NEW v \in new
      PROVE  ~Overlaps(v, w)
  <2>1. PICK r \in S : v = Place(c, r)
    <3> HIDE DEF new
    <3>1. QED
      BY <1>6, <1>8
  <2>2. /\ w.conduit \in Conduit /\ Out(w.conduit) \in job.ends
        /\ w.rec \in Expected(w.conduit) /\ w = Place(w.conduit, w.rec)
    BY <1>1 DEF Placed
  <2>3. c # w.conduit \/ r # w.rec
    <3>1. w.conduit = c => w.rec \in D
      BY DEF Delivered
    <3>2. r \in X
      BY <2>1
    <3>3. QED
      BY <1>2, <3>1, <3>2
  <2>4. ~Overlaps(Place(c, r), Place(w.conduit, w.rec))
    BY <1>1, <1>2, <2>2, <2>3, PlacesApart
  <2>5. QED
    BY <2>1, <2>2, <2>4
<1> HIDE DEF new
<1>9. Written(S) = new \cup disk
  BY <1>7, <1>8
<1>10. QED
  BY <1>6, <1>9

\* What a put adds to what the files hold.
LEMMA PutPlaced ==
  ASSUME Going, NEW c \in Conduit, c = at, Out(c) \in job.ends, newRecord[Out(c)],
         NEW S \in SUBSET buffer[Out(c)], disk' = Written(S), UNCHANGED job
  PROVE  /\ Placed'
         /\ Delivered(c)' = Delivered(c) \cup S
         /\ \A d \in Conduit \ {c} : Delivered(d)' = Delivered(d)
         /\ disk \subseteq disk'
<1>1. disk' = disk \cup {Place(c, r) : r \in S}
  BY WrittenPlaces
<1>2. Placed /\ S \subseteq Expected(c)
  BY OutputAhead DEF Going, Data
<1>3. \A r : Place(c, r).conduit = c /\ Place(c, r).rec = r
  BY DEF Place
<1>4. \A d, r : Place(d, r)' = Place(d, r) /\ Expected(d)' = Expected(d)
  BY DEF Place, Rank, Expected, FileOf
<1>5. Placed'
  <2>1. SUFFICES ASSUME NEW w \in disk'
                 PROVE  /\ w.conduit \in Conduit /\ Out(w.conduit) \in job.ends
                        /\ w.rec \in Expected(w.conduit)
                        /\ w = Place(w.conduit, w.rec)
    BY <1>4 DEF Placed
  <2>2. CASE w \in disk
    BY <1>2, <2>2 DEF Placed
  <2>3. CASE w \notin disk
    <3>1. PICK r \in S : w = Place(c, r)
      BY <1>1, <2>3
    <3>2. w.conduit = c /\ w.rec = r
      BY <1>3, <3>1
    <3>3. QED
      BY <1>2, <3>1, <3>2
  <2>4. QED
    BY <2>2, <2>3
<1>6. Delivered(c)' = Delivered(c) \cup S
  BY <1>1, <1>3 DEF Delivered
<1>7. \A d \in Conduit \ {c} : Delivered(d)' = Delivered(d)
  BY <1>1, <1>3 DEF Delivered
<1>8. QED
  BY <1>1, <1>5, <1>6, <1>7

\* A put of any part of the cache, and what both ways to end it have in common.
LEMMA PutStarts ==
  ASSUME Going, pc = "put"
  PROVE  /\ at \in Conduit /\ Out(at) \in job.ends /\ Out(at) \in Pinfo
         /\ newRecord[Out(at)] /\ ~Idle(at)
         /\ IsFile(at)
         /\ \A b : NextOutput(b) = offset
         /\ \A c \in Conduit : Moved(c)
         /\ \A c \in Conduit : c < at => Gone(c)
<1>1. /\ at \in Conduit /\ ~Idle(at) /\ PlainJob(job)
      /\ \A c \in Conduit : Moved(c)
      /\ \A c \in Conduit : c < at => Gone(c)
  BY DEF Going, IInv, AtConduit, Passes, Moving_Passes
<1>2. Out(at) \in job.ends /\ newRecord[Out(at)]
  BY <1>1 DEF Idle
<1>3. job.kind[at] # "recHeader" /\ IsFile(at) /\ RecHeader("out") = {}
  BY <1>1, <1>2, GoingTyped DEF PlainJob, IsFile
<1>4. \A b : NextOutput(b) = offset
  BY <1>3 DEF NextOutput
<1>5. QED
  BY <1>1, <1>2, <1>3, <1>4, PinfoEnds

LEMMA PutRight ==
  ASSUME Going, Put
  PROVE  Right'
<1> DEFINE p == Out(at)
           n == Cardinality(buffer[p])
<1>1. /\ pc = "put" /\ disk' = Written(buffer[p])
      /\ left' = [left EXCEPT ![p] = @ - n]
      /\ arrayDone' = [arrayDone EXCEPT ![p] = (left[p] = n)]
      /\ newRecord' = [newRecord EXCEPT ![p] = FALSE]
      /\ UNCHANGED <<mapped, buffer, offset, job, stage, doneReading, error>>
      /\ pc' = "write" /\ at' = at + 1
  BY PutStarts DEF Put, AfterPut, Unlock, Advance
<1>2. PICK c \in Conduit : c = at
  BY <1>1, PutStarts
<1>3. /\ Out(c) \in job.ends /\ newRecord[Out(c)] /\ p = Out(c)
      /\ Out(c) \in Pinfo /\ In(c) \in Pinfo /\ In(c) # Out(c)
      /\ \A d \in Conduit : Moved(d) /\ (d < c => Gone(d))
  BY <1>1, <1>2, PutStarts, PinfoEnds, InOut
<1>4. /\ TypeOK /\ PlainJob(job) /\ job \in JobSpace /\ Data /\ DataAt(c)
      /\ left \in [Pinfo -> Int] /\ arrayDone \in [Pinfo -> BOOLEAN]
      /\ newRecord \in [Pinfo -> BOOLEAN]
  BY GoingTyped, DataByConduit DEF Going, TypeOK
<1>5. /\ Placed' /\ Delivered(c)' = Delivered(c) \cup buffer[Out(c)]
      /\ \A d \in Conduit \ {c} : Delivered(d)' = Delivered(d)
  BY <1>1, <1>2, <1>3, PutPlaced
<1>6. /\ buffer[Out(c)] \subseteq Expected(c) /\ Delivered(c) \subseteq Expected(c)
      /\ Delivered(c) \cap buffer[Out(c)] = {}
  BY <1>3, OutputAhead
<1>7. /\ left'[Out(c)] = left[Out(c)] - n /\ left'[In(c)] = left[In(c)]
      /\ arrayDone'[Out(c)] = (left[Out(c)] = n) /\ arrayDone'[In(c)] = arrayDone[In(c)]
      /\ ~newRecord'[Out(c)] /\ newRecord'[In(c)] = newRecord[In(c)]
      /\ n = Cardinality(buffer[Out(c)])
  <2> HIDE DEF n, p
  <2>1. (left[p] = n) \in BOOLEAN
    OBVIOUS
  <2>2. QED
    BY <1>1, <1>3, <1>4, <2>1 DEF n
<1>8. /\ Cardinality(Delivered(c)) \in Nat /\ n \in Nat /\ job.size[c] \in Nat
      /\ Cardinality(Delivered(c) \cup buffer[Out(c)]) = Cardinality(Delivered(c)) + n
      /\ left[Out(c)] = job.size[c] - Cardinality(Delivered(c))
  BY <1>3, <1>4, <1>6, <1>7, ExpectedFinite, Parts, PlainTyped DEF DataAt
<1>9. /\ left'[Out(c)] = job.size[c] - Cardinality(Delivered(c) \cup buffer[Out(c)])
      /\ arrayDone'[Out(c)] => left'[Out(c)] = 0
  <2> DEFINE k == Cardinality(Delivered(c))
             u == Cardinality(Delivered(c) \cup buffer[Out(c)])
  <2>1. k \in Nat /\ n \in Nat /\ u = k + n /\ left[Out(c)] = job.size[c] - k
        /\ left'[Out(c)] = left[Out(c)] - n /\ job.size[c] \in Nat
    BY <1>7, <1>8
  <2>2. arrayDone'[Out(c)] => left[Out(c)] = n
    BY <1>7
  <2> HIDE DEF n, k, u
  <2>3. left'[Out(c)] = job.size[c] - u
    BY <2>1
  <2>4. arrayDone'[Out(c)] => left'[Out(c)] = 0
    BY <2>1, <2>2
  <2>5. QED
    BY <2>3, <2>4 DEF u
<1>10. /\ Cached(Out(c))' = {} /\ Cached(In(c))' = Cached(In(c))
       /\ Cached(Out(c)) = buffer[Out(c)]
  BY <1>1, <1>3, <1>7 DEF Cached
<1>11. ASSUME c \in Templates
       PROVE  arrayDone'[Out(c)] /\ Delivered(c)' = {0}
  <2>1. /\ buffer[Out(c)] = {0} /\ Delivered(c) = {}
    BY <1>3, <1>4, <1>11 DEF DataAt
  <2>2. job.size[c] = 1
    BY <1>4, <1>11 DEF Templates, PlainJob
  <2>3. Cardinality({0}) = 1 /\ Cardinality({}) = 0
    BY FS_Singleton, FS_EmptySet
  <2>4. left[Out(c)] = 1 /\ n = 1
    BY <1>7, <1>8, <2>1, <2>2, <2>3
  <2> HIDE DEF n
  <2>5. QED
    BY <1>5, <1>7, <2>1, <2>4
<1>12. DataAt(c)'
  <2>1. (c \in Mated)' = (c \in Mated) /\ (c \in Templates)' = (c \in Templates)
    BY <1>1 DEF Mated, Templates
  <2>2. ASSUME c \in Mated
        PROVE  Ordered(c)' /\ Seen(c)' = Upto(c, ReadTo(c))'
    <3>1. Ordered(c) /\ Seen(c) = Upto(c, ReadTo(c))
      BY <1>4, <2>2 DEF DataAt
    <3>2. Seen(c)' = Seen(c)
      BY <1>5, <1>10 DEF Seen
    <3>3. ReadTo(c)' = ReadTo(c) /\ Upto(c, ReadTo(c))' = Upto(c, ReadTo(c))
      BY <1>1, <1>7 DEF ReadTo, Upto
    <3>4. Ordered(c)'
      BY <1>5, <1>10, <3>1 DEF Ordered
    <3>5. QED
      BY <3>1, <3>2, <3>3, <3>4
  <2>3. ReadTo(c)' = ReadTo(c) /\ (Even(c) => Even(c)')
    BY <1>1, <1>7 DEF ReadTo, Even
  <2> HIDE DEF n, p
  <2>4. QED
    BY <1>1, <1>3, <1>4, <1>5, <1>7, <1>9, <1>11, <2>1, <2>2, <2>3 DEF DataAt
<1>13. \A d \in Conduit \ {c} : SameAt(d)
  <2>1. TAKE d \in Conduit \ {c}
  <2>2. /\ In(d) \in Pinfo \ {Out(c)} /\ Out(d) \in Pinfo \ {Out(c)}
    BY PinfoEnds, InOut
  <2>3. \A q \in Pinfo \ {Out(c)} : /\ left'[q] = left[q] /\ arrayDone'[q] = arrayDone[q]
                                    /\ newRecord'[q] = newRecord[q]
    <3> HIDE DEF n, p
    <3>1. QED
      BY <1>1, <1>3, <1>4
  <2>4. QED
    BY <1>1, <1>5, <2>2, <2>3 DEF SameAt
<1>14. Data'
  <2>1. \A d \in Conduit : DataAt(d)'
    BY <1>12, <1>13, KeptAt, DataByConduit DEF Going
  <2>2. Fixed'
    BY <1>1, FixedKept DEF Going, Data
  <2>3. QED
    BY <1>5, <2>1, <2>2, DataByConduitNext
<1>15. Moved(c)' /\ Gone(c)'
  <2>1. (c \in Mated)' = (c \in Mated) /\ (c \in Templates)' = (c \in Templates)
    BY <1>1 DEF Mated, Templates
  <2>2. QED
    BY <1>3, <1>10, <1>11, <2>1 DEF Moved, Gone
<1>16. \A d \in Conduit \ {c} : (Moved(d) => Moved(d)') /\ (Gone(d) => Gone(d)')
  BY <1>13 DEF SameAt, Moved, Gone, Cached, Mated, Templates
<1>17. \A d \in Conduit : Moved(d)' /\ (d < at' => Gone(d)')
  <2>1. \A d \in Conduit : d < c + 1 => d < c \/ d = c
    BY DEF Conduit
  <2>2. QED
    BY <1>1, <1>2, <1>3, <1>15, <1>16, <2>1
<1>18. /\ stage # "fileHeaders" => \A d \in Conduit : HeaderRead(d)'
       /\ doneReading => AllRead'
  <2>1. \A d \in Conduit : HeaderRead(d) => HeaderRead(d)'
    BY <1>1, <1>7, <1>13 DEF SameAt, HeaderRead
  <2>2. AllRead => AllRead'
    BY <1>1, <1>7, <1>13 DEF SameAt, AllRead
  <2>3. QED
    BY <2>1, <2>2 DEF Going, Passes, Reading_Passes
<1>19. Passes'
  BY <1>1, <1>17, <1>18 DEF Passes, Reading_Passes, Moving_Passes
<1>20. QED
  BY <1>1, <1>14, <1>19 DEF Right, Failed

\* What a put that breaks off leaves: an initial run of what was to come.
LEMMA PutFailsRight ==
  ASSUME Going, PutFails
  PROVE  Right'
<1>1. /\ pc = "put" /\ error' = "ERR_WRITE_FILE" /\ pc' = "done" /\ UNCHANGED <<job, buffer>>
      /\ newRecord' = [newRecord EXCEPT ![Out(at)] = FALSE]
      /\ \E r \in buffer[Out(at)] : disk' = Written({s \in buffer[Out(at)] : s < r})
  BY DEF PutFails, Unlock
<1>2. PICK c \in Conduit : c = at
  BY <1>1, PutStarts
<1>3. /\ Out(c) \in job.ends /\ newRecord[Out(c)]
      /\ Out(c) \in Pinfo /\ In(c) \in Pinfo /\ In(c) # Out(c)
      /\ \A d \in Conduit : Moved(d)
  BY <1>1, <1>2, PutStarts, PinfoEnds, InOut
<1>4. PICK r \in buffer[Out(c)] : disk' = Written({s \in buffer[Out(c)] : s < r})
  BY <1>1, <1>2
<1> DEFINE S == {s \in buffer[Out(c)] : s < r}
<1>5. /\ Placed' /\ Delivered(c)' = Delivered(c) \cup S
      /\ \A d \in Conduit \ {c} : Delivered(d)' = Delivered(d)
  <2>1. S \in SUBSET buffer[Out(c)] /\ disk' = Written(S)
    BY <1>4
  <2> HIDE DEF S
  <2>2. QED
    BY <1>1, <1>2, <1>3, <2>1, PutPlaced
<1>6. newRecord \in [Pinfo -> BOOLEAN] /\ job \in JobSpace
  BY GoingTyped DEF TypeOK
<1>7. Mated' = Mated
  BY <1>1 DEF Mated
<1>8. ASSUME NEW d \in Mated
      PROVE  Consecutive(Delivered(d)', Cached(Out(d))', Held(d)', job'.wanted[d])
  <2>1. d \in Conduit /\ In(d) \in job.ends /\ Held(d)' = Cached(In(d))'
    BY <1>1 DEF Mated, Held
  <2>2. CASE d # c
    <3>1. Cached(Out(d))' = Cached(Out(d)) /\ Cached(In(d))' = Cached(In(d))
          /\ Delivered(d)' = Delivered(d)
      <4>1. In(d) \in Pinfo \ {Out(c)} /\ Out(d) \in Pinfo \ {Out(c)}
        BY <2>1, <2>2, PinfoEnds, InOut
      <4>2. newRecord'[In(d)] = newRecord[In(d)] /\ newRecord'[Out(d)] = newRecord[Out(d)]
        BY <1>1, <1>2, <1>6, <4>1
      <4>3. QED
        BY <1>1, <1>5, <2>1, <2>2, <4>2 DEF Cached
    <3>2. Consecutive(Delivered(d), Cached(Out(d)), Cached(In(d)), job.wanted[d])
      BY GoingTyped, DataRuns DEF Going
    <3>3. QED
      BY <1>1, <2>1, <3>1, <3>2
  <2>3. CASE d = c
    <3>1. Cached(Out(c))' = {} /\ Cached(In(c))' = {}
      <4>1. ~newRecord'[Out(c)] /\ newRecord'[In(c)] = newRecord[In(c)]
        BY <1>1, <1>2, <1>3, <1>6
      <4>2. QED
        BY <1>1, <1>3, <2>3, <4>1 DEF Cached, Moved
    <3>2. Expected(c) = job.wanted[c] /\ Expected(c) \in SUBSET Nat /\ r \in Int
      <4>1. Expected(c) \in SUBSET (0 .. MaxOffset) /\ buffer[Out(c)] \subseteq Expected(c)
        BY <1>3, <1>6, ExpectedFinite, OutputAhead
      <4>2. \A x \in 0 .. MaxOffset : x \in Nat
        BY MaxOffsetAssumption
      <4>3. QED
        BY <2>1, <2>3, <4>1, <4>2 DEF Expected
    <3>3. Delivered(c) \cup S = {s \in job.wanted[c] : s < r}
      BY <1>3, <3>2, OutputAhead
    <3>4. Consecutive(Delivered(c) \cup S, {}, {}, job.wanted[c])
      <4> HIDE DEF S
      <4>1. QED
        BY <3>2, <3>3, ThreeRuns
    <3>5. QED
      BY <1>1, <1>5, <2>1, <2>3, <3>1, <3>4
  <2>4. QED
    BY <2>2, <2>3
<1>9. Conservation'
  BY <1>7, <1>8 DEF Conservation, Consecutive
<1>10. QED
  BY <1>1, <1>5, <1>9 DEF Right, Failed

LEMMA SkipWriteRight ==
  ASSUME Going, SkipWrite
  PROVE  Right'
<1>1. /\ pc = "write" /\ at \in Conduit /\ Idle(at) /\ pc' = "write" /\ at' = at + 1
      /\ UNCHANGED <<job, stage, doneReading, error, mapping, newRecord, locked,
                     arrayDone, buffer, disk>>
  BY DEF SkipWrite, Advance
<1>2. PICK c \in Conduit : c = at
  BY <1>1
<1>3. Quiet
  BY <1>1 DEF Quiet, mapping
<1>4. Data'
  BY <1>3, QuietKeeps DEF Going
<1>5. \A d \in Conduit : Moved(d) /\ (d < c => Gone(d))
  BY <1>1, <1>2 DEF Going, Passes, Moving_Passes
<1>6. Gone(c)
  <2>1. SUFFICES ASSUME Out(c) \in job.ends
                 PROVE  Cached(Out(c)) = {} /\ (c \in Templates => arrayDone[Out(c)])
    BY DEF Gone
  <2>2. CASE ~newRecord[Out(c)]
    BY <1>5, <2>2 DEF Moved, Cached
  <2>3. CASE job.kind[c] = "array" /\ arrayDone[Out(c)]
    <3>1. c \in Mated /\ c \notin Templates
      BY <2>1, <2>3 DEF Mated, Templates, Going, PlainJob
    <3>2. QED
      BY <2>3, <3>1, FullOutput, GoingTyped DEF Going
  <2>4. QED
    BY <1>1, <1>2, <2>1, <2>2, <2>3 DEF Idle
<1>7. \A d \in Conduit : (Moved(d) => Moved(d)') /\ (Gone(d) => Gone(d)')
  BY <1>1 DEF Moved, Gone, Cached, Mated, Templates
<1>8. \A d \in Conduit : Moved(d)' /\ (d < at' => Gone(d)')
  <2>1. \A d \in Conduit : d < c + 1 => d < c \/ d = c
    BY DEF Conduit
  <2>2. QED
    BY <1>1, <1>2, <1>5, <1>6, <1>7, <2>1
<1>9. /\ stage # "fileHeaders" => \A d \in Conduit : HeaderRead(d)'
      /\ doneReading => AllRead'
  BY <1>3 DEF Going, Passes, Reading_Passes, Quiet, HeaderRead, AllRead
<1>10. Passes'
  BY <1>1, <1>8, <1>9 DEF Passes, Reading_Passes, Moving_Passes
<1>11. QED
  BY <1>1, <1>4, <1>10 DEF Right, Failed

LEMMA LockOutputRight ==
  ASSUME Going, LockOutput
  PROVE  Right'
<1>1. /\ pc = "write" /\ ~Idle(at) /\ pc' = "put"
      /\ UNCHANGED <<job, stage, at, doneReading, error, mapping, newRecord,
                     arrayDone, buffer, disk>>
  BY DEF LockOutput
<1>2. Quiet
  BY <1>1 DEF Quiet, mapping
<1>3. Data'
  BY <1>2, QuietKeeps DEF Going
<1>4. \A d \in Conduit : Moved(d)' /\ (d < at => Gone(d)')
  BY <1>1 DEF Going, Passes, Moving_Passes, Moved, Gone, Cached, Mated, Templates
<1>5. ~Idle(at)'
  BY <1>1 DEF Idle
<1>6. /\ stage # "fileHeaders" => \A d \in Conduit : HeaderRead(d)'
      /\ doneReading => AllRead'
  BY <1>2 DEF Going, Passes, Reading_Passes, Quiet, HeaderRead, AllRead
<1>7. Passes'
  BY <1>1, <1>4, <1>5, <1>6 DEF Passes, Reading_Passes, Moving_Passes
<1>8. QED
  BY <1>1, <1>3, <1>7 DEF Right, Failed

LEMMA EndWriteRight ==
  ASSUME Going, EndWrite
  PROVE  Right'
<1>1. /\ pc = "write" /\ at = NumConduits + 1
      /\ UNCHANGED <<job, stage, doneReading, error, mapping, newRecord, locked,
                     arrayDone, buffer, disk>>
      /\ IF doneReading THEN pc' = "done" ELSE pc' = "read" /\ at' = 1
  BY DEF EndWrite, Goto
<1>2. CASE Failed'
  BY <1>1, <1>2, GivenUpRight DEF Failed
<1>3. CASE ~Failed'
  <2>1. Quiet
    BY <1>1 DEF Quiet, mapping
  <2>2. Data'
    BY <2>1, QuietKeeps DEF Going
  <2>3. \A c \in Conduit : c < at /\ ~(c < 1)
    BY <1>1, NumConduitsAssumption DEF Conduit
  <2>4. \A d \in Conduit : Moved(d)' /\ Gone(d)'
    BY <1>1, <2>3 DEF Going, Passes, Moving_Passes, Moved, Gone, Cached, Mated, Templates
  <2>5. /\ stage # "fileHeaders" => \A d \in Conduit : HeaderRead(d)'
        /\ doneReading => AllRead'
    BY <2>1 DEF Going, Passes, Reading_Passes, Quiet, HeaderRead, AllRead
  <2>6. Passes'
    BY <1>1, <2>3, <2>4, <2>5 DEF Passes, Reading_Passes, Moving_Passes
  <2>7. QED
    BY <1>3, <2>2, <2>6 DEF Right
<1>4. QED
  BY <1>2, <1>3

-----------------------------------------------------------------------------
(* The invariant is inductive                                                 *)

LEMMA JobKept ==
  ASSUME [Next]_vars
  PROVE  UNCHANGED job /\ (pc = "done" => UNCHANGED vars)
<1>1. CASE UNCHANGED vars
  BY <1>1 DEF vars, control
<1>2. CASE Read
  BY <1>2, Zenon DEF Read, SkipFormat, LockFormat, FinishReading, FillFileHeader,
     FillRecordHeader, WaitForData, EndOfData, FillData, Reading, Filling, PassBy, Fail,
     Advance, Return
<1>3. CASE EndRead
  BY <1>3 DEF EndRead, HeadersRead, RecordHeaderRead, CreateMappings, Processing, GiveUp
<1>4. CASE ConvertFormats
  BY <1>4 DEF ConvertFormats, SkipConversion, Convert, ConvertFails, FillTemplate,
     EndConversion, Converting, Advance
<1>5. CASE WriteFormats
  BY <1>5 DEF WriteFormats, SkipWrite, LockOutput, Put, PutFails, EndWrite, Advance
<1>6. CASE Finished
  BY <1>6 DEF Finished, vars, control
<1>7. QED
  BY <1>1, <1>2, <1>3, <1>4, <1>5, <1>6 DEF Next

LEMMA StutterRight ==
  ASSUME Right, UNCHANGED vars
  PROVE  Right'
<1>1. UNCHANGED <<job, stage, pc, at, doneReading, error, left, mapped, offset,
                  newRecord, locked, arrayDone, buffer, disk>>
  BY DEF vars, control, mapping
<1>2. CASE Failed
  <2>1. Placed' /\ Conservation'
    <3>1. Placed /\ Conservation
      BY <1>2 DEF Right
    <3>2. \A c \in Mated : Cached(Out(c))' = Cached(Out(c)) /\ Held(c)' = Held(c)
      BY <1>1 DEF Cached, Held
    <3>3. \A c \in Mated : Consecutive(Delivered(c), Cached(Out(c)), Held(c), job.wanted[c])
      BY <3>1 DEF Conservation, Consecutive
    <3>4. QED
      BY <1>1, <3>1, <3>2, <3>3, FailureKeeps
  <2>2. QED
    BY <1>1, <1>2, <2>1 DEF Right, Failed
<1>3. CASE ~Failed
  <2>1. Data /\ Passes /\ Quiet
    BY <1>1, <1>3 DEF Right, Quiet
  <2>2. Data'
    BY <2>1, QuietKeeps
  <2>3. Reading_Passes'
    BY <1>1, <2>1 DEF Passes, Reading_Passes, HeaderRead, AllRead, Listed
  <2>4. Moving_Passes'
    BY <1>1, <2>1 DEF Passes, Moving_Passes, Moved, Gone, Settled, Idle, Cached, Mated,
       Templates
  <2>5. QED
    BY <1>1, <1>3, <2>2, <2>3, <2>4 DEF Right, Failed, Passes
<1>4. QED
  BY <1>2, <1>3

\* After a failure of the query there is only the end.
LEMMA FailureEnds ==
  ASSUME Right, Failed, pc # "done", Next
  PROVE  Right'
<1>1. pc = "return" /\ error = "ERR_GEN_QUERY"
  BY DEF Failed
<1>2. GiveUp
  BY <1>1, Zenon DEF Next, Read, EndRead, ConvertFormats, WriteFormats, Finished, SkipFormat,
     LockFormat, FinishReading, FillFileHeader, FillRecordHeader, WaitForData, EndOfData,
     FillData, Reading, Filling, HeadersRead, RecordHeaderRead, CreateMappings, Processing,
     SkipConversion, Convert, ConvertFails, FillTemplate, EndConversion, Converting,
     SkipWrite, LockOutput, Put, PutFails, EndWrite
<1>3. pc' = "done" /\ UNCHANGED <<job, error, newRecord, buffer, disk>>
  BY <1>2 DEF GiveUp
<1>4. Placed /\ Conservation
  BY DEF Right
<1>5. \A c \in Mated : Cached(Out(c))' = Cached(Out(c)) /\ Held(c)' = Held(c)
  BY <1>3 DEF Cached, Held
<1>6. \A c \in Mated : Consecutive(Delivered(c), Cached(Out(c)), Held(c), job.wanted[c])
  BY <1>4 DEF Conservation, Consecutive
<1>7. Placed' /\ Conservation'
  BY <1>3, <1>4, <1>5, <1>6, FailureKeeps
<1>8. QED
  BY <1>1, <1>3, <1>7 DEF Right, Failed

LEMMA PlainStep ==
  ASSUME PlainInv, [Next]_vars
  PROVE  PlainInv'
<1>1. IInv' /\ UNCHANGED job
  BY IInvStep, JobKept DEF PlainInv
<1>2. Right'
  <2>1. CASE UNCHANGED vars
    BY <2>1, StutterRight DEF PlainInv
  <2>2. CASE Failed /\ ~(UNCHANGED vars)
    BY <2>2, JobKept, FailureEnds DEF PlainInv
  <2>3. CASE ~Failed /\ ~(UNCHANGED vars)
    <3>1. Next /\ pc # "done"
      BY <2>3, JobKept
    <3>2. Going
      BY <2>3, <3>1 DEF Going, PlainInv, Right
    <3>3. WriteFormats => Right'
      BY <3>2, SkipWriteRight, LockOutputRight, PutRight, PutFailsRight, EndWriteRight
         DEF WriteFormats
    <3>4. QED
      BY <3>1, <3>2, <3>3, ReadRight, EndReadRight, ConvertFormatsRight
         DEF Next, Finished
  <2>4. QED
    BY <2>1, <2>2, <2>3
<1>3. QED
  BY <1>1, <1>2 DEF PlainInv

-----------------------------------------------------------------------------
(* Theorems: a behaviour whose conversion has no record headers and goes to a  *)
(* file, among whatever others Jobs holds                                      *)

\* PlainInv holds in every state of a plain conversion, through every pass of
\* read_formats, convert_formats and write_formats.
THEOREM PlainInductive == Spec /\ PlainJob(job) => []PlainInv
<1>1. Init /\ PlainJob(job) => PlainInv
  BY InitPlain
<1>2. PlainInv /\ [Next]_vars => PlainInv'
  BY PlainStep
<1>3. QED
  BY <1>1, <1>2, PTL DEF Spec

\* What newform has written, and what waits in the caches of dbevents.c, is in
\* order at any time: nothing is lost, invented, repeated or passed over, every
\* record lies at its place, in order, and a success leaves no holes and no
\* false count of bytes not written.
THEOREM PlainFilesRight == Spec /\ PlainJob(job) => []FilesRight
<1>1. PlainInv => FilesRight
  BY PlainRight
<1>2. QED
  BY <1>1, PlainInductive, PTL

\* newform reports a success only when every wanted record is in the output.
THEOREM PlainComplete == Spec /\ PlainJob(job) => []CompleteOnSuccess
<1>1. PlainInv => CompleteOnSuccess
  BY PlainRight
<1>2. QED
  BY <1>1, PlainInductive, PTL

\* The files change only by a put, and a put adds the records it is given.
LEMMA FilesGrow ==
  ASSUME PlainInv, [Next]_vars
  PROVE  \/ UNCHANGED disk
         \/ \E c \in Conduit :
              /\ pc' # "done" \/ error' # "none"
              /\ \A d \in Conduit \ {c} : Delivered(d)' = Delivered(d)
              /\ Delivered(c) \subseteq Delivered(c)'
              /\ disk \subseteq disk'
<1>1. CASE Put \/ PutFails
  <2>1. pc = "put" /\ (pc' # "done" \/ error' # "none")
    BY <1>1 DEF Put, PutFails, Advance
  <2>2. Going
    BY <2>1 DEF Going, PlainInv, Right, Failed
  <2>3. PICK c \in Conduit : c = at
    BY <2>1, <2>2, PutStarts
  <2>4. Out(c) \in job.ends /\ newRecord[Out(c)]
    BY <2>1, <2>2, <2>3, PutStarts
  <2>5. PICK S \in SUBSET buffer[Out(c)] : disk' = Written(S)
    <3>1. CASE Put
      BY <2>3, <3>1 DEF Put
    <3>2. CASE PutFails
      <4>1. PICK r : disk' = Written({s \in buffer[Out(c)] : s < r})
        BY <2>3, <3>2 DEF PutFails
      <4>2. QED
        BY <4>1
    <3>3. QED
      BY <1>1, <3>1, <3>2
  <2>6. /\ \A d \in Conduit \ {c} : Delivered(d)' = Delivered(d)
        /\ Delivered(c) \subseteq Delivered(c)'
        /\ disk \subseteq disk'
    BY <2>2, <2>3, <2>4, <2>5, PutPlaced, JobKept
  <2>7. QED
    BY <2>1, <2>6
<1>2. CASE UNCHANGED vars
  BY <1>2 DEF vars
<1>3. CASE Read
  BY <1>3, Zenon DEF Read, SkipFormat, LockFormat, FinishReading, FillFileHeader,
     FillRecordHeader, WaitForData, EndOfData, FillData, PassBy, Fail
<1>4. CASE EndRead \/ ConvertFormats \/ SkipWrite \/ LockOutput \/ EndWrite
  BY <1>4 DEF EndRead, HeadersRead, RecordHeaderRead, CreateMappings, Processing, GiveUp,
     ConvertFormats, SkipConversion, Convert, ConvertFails, FillTemplate, EndConversion,
     SkipWrite, LockOutput, EndWrite
<1>5. CASE Finished
  BY <1>2, <1>5 DEF Finished
<1>6. QED
  BY <1>1, <1>2, <1>3, <1>4, <1>5 DEF Next, WriteFormats

\* No put of write_formats destroys what an earlier one wrote.
THEOREM PlainNoOverwrite == Spec /\ PlainJob(job) => NoOverwrite
<1>1. PlainInv /\ [Next]_vars => [disk \subseteq disk']_disk
  BY FilesGrow
<1>2. QED
  BY <1>1, PlainInductive, PTL DEF Spec, NoOverwrite

\* The first of three consecutive runs is an initial run.
LEMMA FirstRun ==
  ASSUME NEW D, NEW O, NEW I, NEW W \in SUBSET Nat, Consecutive(D, O, I, W)
  PROVE  Abstract!InitialRun(D, W)
<1> DEFINE runs == <<D, O, I>>
           seen == UNION {runs[i] : i \in 1 .. 3}
<1>1. /\ \A i, j \in 1 .. 3 : i < j => \A r \in runs[i], s \in runs[j] : r < s
      /\ seen \subseteq W
      /\ \A r \in W : (\E s \in seen : r < s) => r \in seen
  BY DEF Consecutive
<1>2. runs[1] = D
  OBVIOUS
<1> HIDE DEF runs
<1>3. \A r \in W : r \in Int
  OBVIOUS
<1>4. D \subseteq seen /\ D \subseteq W
  BY <1>1, <1>2
<1>5. ASSUME NEW r \in W, NEW s \in D, r <= s
      PROVE  r \in D
  <2>1. r = s \/ r < s
    BY <1>3, <1>4, <1>5
  <2>2. CASE r = s
    BY <2>2
  <2>3. CASE r < s
    <3>1. PICK i \in 1 .. 3 : r \in runs[i]
      BY <1>1, <1>4, <2>3
    <3>2. i # 1 => s < r
      BY <1>1, <1>2, <3>1
    <3>3. i = 1
      <4>1. r \in Int /\ s \in Int
        BY <1>3, <1>4
      <4>2. QED
        BY <2>3, <3>2, <4>1
    <3>4. QED
      BY <1>2, <3>1, <3>3
  <2>4. QED
    BY <2>1, <2>2, <2>3
<1>6. QED
  BY <1>4, <1>5 DEF Abstract!InitialRun

LEMMA TransferBegins ==
  ASSUME Init
  PROVE  Abstract!Init
<1>1. job \in JobSpace /\ pc = "read" /\ disk = {}
  BY JobsAssumption DEF Init
<1>2. \A c \in Conduit : job.wanted[c] \in SUBSET Nat
  BY <1>1, PlainTyped, MaxOffsetAssumption
<1>3. \A c \in Conduit : Delivered(c) = {}
  BY <1>1 DEF Delivered
<1>4. [c \in Conduit |-> IF c \in Mated THEN job.wanted[c] ELSE {}]
        \in [Conduit -> SUBSET Nat]
  BY <1>2
<1>5. [c \in Conduit |-> IF c \in Mated THEN Delivered(c) ELSE {}] = [c \in Conduit |-> {}]
  BY <1>3
<1>6. QED
  BY <1>1, <1>4, <1>5 DEF Abstract!Init

\* Every step delivers a further initial run to one output, ends the transfer,
\* or changes nothing that can be seen from outside.
LEMMA TransferStep ==
  ASSUME PlainInv, [Next]_vars, PlainInv', Conservation', CompleteOnSuccess'
  PROVE  [Abstract!Next]_(Abstract!vars)
<1> DEFINE wanted == [c \in Conduit |-> IF c \in Mated THEN job.wanted[c] ELSE {}]
           delivered == [c \in Conduit |-> IF c \in Mated THEN Delivered(c) ELSE {}]
           status == IF pc # "done" THEN "running"
                     ELSE IF error = "none" THEN "succeeded" ELSE "failed"
<1>1. /\ UNCHANGED job /\ Mated' = Mated /\ wanted' = wanted
      /\ job \in JobSpace /\ job' \in JobSpace
  BY JobKept DEF Mated, PlainInv, IInv, TypeOK
<1>2. CASE pc = "done"
  <2>1. UNCHANGED <<job, pc, error, disk>>
    BY <1>2, JobKept DEF vars, control
  <2>2. status' = status /\ delivered' = delivered
    BY <1>1, <2>1 DEF Delivered
  <2>3. QED
    BY <1>1, <2>2 DEF Abstract!vars
<1>3. CASE pc # "done" /\ delivered' = delivered
  <2>1. status = "running"
    BY <1>3
  <2>2. CASE pc' # "done"
    BY <1>1, <1>3, <2>1, <2>2 DEF Abstract!vars
  <2>3. CASE pc' = "done" /\ error' = "none"
    <3>1. \A c \in Mated : Delivered(c)' = job.wanted[c]
      BY <1>1, <2>3 DEF CompleteOnSuccess, Success
    <3>2. delivered = wanted
      <4>1. delivered' = wanted
        BY <1>1, <3>1
      <4>2. QED
        BY <1>3, <4>1
    <3>3. status' = "succeeded"
      BY <2>3
    <3>4. QED
      BY <1>1, <1>3, <2>1, <3>2, <3>3 DEF Abstract!Next, Abstract!Running
  <2>4. CASE pc' = "done" /\ error' # "none"
    <3>1. status' = "failed"
      BY <2>4
    <3>2. QED
      BY <1>1, <1>3, <2>1, <3>1 DEF Abstract!Next, Abstract!Running
  <2>5. QED
    BY <2>2, <2>3, <2>4
<1>4. CASE pc # "done" /\ delivered' # delivered
  <2>1. PICK c \in Conduit :
          /\ pc' # "done" \/ error' # "none"
          /\ \A d \in Conduit \ {c} : Delivered(d)' = Delivered(d)
          /\ Delivered(c) \subseteq Delivered(c)'
    <3>1. disk' # disk
      BY <1>1, <1>4 DEF Delivered
    <3>2. QED
      BY <3>1, FilesGrow
  <2>2. c \in Mated /\ Delivered(c)' # Delivered(c)
    BY <1>1, <1>4, <2>1
  <2>3. /\ delivered[c] = Delivered(c) /\ delivered'[c] = Delivered(c)'
        /\ wanted[c] = job.wanted[c]
        /\ \A d \in Conduit \ {c} : delivered'[d] = delivered[d]
    BY <1>1, <2>1, <2>2
  <2>4. Abstract!InitialRun(Delivered(c), job.wanted[c])'
    <3>1. job'.wanted[c] \in SUBSET Nat
      <4>1. c \in Conduit /\ job.wanted[c] \in SUBSET (0 .. MaxOffset)
        BY <1>1, <2>2, PlainTyped DEF Mated
      <4>2. QED
        BY <1>1, <4>1, MaxOffsetAssumption
    <3>2. Consecutive(Delivered(c)', Cached(Out(c))', Held(c)', job'.wanted[c])
      BY <1>1, <2>2 DEF Conservation, Consecutive
    <3>3. QED
      BY <3>1, <3>2, FirstRun
  <2>5. status = "running" /\ status' \in {"running", "failed"}
    BY <1>4, <2>1
  <2>6. QED
    BY <1>1, <2>1, <2>2, <2>3, <2>4, <2>5
       DEF Abstract!Next, Abstract!Running, Abstract!Deliver
<1>5. QED
  BY <1>2, <1>3, <1>4

\* Without record headers, to a file, newform implements RecordTransfer: seen
\* from outside it delivers growing initial runs of the wanted records and then
\* succeeds, with all of them, or fails.
THEOREM PlainTransfer == Spec /\ PlainJob(job) => TransferSpec
<1>1. Init => Abstract!Init
  BY TransferBegins
<1>2. PlainInv => Conservation /\ CompleteOnSuccess
  BY PlainRight DEF FilesRight
<1>3. PlainInv /\ PlainInv' /\ Conservation' /\ CompleteOnSuccess' /\ [Next]_vars
        => [Abstract!Next]_(Abstract!vars)
  BY TransferStep
<1>4. QED
  BY <1>1, <1>2, <1>3, PlainInductive, PTL DEF Spec, TransferSpec, Abstract!Spec

=============================================================================
