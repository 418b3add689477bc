------------------------------ MODULE Reorient -------------------------------
(* ndarr_reorient (src/FFND/ndarray.c): moves the elements of a super-array   *)
(* into a sub-array, from a file or a buffer into a file or a buffer, in as   *)
(* many calls as the buffers make it.  Between two calls only the mapping     *)
(* remembers how far it came: its indices, and the dimension it steps by.     *)
(*                                                                            *)
(* A byte is known by its offset in the super-array.  "image" is the sub-     *)
(* array as it has arrived: the file that is written, or the contents of the  *)
(* buffers that were filled, one after the other.                             *)
EXTENDS NdArray

CONSTANTS
    Jobs,      \* the mappings, with the route of the data: see JobSpace
    Sizes,     \* bound: the sizes a buffer may have
    MaxBytes   \* bound: no array is longer

Routes == {"fileToFile", "fileToBuffer", "bufferToFile", "bufferToBuffer"}
Gap == -1      \* a byte of separation
Unset == -2    \* a byte that has not been moved

JobSpace(j) ==
    /\ DescriptorSpace(j.sub) /\ DescriptorSpace(j.super)
    /\ Mappable(j.sub, j.super)
    /\ TotalSize(j.sub) <= MaxBytes
    /\ j.route \in Routes
    /\ j.update \in BOOLEAN   \* NDARRS_UPDATE: seek, do not append
    /\ j.eof \in Nat          \* length of the input file

ASSUME JobsAssumption == \A j \in Jobs : JobSpace(j)
ASSUME SizesAssumption == Sizes \subseteq Nat
ASSUME MaxBytesAssumption == MaxBytes \in Nat

VARIABLES
    job,
    index,      \* amap->subaindex
    inc,        \* amap->dimincrement
    pc,         \* "idle" between calls, "copy" in the loop of a call
    step,       \* the dimension the loop of this call steps by
    room,       \* size of the buffer of this call
    moved,      \* bytesread
    start,      \* startoffset
    given,      \* offset in the super-array of the buffer that is written
    pos,        \* where the next byte goes in the image
    image,
    complete,   \* *array_complete
    ret         \* what the last call returned

call == <<pc, step, room, moved, start>>
vars == <<job, index, inc, call, given, pos, image, complete, ret>>

Sub == job.sub
Super == job.super

Init ==
    /\ job \in Jobs
    /\ index = Origin(job.sub)
    /\ inc = DimIncrement(job.sub, job.super)
    /\ pc = "idle" /\ step = 0 /\ room = 0 /\ moved = 0 /\ start = 0
    /\ given = 0 /\ pos = 0
    /\ image = [b \in 0 .. MaxBytes - 1 |-> Unset]
    /\ complete = FALSE /\ ret = 0

-----------------------------------------------------------------------------
(* The start of a call *)

MinBuffSize(d) == IncrementBlock(Sub, d) + SubSep(Sub)

\* The dimensions the loop could step by with a buffer of this size
Fitting(size) == {d \in inc .. NumDim(Sub) : MinBuffSize(d) <= size}

Enter(size, d, from, to) ==
    /\ pc' = "copy" /\ room' = size /\ step' = d /\ start' = from
    /\ moved' = 0 /\ complete' = FALSE
    /\ pos' = to
    /\ UNCHANGED <<job, index, given, image, ret>>

\* return(-1) before anything has been moved
Refuse ==
    /\ pc' = "failed" /\ ret' = -1 /\ moved' = 0 /\ complete' = FALSE
    /\ UNCHANGED <<job, index, inc, step, start, given, pos, image>>

\* FILE TO BUFF.  Too small a buffer makes the mapping step by a higher
\* dimension, from now on.
FillBuffer_KeepingBlock(size) ==
    /\ pc = "idle" /\ job.route = "fileToBuffer"
    /\ IF MinBuffSize(inc) <= size
       THEN UNCHANGED inc /\ Enter(size, inc, 0, pos)
       ELSE room' = size /\ Refuse
FillBuffer(size) ==
    /\ pc = "idle" /\ job.route = "fileToBuffer"
    /\ IF Fitting(size) # {}
       THEN inc' = Min(Fitting(size)) /\ Enter(size, inc', 0, pos)
       ELSE room' = size /\ Refuse

\* BUFF TO FILE, the buffer holds the whole array
WriteWhole ==
    /\ pc = "idle" /\ job.route = "bufferToFile" /\ given = 0
    /\ UNCHANGED inc
    /\ Enter(TotalSize(Super), inc, 0, IF job.update THEN 0 ELSE pos)

\* BUFF TO FILE, the buffer holds the next elements: one by one, from where
\* the indices stand
WritePart_NotResumed(size) ==
    /\ pc = "idle" /\ job.route = "bufferToFile"
    /\ size % Super.elem = 0 /\ 0 < size
    /\ given + size <= TotalSize(Super) /\ size < TotalSize(Super)
    /\ IF Necessary(Sub, Super)
       THEN room' = size /\ Refuse
       ELSE /\ UNCHANGED inc
            /\ Enter(size, NumDim(Sub), MappedOffset(Sub, Super, index),
                     IF job.update THEN 0 ELSE pos)
WritePart(size) ==
    /\ pc = "idle" /\ job.route = "bufferToFile"
    /\ size % Super.elem = 0 /\ 0 < size
    /\ given + size <= TotalSize(Super) /\ size < TotalSize(Super)
    /\ IF Necessary(Sub, Super)
       THEN room' = size /\ Refuse
       ELSE /\ UNCHANGED inc
            /\ Enter(size, NumDim(Sub), MappedOffset(Sub, Super, index),
                     IF job.update THEN Offset(Sub, index) ELSE pos)

\* FILE TO FILE and BUFF TO BUFF: the whole array
Transfer ==
    /\ pc = "idle" /\ job.route \in {"fileToFile", "bufferToBuffer"}
    /\ UNCHANGED inc
    /\ Enter(TotalSize(Super), inc, 0, 0)

\* BUFF TO BUFF: one of the buffers, of this size, does not hold its array
RefuseTransfer(size) ==
    /\ pc = "idle" /\ job.route = "bufferToBuffer"
    /\ size < TotalSize(Super) \/ size < TotalSize(Sub)
    /\ room' = size /\ Refuse

-----------------------------------------------------------------------------
(* The loop *)

Partial == job.route = "bufferToFile" /\ room < TotalSize(Super)
Block == IF Partial THEN Sub.elem ELSE IncrementBlock(Sub, step)
Source == MappedOffset(Sub, Super, index) - start
FromFile == job.route \in {"fileToFile", "fileToBuffer"}

\* BUFF TO BUFF adds the offset of the element to where the last block ended
Target_Absolute == IF job.route = "bufferToBuffer" THEN Offset(Sub, index) ELSE pos
Target == IF job.route = "bufferToBuffer" THEN pos + Offset(Sub, index) ELSE pos

Following == Incremented(Sub, index, step)
AtOrigin_LastDimension(k) == k[NumDim(Sub)] = 0
AtOrigin(k) == k = Origin(Sub)

\* n bytes have arrived from offset o on, and separation after them
Arrived(o, n, sep) ==
    [b \in DOMAIN image |->
       IF b \in Target .. Target + n - 1 THEN given + o + (b - Target)
       ELSE IF b \in Target + n .. Target + n + sep - 1 THEN Gap
       ELSE image[b]]

\* fread finds less than a block: what this call has moved is not told
EndOfFile_TriedAgain ==
    /\ pc = "copy" /\ FromFile
    /\ Source + Block > job.eof
    /\ pc' = "idle" /\ ret' = 0
    /\ UNCHANGED <<job, index, inc, step, room, moved, start, given, pos, image,
                   complete>>
EndOfFile ==
    /\ pc = "copy" /\ FromFile
    /\ Source + Block > job.eof
    /\ pc' = "failed" /\ ret' = 0
    /\ UNCHANGED <<job, index, inc, step, room, moved, start, given, pos, image,
                   complete>>

\* Nothing more in the buffer that is written
BufferUsed ==
    /\ pc = "copy" /\ Partial
    /\ Source + Sub.elem > room
    /\ pc' = "idle" /\ ret' = moved
    /\ given' = given + room
    /\ complete' = AtOrigin(index)
    /\ UNCHANGED <<job, index, inc, step, room, moved, start, pos, image>>

MoreRoom_ForSeparationToo(n) == room - n > 0
MoreRoom(n) == room - n >= MinBuffSize(step)

\* The routes that want the whole array in one call return total_size
ReturnedAtEnd(total) ==
    IF job.route = "fileToBuffer" \/ Partial THEN total ELSE TotalSize(Sub)

Copy ==
    LET sep == SeparationAfter(Sub, index, step)
        total == moved + Block + sep
    IN
    /\ pc = "copy"
    /\ FromFile => Source + Block <= job.eof
    /\ Partial => Source + Sub.elem <= room
    /\ image' = Arrived(Source, Block, sep)
    /\ moved' = total
    /\ pos' = Target + Block + sep
    /\ index' = Following
    /\ IF AtOrigin(Following)
       THEN pc' = "done" /\ complete' = TRUE /\ ret' = ReturnedAtEnd(total)
       ELSE /\ UNCHANGED complete
            /\ IF job.route = "fileToBuffer" /\ ~MoreRoom(total)
               THEN pc' = "idle" /\ ret' = total
               ELSE UNCHANGED <<pc, ret>>
    /\ UNCHANGED <<job, inc, step, room, start, given>>

Stop == pc \in {"done", "failed"} /\ UNCHANGED vars

Next ==
    \/ \E size \in Sizes : FillBuffer(size) \/ WritePart(size) \/ RefuseTransfer(size)
    \/ WriteWhole
    \/ Transfer
    \/ EndOfFile
    \/ BufferUsed
    \/ Copy
    \/ Stop

Spec == Init /\ [][Next]_vars
\* A call returns: its loop goes on until it ends.  The caller comes back while
\* the array is not complete (newform's loop).
FairSpec == Spec /\ WF_vars(Next)

-----------------------------------------------------------------------------
(* What the sub-array should hold, by the definition of its elements          *)

\* Byte b of the sub-array
WantedOf(sub, super) ==
    [b \in 0 .. TotalSize(sub) - 1 |->
        LET in == {k \in Elements(sub) :
                     Place(sub, k) <= b /\ b < Place(sub, k) + sub.elem}
        IN  IF in = {} THEN Gap
            ELSE LET k == CHOOSE l \in in : TRUE
                 IN  Place(super, Counterpart(sub, super, k)) + b - Place(sub, k)]
Wanted == [j \in Jobs |-> WantedOf(j.sub, j.super)]

-----------------------------------------------------------------------------
(* What the caller sees to: the theorems of Reorient_proofs assume it         *)

\* From one buffer to another, ndarr_reorient is only right where it moves the
\* whole array as one block: Target adds the offset to where the block before
\* it ended.
WholeBlocks ==
    \A j \in Jobs : j.route = "bufferToBuffer" => DimIncrement(j.sub, j.super) = 0

\* The dimensions match one to one, and a buffer that is written in parts holds
\* elements only.
Orderly ==
    \A j \in Jobs :
        /\ Aligned(j.sub, j.super)
        /\ j.route = "bufferToFile" /\ ~ Necessary(j.sub, j.super) =>
             \A i \in Dims(j.super) : j.super.sep[i] = 0

-----------------------------------------------------------------------------
(* Properties *)

TypeOK ==
    /\ job \in Jobs
    /\ index \in [Dims(Sub) -> Nat]
    /\ inc \in 0 .. NumDim(Sub) /\ step \in 0 .. NumDim(Sub)
    /\ pc \in {"idle", "copy", "done", "failed"}
    /\ room \in Nat /\ moved \in Nat /\ start \in Int
    /\ given \in Nat /\ pos \in Nat
    /\ image \in [0 .. MaxBytes - 1 -> Int]
    /\ complete \in BOOLEAN
    /\ ret \in Int

\* However the data comes in pieces, the indices stay inside the sub-array and
\* what they are mapped to inside the super-array: nothing outside is fetched.
InBounds ==
    \A i \in Dims(Sub) :
        /\ index[i] < DimSize(Sub, i)
        /\ MappedIndex(Sub, Super, index, i)
             \in 0 .. DimSize(Super, DimMapping(Sub, Super, i)) - 1

\* Every byte that has arrived is the right one, whatever the sizes of the
\* buffers, the order of the dimensions and the separation.
Faithful ==
    \A b \in DOMAIN image :
        image[b] # Unset => b < TotalSize(Sub) /\ image[b] = Wanted[job][b]

\* array_complete is told exactly when nothing is missing, and then the mapping
\* is ready to begin again.
CompleteMeansAll ==
    /\ complete <=> pc = "done"
    /\ complete => /\ index = Origin(Sub)
                   /\ \A b \in 0 .. TotalSize(Sub) - 1 : image[b] # Unset

\* "At most dest_size bytes will be transferred to the buffer" (the header
\* comment of ndarr_reorient), the separation it skips included.
BufferKept == job.route = "fileToBuffer" => moved <= room

\* Between two calls the place where the output goes on is the one that the
\* indices say, for files that are appended to and for those that are sought.
Resumes == pc \in {"idle", "copy"} => pos = Offset(Sub, index)

\* A buffer is refused as too small only if it does not take an element and the
\* longest separation, or a whole array where it has to; a mapping is never left
\* unable to go on.
RefusedOnlyTooSmall ==
    pc = "failed" /\ ret = -1 =>
        \/ job.route = "fileToBuffer" /\ room < Sub.elem + SubSep(Sub)
        \/ job.route = "bufferToFile" /\ Necessary(Sub, Super)
        \/ job.route = "bufferToBuffer" /\ ~(TotalSize(Super) <= room /\ TotalSize(Sub) <= room)

\* What ndarr_reorient tells its caller is so, and it keeps to the caller's buffer.
Honest == CompleteMeansAll /\ BufferKept /\ Resumes /\ RefusedOnlyTooSmall

\* What has arrived is not written over.
WrittenOnce ==
    [][\A b \in DOMAIN image : image[b] # Unset => image'[b] = image[b]]_vars

\* Every call moves something, so that the array is complete, or given up, in
\* finitely many calls.
Terminates == <>(pc \in {"done", "failed"})
=============================================================================
