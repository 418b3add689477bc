--------------------------- MODULE Handler_proofs ----------------------------
(* Theorems about the two parts of the handler that compute: the array reads  *)
(* and the date functions.                                                    *)
(* The first are about arrays of any number of dimensions and any sizes, and  *)
(* every part of them that a client can ask for, provided that the names of   *)
(* an array's dimensions differ.  The second are about every constraint and   *)
(* every dataset, with any numbers for years, months, days, hours, minutes    *)
(* and seconds.                                                               *)
EXTENDS ArrayReads, Dates, Sums_proofs

NamesDiffer ==
    \A f \in Files : \A i, j \in Dims(f) : f.name[i] = f.name[j] => i = j

-----------------------------------------------------------------------------
(* Numbers *)

\* The quotient is the largest number that fits
LEMMA LargestThatFits ==
  ASSUME NEW a \in Nat, NEW b \in Nat \ {0}
  PROVE  /\ a \div b \in Nat
         /\ (a \div b) * b <= a
         /\ \A c \in Nat : c * b <= a => c <= a \div b
<1> DEFINE q == a \div b
<1>1. q \in Nat /\ q * b <= a /\ a < q * b + b
  BY SMTT(30)
<1> HIDE DEF q
<1>2. ASSUME NEW c \in Nat, c * b <= a, ~ (c <= q)
      PROVE  FALSE
  <2>1. c >= q + 1
    BY <1>1, <1>2
  <2>2. c * b >= (q + 1) * b
    BY <1>1, <2>1, SMTT(30)
  <2>3. (q + 1) * b = q * b + b
    BY <1>1, SMTT(30)
  <2>4. c * b \in Nat /\ q * b \in Nat
    BY <1>1, SMTT(30)
  <2>5. QED
    BY <1>1, <1>2, <2>2, <2>3, <2>4
<1>3. QED
  BY <1>1, <1>2 DEF q

\* What was multiplied is divided again.
LEMMA ExactQuotient ==
  ASSUME NEW q \in Nat, NEW b \in Nat \ {0}
  PROVE  (q * b) \div b = q
<1> DEFINE a == q * b
<1>1. a \in Nat
  BY SMTT(30)
<1>2. q <= a \div b /\ a \div b \in Nat /\ (a \div b) * b <= a
  BY <1>1, LargestThatFits
<1> DEFINE d == a \div b
<1>3. ASSUME d >= q + 1 PROVE FALSE
  <2> HIDE DEF d
  <2>1. d \in Nat /\ d * b <= q * b
    BY <1>2 DEF d
  <2>2. d * b >= (q + 1) * b
    BY <1>3, <2>1, SMTT(30)
  <2>3. (q + 1) * b = q * b + b /\ q * b \in Nat /\ d * b \in Nat
    BY <2>1, SMTT(30)
  <2>4. QED
    BY <2>1, <2>2, <2>3
<1>4. QED
  BY <1>2, <1>3

-----------------------------------------------------------------------------
(* One dimension *)

\* A dimension is found by its own name
LEMMA FoundByName ==
  ASSUME NamesDiffer, NEW f \in Files, NEW i \in Dims(f)
  PROVE  DimMapping(f, f, i) = i
<1>1. NumDim(f) \in Nat
  BY FilesAssumption DEF DescriptorSpace, NumDim
<1>2. \A j \in Dims(f) : (/\ f.name[i] = f.name[j]
                          /\ \A h \in 1 .. j - 1 : f.name[i] # f.name[h])
                         <=> j = i
  BY <1>1 DEF NamesDiffer, Dims
<1>3. QED
  BY <1>2 DEF DimMapping

\* The steps that fit in n are the steps that fit in n + 1, or one less
LEMMA OneMore ==
  ASSUME NEW n \in Nat, NEW g \in Nat \ {0}
  PROVE  /\ (n + 1) \div g \in Nat /\ n \div g \in Nat
         /\ (n + 1) \div g <= n \div g + 1
         /\ n \div g <= (n + 1) \div g
         /\ (n + 1) % g = 0 => (n + 1) \div g = n \div g + 1
<1> DEFINE q == n \div g
           r == (n + 1) \div g
<1>1. /\ q \in Nat /\ q * g <= n /\ \A c \in Nat : c * g <= n => c <= q
      /\ r \in Nat /\ r * g <= n + 1 /\ \A c \in Nat : c * g <= n + 1 => c <= r
  BY LargestThatFits
<1>2. (n + 1) % g = 0 => n + 1 = r * g
  BY SMTT(30)
<1> HIDE DEF q, r
<1>3. q * g \in Nat /\ r * g \in Nat /\ g >= 1
  BY <1>1, SMTT(30)
<1>4. q <= r
  BY <1>1, <1>3
<1>5. ASSUME r # 0 PROVE r - 1 <= q
  <2>1. r - 1 \in Nat /\ (r - 1) * g = r * g - g
    BY <1>1, <1>5, SMTT(30)
  <2>2. (r - 1) * g <= n
    BY <1>1, <1>3, <2>1
  <2>3. QED
    BY <1>1, <2>1, <2>2
<1>6. r <= q + 1
  BY <1>1, <1>5
<1>7. ASSUME n + 1 = r * g PROVE r = q + 1
  <2>1. r # q
    BY <1>1, <1>3, <1>7
  <2>2. QED
    BY <1>1, <1>4, <1>6, <2>1
<1>8. QED
  BY <1>1, <1>2, <1>4, <1>6, <1>7 DEF q, r

\* The declared size of a dimension against its number of elements
LEMMA DeclaredSize ==
  ASSUME NamesDiffer, NEW f \in Files, NEW i \in Dims(f)
  PROVE  /\ DimSiz(f, i) \in Int
         /\ DimSiz(f, i) <= DimSize(f, i)
         /\ f.start[i] <= f.end[i] =>
              /\ DimSiz(f, i) >= DimSize(f, i) - 1
              /\ (f.end[i] - f.start[i] + 1) % f.gran[i] = 0
                    => DimSiz(f, i) = DimSize(f, i)
<1>1. PICK s, e, g : s = f.start[i] /\ e = f.end[i] /\ g = f.gran[i]
  OBVIOUS
<1>2. s \in Int /\ e \in Int /\ g \in Nat \ {0}
  BY <1>1, FilesAssumption DEF DescriptorSpace, Dims, NumDim
<1>3. DimSiz(f, i) = Quot(e - s + 1, g)
  BY <1>1, FoundByName DEF DimSiz
<1>4. DimSize(f, i) = Distance(s, e) \div g + 1
  BY <1>1 DEF DimSize
<1>5. CASE s <= e
  <2> DEFINE n == e - s
  <2>1. n \in Nat /\ Distance(s, e) = n
    BY <1>2, <1>5 DEF Distance
  <2>2. Quot(e - s + 1, g) = (n + 1) \div g
    BY <1>2, <2>1 DEF Quot
  <2> HIDE DEF n
  <2>3. /\ (n + 1) \div g \in Nat /\ n \div g \in Nat
        /\ (n + 1) \div g <= n \div g + 1
        /\ n \div g <= (n + 1) \div g
        /\ (n + 1) % g = 0 => (n + 1) \div g = n \div g + 1
    BY <1>2, <2>1, OneMore
  <2>4. (e - s + 1) % g = 0 => (n + 1) % g = 0
    BY DEF n
  <2>5. QED
    BY <1>1, <1>3, <1>4, <2>1, <2>2, <2>3, <2>4
<1>6. CASE e < s
  <2> DEFINE n == s - e
  <2>1. n \in Nat /\ n >= 1 /\ Distance(s, e) = n /\ n - 1 \in Nat
    BY <1>2, <1>6 DEF Distance
  <2>2. Quot(e - s + 1, g) \in Int /\ Quot(e - s + 1, g) <= 0
    <3>1. CASE n = 1
      <4>1. e - s + 1 = 0
        BY <1>2, <3>1
      <4>2. 0 \div g = 0
        BY <1>2, SMTT(30)
      <4>3. QED
        BY <4>1, <4>2 DEF Quot
    <3>2. CASE n > 1
      <4>1. e - s + 1 < 0 /\ - (e - s + 1) = n - 1
        BY <1>2, <3>2
      <4>2. (n - 1) \div g \in Nat
        <5> HIDE DEF n
        <5>1. QED
          BY <1>2, <2>1, LargestThatFits
      <4>3. Quot(e - s + 1, g) = - ((n - 1) \div g)
        BY <4>1 DEF Quot
      <4>4. QED
        BY <4>2, <4>3
    <3>3. QED
      BY <2>1, <3>1, <3>2
  <2> HIDE DEF n
  <2>3. n \div g \in Nat
    BY <1>2, <2>1, LargestThatFits
  <2>4. ~ (s <= e)
    BY <1>2, <1>6
  <2>5. QED
    BY <1>1, <1>3, <1>4, <2>1, <2>2, <2>3, <2>4
<1>7. QED
  BY <1>2, <1>5, <1>6

\* The number of elements of a dimension that counts from 1 by 1 and its declared
\* size are the last user index
LEMMA Declared ==
  ASSUME NamesDiffer, NEW f \in Files, CountedByOne(f), NEW i \in Dims(f)
  PROVE  /\ DimMapping(f, f, i) = i
         /\ f.end[i] \in Nat \ {0}
         /\ DimSiz(f, i) = f.end[i]
         /\ DimSize(f, i) = f.end[i]
<1>1. f.start[i] = 1 /\ f.gran[i] = 1 /\ f.end[i] \in Nat \ {0}
  BY FilesAssumption DEF CountedByOne, DescriptorSpace, Dims, NumDim
<1>2. DimMapping(f, f, i) = i
  BY FoundByName
<1>3. DimSiz(f, i) = f.end[i]
  BY <1>1, <1>2 DEF DimSiz, Quot
<1>4. DimSize(f, i) = f.end[i]
  BY <1>1 DEF DimSize, Distance
<1>5. QED
  BY <1>1, <1>2, <1>3, <1>4

\* What a client may ask for of a dimension, in numbers.
LEMMA PartOfDimension ==
  ASSUME NamesDiffer, NEW f \in Files, CountedByOne(f), NEW d,
         d = [i \in Dims(f) |-> DimSiz(f, i)],
         NEW s \in Slabs(d), NEW i \in Dims(f)
  PROVE  /\ s[i].start \in Nat /\ s[i].stop \in Nat /\ s[i].stride \in Nat \ {0}
         /\ s[i].start <= s[i].stop /\ s[i].stop < f.end[i]
<1>1. s[i] \in Parts(f.end[i]) /\ f.end[i] \in Nat \ {0}
  BY Declared DEF Slabs
<1>2. QED
  BY <1>1, MaxStrideAssumption DEF Parts

\* The count of a part is that of the output array, which ends inside the part
LEMMA Counts ==
  ASSUME NEW p, p.start \in Nat, p.stop \in Nat, p.stride \in Nat \ {0},
         p.start <= p.stop
  PROVE  /\ Edge(p) \in Nat \ {0}
         /\ (Edge(p) - 1) * p.stride \in Nat
         /\ p.start + (Edge(p) - 1) * p.stride <= p.stop
         /\ Distance(p.start + 1, p.start + (Edge(p) - 1) * p.stride + 1)
              \div p.stride + 1 = Edge(p)
         /\ Part(p) = 0 .. Edge(p) - 1
<1> DEFINE a == p.stop - p.start
           b == p.stride
           q == a \div b
<1>1. a \in Nat /\ b \in Nat \ {0}
  OBVIOUS
<1>2. Edge(p) = q + 1
  BY DEF Edge
<1>3. q \in Nat /\ q * b <= a /\ \A c \in Nat : c * b <= a => c <= q
  <2> HIDE DEF a, b
  <2>1. QED
    BY <1>1, LargestThatFits DEF q
<1>4. (q * b) \div b = q
  <2> HIDE DEF q, b
  <2>1. QED
    BY <1>1, <1>3, ExactQuotient
<1>5. q * b \in Nat
  BY <1>1, <1>3, SMTT(30)
<1>6. (Edge(p) - 1) * p.stride = q * b
  <2>1. Edge(p) - 1 = q
    BY <1>2, <1>3
  <2>2. QED
    BY <2>1
<1> DEFINE l == q * b
<1>7. l \in Nat /\ l <= a /\ l \div b = q
  BY <1>3, <1>4, <1>5
<1> HIDE DEF l
<1>8. Distance(p.start + 1, p.start + l + 1) = l
  BY <1>7 DEF Distance
<1>9. Distance(p.start + 1, p.start + (Edge(p) - 1) * p.stride + 1) = l
  BY <1>6, <1>8 DEF l
<1>10. Part(p) = 0 .. q
  <2>1. ASSUME NEW n \in Part(p) PROVE n \in 0 .. q
    <3>1. n \in Nat /\ p.start + n * b <= p.stop
      BY DEF Part
    <3>2. n * b \in Nat
      BY <1>1, <3>1, SMTT(30)
    <3>3. n * b <= a
      BY <3>1, <3>2
    <3>4. QED
      BY <1>3, <3>1, <3>3
  <2>2. ASSUME NEW n \in 0 .. q PROVE n \in Part(p)
    <3> HIDE DEF q
    <3>1. n \in Nat /\ n <= q
      BY <1>3
    <3>2. n * b <= q * b /\ n <= n * b /\ n * b \in Nat
      BY <1>1, <1>3, <3>1, SMTT(30)
    <3>3. n * b <= a /\ n <= a
      BY <1>1, <1>3, <1>5, <3>1, <3>2
    <3>4. p.start + n * b <= p.stop /\ n \in 0 .. p.stop - p.start
      BY <3>1, <3>2, <3>3
    <3>5. QED
      BY <3>4 DEF Part
  <2>3. QED
    BY <2>1, <2>2
<1>11. QED
  <2> HIDE DEF q
  <2>1. Edge(p) \in Nat \ {0} /\ Edge(p) - 1 = q
    BY <1>2, <1>3
  <2>2. p.start + l <= p.stop
    BY <1>7
  <2>3. QED
    BY <1>6, <1>7, <1>9, <1>10, <2>1, <2>2, <1>2 DEF l

\* What an output array is to the array of the file
LEMMA OutputFits ==
  ASSUME NamesDiffer, NEW f \in Files, CountedByOne(f), NEW d,
         d = [i \in Dims(f) |-> DimSiz(f, i)],
         NEW s \in Slabs(d)
  PROVE  /\ Mappable(Output(f, s), f)
         /\ Dims(Output(f, s)) = Dims(f)
         /\ \A i \in Dims(f) :
              /\ DimSize(Output(f, s), i) = Edge(s[i])
              /\ Edge(s[i]) \in Nat \ {0}
              /\ Part(s[i]) = 0 .. Edge(s[i]) - 1
              /\ \A k : k[i] \in Nat =>
                   MappedIndex(Output(f, s), f, k, i)
                     = s[i].start + k[i] * s[i].stride
<1> DEFINE out == Output(f, s)
<1>1. NumDim(f) \in Nat \ {0} /\ Len(f.start) = NumDim(f)
  BY FilesAssumption DEF DescriptorSpace, NumDim
<1>2. /\ out.name = f.name /\ out.elem = f.elem
      /\ out.start = [i \in Dims(f) |-> s[i].start + 1]
      /\ out.end = [i \in Dims(f) |-> s[i].start + (Edge(s[i]) - 1) * s[i].stride + 1]
      /\ out.gran = [i \in Dims(f) |-> s[i].stride]
  BY DEF Output
<1>3. NumDim(out) = NumDim(f) /\ Dims(out) = Dims(f)
  <2>1. DOMAIN out.start = 1 .. NumDim(f)
    BY <1>2 DEF Dims
  <2>2. Len(out.start) = NumDim(f)
    BY <1>1, <1>2 DEF Dims
  <2>3. QED
    BY <2>2 DEF NumDim, Dims
<1>4. ASSUME NEW i \in Dims(f)
      PROVE  /\ \E j \in Dims(f) : out.name[i] = f.name[j]
             /\ DimMapping(out, f, i) = i
             /\ Between(out.start[i], f.start[i], f.end[i])
             /\ Between(out.end[i], f.start[i], f.end[i])
             /\ out.gran[i] % f.gran[i] = 0
             /\ DimSize(out, i) = Edge(s[i])
             /\ Edge(s[i]) \in Nat \ {0}
             /\ Part(s[i]) = 0 .. Edge(s[i]) - 1
             /\ \A k : k[i] \in Nat =>
                  MappedIndex(out, f, k, i) = s[i].start + k[i] * s[i].stride
  <2> DEFINE p == s[i]
             last == (Edge(p) - 1) * p.stride
  <2>1. /\ p.start \in Nat /\ p.stop \in Nat /\ p.stride \in Nat \ {0}
        /\ p.start <= p.stop /\ p.stop < f.end[i]
    BY PartOfDimension
  <2>2. f.start[i] = 1 /\ f.gran[i] = 1 /\ f.end[i] \in Nat \ {0}
    BY Declared DEF CountedByOne
  <2>3. DimMapping(out, f, i) = i
    BY <1>2, Declared DEF DimMapping
  <2>4. /\ Edge(p) \in Nat \ {0} /\ last \in Nat /\ p.start + last <= p.stop
        /\ Distance(p.start + 1, p.start + last + 1) \div p.stride + 1 = Edge(p)
        /\ Part(p) = 0 .. Edge(p) - 1
    <3> HIDE DEF p
    <3>1. QED
      BY <2>1, Counts
  <2>5. /\ out.start[i] = p.start + 1 /\ out.end[i] = p.start + last + 1
        /\ out.gran[i] = p.stride
    BY <1>2
  <2> HIDE DEF out, p, last
  <2>6. Between(out.start[i], f.start[i], f.end[i])
    BY <2>1, <2>2, <2>5 DEF Between
  <2>7. Between(out.end[i], f.start[i], f.end[i])
    BY <2>1, <2>2, <2>4, <2>5, SMTT(30) DEF Between
  <2>8. out.gran[i] % f.gran[i] = 0
    BY <2>1, <2>2, <2>5
  <2>9. DimSize(out, i) = Edge(p)
    BY <2>4, <2>5 DEF DimSize
  <2>10. IndexMapping(out, f, i) = p.start
    BY <2>1, <2>2, <2>3, <2>5 DEF IndexMapping, Distance
  <2>11. GranMapping(out, f, i) = p.stride /\ GranDivMapping(out, f, i) = 1
    BY <2>1, <2>2, <2>3, <2>5 DEF GranMapping, GranDivMapping
  <2>12. MapDir(out, f, i) = 1
    BY <2>1, <2>2, <2>3, <2>4, <2>5 DEF MapDir, IndexDir
  <2>13. ASSUME NEW k, k[i] \in Nat
         PROVE  MappedIndex(out, f, k, i) = p.start + k[i] * p.stride
    <3>1. k[i] * p.stride \in Nat
      BY <2>1, <2>13, SMTT(30)
    <3>2. (k[i] * p.stride) \div 1 = k[i] * p.stride
      BY <3>1
    <3>3. MappedIndex(out, f, k, i) = p.start + 1 * ((k[i] * p.stride) \div 1)
      BY <2>10, <2>11, <2>12 DEF MappedIndex
    <3>4. QED
      BY <2>1, <3>1, <3>2, <3>3
  <2>14. \E j \in Dims(f) : out.name[i] = f.name[j]
    BY <1>2
  <2>15. QED
    BY <2>3, <2>4, <2>6, <2>7, <2>8, <2>9, <2>13, <2>14 DEF p
<1>5. Mappable(out, f)
  BY <1>2, <1>3, <1>4 DEF Mappable
<1>6. QED
  BY <1>3, <1>4, <1>5

-----------------------------------------------------------------------------
(* The requests *)

ReadValues ==
    [k \in Indices(Output(file, slab)) |->
        [i \in Dims(file) |-> MappedIndex(Output(file, slab), file, k, i)]]

IInv ==
    /\ pc \in {"idle", "declared", "asked", "done"}
    /\ file \in Files
    /\ pc # "idle" => dims = [i \in Dims(file) |-> DimSiz(file, i)]
    /\ pc \in {"asked", "done"} => slab \in Slabs(dims)
    /\ CountedByOne(file) => outcome # "failed"
    /\ outcome = "sent" => pc = "done" /\ values = ReadValues

\* The invariant holds in every state.
LEMMA IInvHolds == ASSUME NamesDiffer PROVE Spec => []IInv
<1>1. Init => IInv
  BY DEF Init, IInv
<1>2. IInv /\ [Next]_vars => IInv'
  <2> SUFFICES ASSUME IInv, [Next]_vars PROVE IInv'
    OBVIOUS
  <2>1. CASE Declare
    BY <2>1 DEF Declare, IInv
  <2>2. CASE \E s \in Slabs(dims) : Ask(s)
    BY <2>2 DEF Ask, IInv
  <2>3. CASE Read
    <3>1. /\ pc = "asked" /\ slab \in Slabs(dims) /\ file \in Files
          /\ dims = [i \in Dims(file) |-> DimSiz(file, i)]
      BY <2>3 DEF Read, IInv
    <3>2. CountedByOne(file) => Mappable(Output(file, slab), file)
      BY <3>1, OutputFits
    <3>3. pc' = "done" /\ UNCHANGED <<file, dims, slab>> /\ outcome' \in {"sent", "failed"}
      BY <2>3 DEF Read
    <3>4. CountedByOne(file)' => outcome' # "failed"
      BY <2>3, <3>2, <3>3 DEF Read, CountedByOne
    <3>5. outcome' = "sent" => values' = ReadValues'
      BY <2>3, <3>3 DEF Read, ReadValues
    <3>6. QED
      BY <3>1, <3>3, <3>4, <3>5 DEF IInv
  <2>4. CASE UNCHANGED vars
    BY <2>4 DEF vars, IInv, ReadValues
  <2>5. QED
    BY <2>1, <2>2, <2>3, <2>4 DEF Next
<1>3. QED
  BY <1>1, <1>2, PTL DEF Spec

\* Whatever user indices an array has, from anywhere to anywhere by any step, the
\* handler declares no element that the file does not have, and of one that
\* goes up it leaves out the last element at most.
THEOREM WhatIsDeclaredExists == ASSUME NamesDiffer PROVE Spec => []DeclaredExists
<1>1. IInv => DeclaredExists
  <2> SUFFICES ASSUME IInv, pc # "idle", NEW i \in Dims(file)
               PROVE  /\ dims[i] <= DimSize(file, i)
                      /\ file.start[i] <= file.end[i] => dims[i] >= DimSize(file, i) - 1
                      /\ file.start[i] <= file.end[i]
                           /\ (file.end[i] - file.start[i] + 1) % file.gran[i] = 0
                             => dims[i] = DimSize(file, i)
    BY DEF DeclaredExists
  <2>1. file \in Files /\ dims[i] = DimSiz(file, i)
    BY DEF IInv
  <2>2. QED
    BY <2>1, DeclaredSize
<1>2. Spec => []IInv
  BY IInvHolds
<1>3. QED
  BY <1>1, <1>2, PTL

\* Whatever part of an array that counts from 1 by 1 a client asks for, newform
\* accepts the output array that FFArray::read makes of it.
THEOREM EveryPartServed == ASSUME NamesDiffer PROVE Spec => []NeverRefused
<1>1. IInv => NeverRefused
  BY DEF IInv, NeverRefused
<1>2. Spec => []IInv
  BY IInvHolds
<1>3. QED
  BY <1>1, <1>2, PTL

\* And what is sent is exactly that part, each element at its index: the shift
\* from the client's indices to the user indices of the format, and the end of
\* the last stride, are right for every start, stride and stop.
THEOREM EveryPartRight == ASSUME NamesDiffer PROVE Spec => []Slice
<1>1. IInv => Slice
  <2> SUFFICES ASSUME IInv, CountedByOne(file), outcome = "sent" PROVE Slice
    BY DEF Slice
  <2> DEFINE out == Output(file, slab)
  <2>1. /\ slab \in Slabs(dims) /\ file \in Files
        /\ dims = [i \in Dims(file) |-> DimSiz(file, i)]
        /\ values = ReadValues
    BY DEF IInv
  <2>2. /\ Dims(out) = Dims(file)
        /\ \A i \in Dims(file) :
             /\ DimSize(out, i) = Edge(slab[i])
             /\ Edge(slab[i]) \in Nat \ {0}
             /\ Part(slab[i]) = 0 .. Edge(slab[i]) - 1
             /\ \A k : k[i] \in Nat =>
                  MappedIndex(out, file, k, i) = slab[i].start + k[i] * slab[i].stride
    BY <2>1, OutputFits
  <2>3. DOMAIN values = Indices(out)
    BY <2>1 DEF ReadValues
  <2> HIDE DEF out
  <2>4. ASSUME NEW k \in DOMAIN values, NEW i \in Dims(file)
        PROVE  /\ k[i] \in Part(slab[i])
               /\ values[k][i] = slab[i].start + k[i] * slab[i].stride
    <3>1. k \in [Dims(file) -> UNION {0 .. DimSize(out, j) - 1 : j \in Dims(file)}]
          /\ k[i] < DimSize(out, i)
      BY <2>2, <2>3, <2>4 DEF Indices
    <3>2. PICK j \in Dims(file) : k[i] \in 0 .. DimSize(out, j) - 1
      BY <3>1
    <3>3. k[i] \in Nat /\ k[i] \in 0 .. Edge(slab[i]) - 1
      BY <2>2, <3>1, <3>2
    <3>4. values[k][i] = MappedIndex(out, file, k, i)
      BY <2>1, <2>3 DEF ReadValues, out
    <3>5. QED
      BY <2>2, <3>3, <3>4
  <2>5. ASSUME NEW k \in [Dims(file) -> UNION {Part(slab[i]) : i \in Dims(file)}],
               \A i \in Dims(file) : k[i] \in Part(slab[i])
        PROVE  k \in DOMAIN values
    <3>1. \A i \in Dims(file) :
            k[i] \in 0 .. DimSize(out, i) - 1 /\ k[i] < DimSize(out, i)
      <4> SUFFICES ASSUME NEW i \in Dims(file)
                   PROVE  /\ k[i] \in 0 .. DimSize(out, i) - 1
                          /\ k[i] < DimSize(out, i)
        OBVIOUS
      <4> DEFINE n == k[i]
                 e == Edge(slab[i])
      <4>1. n \in 0 .. e - 1 /\ e \in Nat /\ DimSize(out, i) = e
        BY <2>2, <2>5
      <4> HIDE DEF n, e
      <4>2. n < e
        BY <4>1
      <4>3. QED
        BY <4>1, <4>2 DEF n
    <3>2. k \in [Dims(out) -> UNION {0 .. DimSize(out, i) - 1 : i \in Dims(out)}]
      BY <2>2, <3>1
    <3>3. QED
      BY <2>2, <2>3, <3>1, <3>2 DEF Indices
  <2>6. QED
    BY <2>4, <2>5 DEF Slice
<1>2. Spec => []IInv
  BY IInvHolds
<1>3. QED
  BY <1>1, <1>2, PTL

-----------------------------------------------------------------------------
(* The calendar *)

\* The days before a year, and before a month of a year
YearStart(y) == 365 * (y - 1) + ((y - 1) \div 4) - ((y - 1) \div 100) + ((y - 1) \div 400)
MonthStart(y, m) == Before31[m] + (IF m > 2 /\ IsLeap(y) THEN 1 ELSE 0)
MonthEnd(y, m) == MonthStart(y, m) + DaysInMonth(y, m)
Months12 == 1 .. 12

\* A day is counted from the beginning of its year and of its month.
LEMMA OrdinalIs ==
  ASSUME NEW y \in Int, NEW m \in Months12, NEW d \in Int
  PROVE  /\ MonthStart(y, m) \in Nat /\ YearStart(y) \in Int /\ DaysInMonth(y, m) \in 28 .. 31
         /\ Ordinal(y, m, d) = YearStart(y) + MonthStart(y, m) + d
         /\ Ordinal(y, m, d) \in Int
         /\ MonthStart(y, 1) = 0
<1>1. Before31[m] \in Nat /\ Before31[1] = 0
  BY DEF Before31, Months12
<1>2. MonthStart(y, m) \in Nat /\ DaysInMonth(y, m) \in 28 .. 31 /\ MonthStart(y, 1) = 0
  BY <1>1 DEF MonthStart, DaysInMonth, Months12
<1>3. YearStart(y) \in Int
  BY DEF YearStart
<1>4. Ordinal(y, m, d) = YearStart(y) + MonthStart(y, m) + d
  BY <1>1 DEF Ordinal, YearStart, MonthStart
<1>5. QED
  BY <1>2, <1>3, <1>4

\* The months of a year follow each other without a gap.
LEMMA MonthsInYear ==
  ASSUME NEW y \in Int
  PROVE  /\ \A m \in 1 .. 11 : MonthEnd(y, m) = MonthStart(y, m + 1)
         /\ MonthEnd(y, 12) = DaysInYear(y)
         /\ \A k, m \in Months12 : k < m => MonthEnd(y, k) <= MonthStart(y, m)
<1>1. \A m \in 1 .. 11 : MonthEnd(y, m) = MonthStart(y, m + 1)
  <2>1. SUFFICES ASSUME NEW m \in 1 .. 11 PROVE MonthEnd(y, m) = MonthStart(y, m + 1)
    OBVIOUS
  <2>2. \/ m = 1 \/ m = 2 \/ m = 3 \/ m = 4 \/ m = 5 \/ m = 6 \/ m = 7 \/ m = 8 \/ m = 9 \/ m = 10 \/ m = 11
    OBVIOUS
  <2>3. QED
    BY <2>2 DEF MonthEnd, MonthStart, DaysInMonth, Before31
<1>2. MonthEnd(y, 12) = DaysInYear(y)
  BY DEF MonthEnd, MonthStart, DaysInMonth, Before31, DaysInYear
<1>3. \A k, m \in Months12 : k < m => MonthEnd(y, k) <= MonthStart(y, m)
  <2>1. SUFFICES ASSUME NEW k \in Months12, NEW m \in Months12, k < m
                 PROVE  MonthEnd(y, k) <= MonthStart(y, m)
    OBVIOUS
  <2>2. \A i, j \in Months12 : i <= j => Before31[i] <= Before31[j]
    BY DEF Before31, Months12
  <2>3. k \in 1 .. 11 /\ k + 1 \in Months12 /\ k + 1 <= m /\ Before31[k + 1] \in Nat /\ Before31[m] \in Nat
    BY <2>1 DEF Months12, Before31
  <2>4. MonthStart(y, k + 1) <= MonthStart(y, m)
    BY <2>2, <2>3 DEF MonthStart, Months12
  <2>5. QED
    BY <1>1, <2>3, <2>4
<1>4. QED
  BY <1>1, <1>2, <1>3

\* The years follow each other without a gap, and a later one is behind an
\* earlier one.
LEMMA Years ==
  ASSUME NEW y \in Nat, NEW z \in Nat, 0 < y, y < z
  PROVE  YearStart(y) + DaysInYear(y) <= YearStart(z)
<1> DEFINE a == y - 1
           b == z - 1
<1>1. YearStart(y + 1) = YearStart(y) + DaysInYear(y)
  <2>1. /\ (y \div 4) = ((y - 1) \div 4) + IF y % 4 = 0 THEN 1 ELSE 0
        /\ (y \div 100) = ((y - 1) \div 100) + IF y % 100 = 0 THEN 1 ELSE 0
        /\ (y \div 400) = ((y - 1) \div 400) + IF y % 400 = 0 THEN 1 ELSE 0
    OBVIOUS
  <2>2. (y % 400 = 0 => y % 100 = 0) /\ (y % 100 = 0 => y % 4 = 0)
    OBVIOUS
  <2>3. (y + 1) - 1 = y
    OBVIOUS
  <2>4. QED
    BY <2>1, <2>2, <2>3 DEF YearStart, DaysInYear, IsLeap
<1>2. \A p, q \in Nat : p <= q => /\ p \div 4 <= q \div 4 /\ p \div 400 <= q \div 400
                                  /\ (q \div 100) - (p \div 100) <= q - p
  OBVIOUS
<1>3. y <= b /\ y \in Nat /\ b \in Nat /\ (y + 1) - 1 = y
  OBVIOUS
<1>4. /\ y \div 4 <= b \div 4 /\ y \div 400 <= b \div 400
      /\ (b \div 100) - (y \div 100) <= b - y
  BY <1>2, <1>3
<1>5. YearStart(y + 1) = 365 * y + (y \div 4) - (y \div 100) + (y \div 400)
  BY <1>3 DEF YearStart
<1>6. YearStart(z) = 365 * b + (b \div 4) - (b \div 100) + (b \div 400)
  BY DEF YearStart
<1>7. YearStart(y + 1) <= YearStart(z)
  <2>1. /\ y \div 4 \in Int /\ y \div 100 \in Int /\ y \div 400 \in Int
        /\ b \div 4 \in Int /\ b \div 100 \in Int /\ b \div 400 \in Int
    OBVIOUS
  <2> HIDE DEF b
  <2>2. QED
    BY <1>3, <1>4, <1>5, <1>6, <2>1
<1>8. QED
  BY <1>1, <1>7

\* The Julian day of a date is its number among all days: the calendar's
\* arithmetic agrees with a count of the days.
LEMMA JulianDayCounts ==
  ASSUME NEW y \in Nat, y > 0, NEW m \in Months12, NEW d \in Int
  PROVE  JulianDay(y, m, d) = Ordinal(y, m, d) + 1721425
<1> DEFINE c == (y - 1) \div 100
<1>1. (m * 275) \div 9 = Before31[m] + 30 + IF m > 2 THEN 2 ELSE 0
  <2>1. \/ m = 1 \/ m = 2 \/ m = 3 \/ m = 4 \/ m = 5 \/ m = 6 \/ m = 7 \/ m = 8 \/ m = 9 \/ m = 10 \/ m = 11 \/ m = 12
    BY DEF Months12
  <2>2. QED
    BY <2>1 DEF Before31
<1>2. Before31[m] \in Nat
  BY DEF Before31, Months12
<1>3. /\ (y * 7) \div 4 = 2 * y - ((y - 1) \div 4) - 1
      /\ ((y + 1) * 7) \div 4 = 2 * y + 1 - (y \div 4)
  OBVIOUS
<1>4. /\ \A e \in Nat : ((e + 1) * 3) \div 4 = e - (e \div 4)
      /\ c \div 4 = (y - 1) \div 400 /\ (y \div 100) \div 4 = y \div 400
      /\ c \in Nat /\ y \div 100 \in Nat
  OBVIOUS
<1>5. CASE m > 2
  <2>1. Past(m > 2) = 1 /\ Past(m < 3) = 0
    BY <1>5 DEF Past, Months12
  <2>2. JulianDay(y, m, d) = y * 367 + (Before31[m] + 32) - (2 * y + 1 - (y \div 4)) - ((y \div 100) - (y \div 400)) + d + 1721029
    <3>1. y - 0 = y
      OBVIOUS
    <3>2. (((y \div 100) + 1) * 3) \div 4 = (y \div 100) - (y \div 400)
      BY <1>4
    <3>3. (m * 275) \div 9 = Before31[m] + 32
      BY <1>1, <1>2, <1>5
    <3>4. QED
      BY <1>3, <2>1, <3>1, <3>2, <3>3 DEF JulianDay
  <2>3. /\ (y \div 4) = ((y - 1) \div 4) + IF y % 4 = 0 THEN 1 ELSE 0
        /\ (y \div 100) = ((y - 1) \div 100) + IF y % 100 = 0 THEN 1 ELSE 0
        /\ (y \div 400) = ((y - 1) \div 400) + IF y % 400 = 0 THEN 1 ELSE 0
    OBVIOUS
  <2>4. (y % 400 = 0 => y % 100 = 0) /\ (y % 100 = 0 => y % 4 = 0)
    OBVIOUS
  <2>5. QED
    BY <1>2, <1>5, <2>2, <2>3, <2>4 DEF Ordinal, IsLeap
<1>6. CASE ~(m > 2)
  <2>1. Past(m > 2) = 0 /\ Past(m < 3) = 1
    BY <1>6 DEF Past, Months12
  <2>2. JulianDay(y, m, d) = y * 367 + (Before31[m] + 30) - (2 * y - ((y - 1) \div 4) - 1) - (c - ((y - 1) \div 400)) + d + 1721029
    <3>1. y + 0 = y
      OBVIOUS
    <3>2. ((c + 1) * 3) \div 4 = c - ((y - 1) \div 400)
      BY <1>4
    <3>3. (m * 275) \div 9 = Before31[m] + 30
      BY <1>1, <1>2, <1>6
    <3>4. QED
      BY <1>3, <2>1, <3>1, <3>2, <3>3 DEF JulianDay
  <2>3. QED
    BY <1>2, <1>6, <2>2 DEF Ordinal
<1>7. QED
  BY <1>5, <1>6

\* The days of the months before a month are those from the start of the year.
LEMMA DaysBeforeMonth ==
  ASSUME NEW y \in Int, NEW m \in Months12, NEW d \in Int
  PROVE  MonthDayToDays(y, m, d) = MonthStart(y, m) + d
<1> DEFINE w == [k \in Int |-> DaysInMonth(y, k)]
           J == 1 .. m - 1
           F(g) == [s \in SUBSET J |-> IF s = {} THEN 0
                      ELSE DaysInMonth(y, CHOOSE x \in s : TRUE) + g[s \ {CHOOSE x \in s : TRUE}]]
           It(g) == g = F(g)
<1>1. MonthDayToDays(y, m, d) = d + (CHOOSE g : It(g))[J]
  BY DEF MonthDayToDays, MapThenSumSet, MapThenFoldSet
<1>2. \A g : It(g) <=> Iterates(g, w, J)
  <2> SUFFICES ASSUME NEW g PROVE It(g) <=> Iterates(g, w, J)
    OBVIOUS
  <2> DEFINE G == [s \in SUBSET J |-> Summed(w, g, s)]
  <2>1. ASSUME NEW s \in SUBSET J
        PROVE  F(g)[s] = G[s]
    <3>1. s # {} => (CHOOSE x \in s : TRUE) \in Int
      <4>1. s # {} => (CHOOSE x \in s : TRUE) \in s
        OBVIOUS
      <4>2. s \subseteq Int
        OBVIOUS
      <4>3. QED
        BY <4>1, <4>2
    <3>2. QED
      BY <3>1 DEF Summed, Chosen
  <2>2. F(g) = G
    BY <2>1
  <2>3. QED
    BY <2>2 DEF Iterates
<1>3. (CHOOSE g : It(g)) = (CHOOSE g : Iterates(g, w, J))
  <2> HIDE DEF It, w
  <2>1. QED
    BY <1>2, Zenon
<1>4. MonthDayToDays(y, m, d) = d + Sum(w, J)
  BY <1>1, <1>3 DEF Sum
<1>5. \A k \in Int : w[k] \in Nat /\ w[k] = DaysInMonth(y, k)
  BY DEF DaysInMonth
<1> HIDE DEF w, F, It
<1>6. \A k \in 1 .. 11 : Sum(w, 1 .. k) = Sum(w, 1 .. k - 1) + w[k]
  <2>1. SUFFICES ASSUME NEW k \in 1 .. 11 PROVE Sum(w, 1 .. k) = Sum(w, 1 .. k - 1) + w[k]
    OBVIOUS
  <2> DEFINE S == 1 .. k
  <2>2. IsFiniteSet(S) /\ k \in S /\ S \ {k} = 1 .. k - 1
    BY FS_Interval
  <2>3. \A x \in S : w[x] \in Nat
    BY <1>5
  <2>4. Sum(w, S) = w[k] + Sum(w, S \ {k})
    <3> HIDE DEF S
    <3>1. QED
      BY <2>2, <2>3, SumRemove
  <2>5. IsFiniteSet(1 .. k - 1) /\ \A x \in 1 .. k - 1 : w[x] \in Nat
    BY <1>5, FS_Interval
  <2>6. Sum(w, 1 .. k - 1) \in Nat
    BY <2>5, SumRemove
  <2>7. w[k] \in Nat
    BY <1>5
  <2>8. Sum(w, S) = w[k] + Sum(w, 1 .. k - 1)
    BY <2>2, <2>4
  <2> DEFINE a == Sum(w, S)
             b == Sum(w, 1 .. k - 1)
             e == w[k]
  <2>9. a = e + b /\ b \in Nat /\ e \in Nat
    BY <2>6, <2>7, <2>8
  <2>10. a = b + e
    <3> HIDE DEF a, b, e
    <3>1. QED
      BY <2>9
  <2>11. QED
    BY <2>10
<1>7. Sum(w, 1 .. 0) = 0
  <2>1. 1 .. 0 = {}
    OBVIOUS
  <2>2. QED
    BY <2>1, SumEmpty
<1> DEFINE T == {n \in Nat : n <= 11 => Sum(w, 1 .. n) = MonthStart(y, n + 1)}
<1>8. 0 \in T
  <2>1. 0 + 1 = 1 /\ 0 <= 11 /\ MonthStart(y, 1) = 0
    BY DEF MonthStart, Before31
  <2> HIDE DEF J
  <2>2. QED
    BY <1>7, <2>1
<1>9. ASSUME NEW n \in Nat, n \in T PROVE n + 1 \in T
  <2>1. ASSUME n + 1 <= 11 PROVE Sum(w, 1 .. n + 1) = MonthStart(y, n + 2)
    <3>1. n + 1 \in 1 .. 11 /\ (n + 1) - 1 = n /\ (n + 1) + 1 = n + 2 /\ n <= 11
      BY <2>1
    <3>2. Sum(w, 1 .. n + 1) = Sum(w, 1 .. n) + w[n + 1]
      <4>1. Sum(w, 1 .. n + 1) = Sum(w, 1 .. (n + 1) - 1) + w[n + 1]
        BY <1>6, <3>1
      <4>2. QED
        BY <3>1, <4>1
    <3>3. Sum(w, 1 .. n) = MonthStart(y, n + 1)
      BY <1>9, <3>1
    <3>4. w[n + 1] = DaysInMonth(y, n + 1)
      BY <1>5
    <3>5. QED
      BY <3>1, <3>2, <3>3, <3>4, MonthsInYear DEF MonthEnd
  <2>2. QED
    BY <2>1
<1>10. m - 1 \in T
  <2>1. Nat \subseteq T
    <3> HIDE DEF T
    <3>1. QED
      BY <1>8, <1>9, FromZero
  <2>2. QED
    BY <2>1 DEF Months12
<1>11. Sum(w, J) = MonthStart(y, m)
  BY <1>10 DEF Months12
<1>12. QED
  BY <1>4, <1>11, OrdinalIs

\* A day of the year lies in one month, and is a day of it.
LEMMA MonthOfDay ==
  ASSUME NEW y \in Int, NEW n \in 1 .. DaysInYear(y), NEW p, p = DaysToMonthDay(y, n)
  PROVE  /\ p[1] \in Months12 /\ p[2] \in 1 .. DaysInMonth(y, p[1])
         /\ MonthStart(y, p[1]) + p[2] = n
<1> DEFINE Holds(k) == n - MonthDayToDays(y, k, 0) \in 1 .. DaysInMonth(y, k)
           m == CHOOSE k \in 1 .. 12 : Holds(k)
<1>1. \A k \in Months12 : MonthDayToDays(y, k, 0) = MonthStart(y, k) /\ MonthStart(y, k) \in Nat /\ DaysInMonth(y, k) \in 28 .. 31
  BY OrdinalIs, DaysBeforeMonth
<1>2. n \in Nat /\ 1 <= n /\ n <= DaysInYear(y)
  BY DEF DaysInYear
<1>3. \E k \in Months12 : Holds(k)
  <2>1. SUFFICES ASSUME \A k \in Months12 : ~Holds(k) PROVE FALSE
    OBVIOUS
  <2>2. \A k \in Months12 : n > MonthStart(y, k) => n > MonthEnd(y, k)
    BY <1>1, <1>2, <2>1 DEF MonthEnd
  <2> DEFINE T == {i \in Nat : i <= 11 => n > MonthStart(y, i + 1)}
  <2>3. 0 \in T
    BY <1>2, OrdinalIs DEF Months12
  <2>4. ASSUME NEW i \in Nat, i \in T PROVE i + 1 \in T
    <3>1. ASSUME i + 1 <= 11 PROVE n > MonthStart(y, (i + 1) + 1)
      <4>1. i + 1 \in 1 .. 11 /\ i + 1 \in Months12 /\ i <= 11
        BY <3>1 DEF Months12
      <4>2. n > MonthEnd(y, i + 1)
        BY <2>2, <2>4, <4>1
      <4>3. QED
        BY <4>1, <4>2, MonthsInYear
    <3>2. QED
      BY <3>1
  <2>5. 11 \in T
    <3> HIDE DEF T
    <3>1. QED
      BY <2>3, <2>4, FromZero
  <2>6. n > MonthEnd(y, 12)
    BY <2>2, <2>5 DEF Months12
  <2>7. QED
    BY <1>2, <2>6, MonthsInYear DEF DaysInYear
<1>4. m \in Months12 /\ Holds(m)
  <2> HIDE DEF Holds
  <2>1. QED
    BY <1>3 DEF Months12
<1>5. p = <<m, n - MonthDayToDays(y, m, 0)>>
  BY DEF DaysToMonthDay
<1> HIDE DEF m
<1>6. QED
  BY <1>1, <1>2, <1>4, <1>5

\* The days before a month and a day of it are a day of the year.
LEMMA DayOfYear ==
  ASSUME NEW y \in Nat, NEW m \in Months12, NEW d \in 1 .. DaysInMonth(y, m)
  PROVE  MonthStart(y, m) + d \in 1 .. DaysInYear(y)
<1>1. MonthStart(y, m) \in Nat /\ DaysInMonth(y, m) \in 28 .. 31 /\ y \in Int
  BY OrdinalIs
<1>2. MonthStart(y, m) + d <= MonthEnd(y, m) /\ d \in Nat /\ d > 0
  BY <1>1 DEF MonthEnd
<1>3. MonthEnd(y, m) <= DaysInYear(y)
  <2>1. CASE m = 12
    BY <1>1, <2>1, MonthsInYear DEF DaysInYear
  <2>2. CASE m # 12
    <3>1. m < 12 /\ 12 \in Months12
      BY <2>2 DEF Months12
    <3>2. MonthEnd(y, m) <= MonthStart(y, 12) /\ MonthEnd(y, 12) = DaysInYear(y)
      BY <1>1, <3>1, MonthsInYear
    <3>3. MonthStart(y, 12) \in Nat /\ DaysInMonth(y, 12) \in Nat
      BY <1>1, <3>1, OrdinalIs
    <3>4. QED
      BY <1>1, <3>2, <3>3 DEF MonthEnd
  <2>3. QED
    BY <2>1, <2>2
<1>4. QED
  BY <1>1, <1>2, <1>3 DEF DaysInYear, MonthEnd

-----------------------------------------------------------------------------
(* Dates *)

Stands(d) == Ordinal(d.year, d.month, d.day)
MonthOf(d) == 12 * d.year + d.month
\* What the constructors of DODS_Date leave behind
IsDate(d) ==
    /\ d.year \in Nat /\ d.year > 0
    /\ d.month \in Months12 /\ d.day \in 1 .. DaysInMonth(d.year, d.month)
    /\ d.number = MonthStart(d.year, d.month) + d.day
    /\ d.julian = Stands(d) + 1721425

\* A year, a month and a day are a date, if there is such a day.
LEMMA ByMonthIs ==
  ASSUME NEW y \in Int, NEW m \in Int, NEW d \in Int, NEW form, NEW x \in ByMonth(y, m, d, form)
  PROVE  /\ IsDate(x) /\ ByMonth(y, m, d, form) = {x}
         /\ x.year = y /\ x.month = m /\ x.day = d /\ x.form = form
<1>1. Exists(y, m, d)
  BY DEF ByMonth
<1>2. x = [year |-> y, month |-> m, day |-> d, number |-> MonthDayToDays(y, m, d),
           julian |-> JulianDay(y, m, d), form |-> form]
  BY <1>1 DEF ByMonth
<1>3. ByMonth(y, m, d, form) = {x}
  BY <1>1, <1>2 DEF ByMonth
<1>4. x.year = y /\ x.month = m /\ x.day = d /\ x.form = form /\ x.number = MonthDayToDays(y, m, d) /\ x.julian = JulianDay(y, m, d)
  BY <1>2
<1>5. y \in Nat /\ y > 0 /\ m \in Months12 /\ d \in 1 .. DaysInMonth(y, m)
  BY <1>1 DEF Exists, Months12
<1>6. x.number = MonthStart(y, m) + d /\ x.julian = Ordinal(y, m, d) + 1721425
  BY <1>4, <1>5, DaysBeforeMonth, JulianDayCounts
<1>7. IsDate(x)
  BY <1>4, <1>5, <1>6 DEF IsDate, Stands
<1>8. QED
  BY <1>3, <1>4, <1>7

\* So are a year and a day of it.
LEMMA ByDayIs ==
  ASSUME NEW y \in Int, NEW n \in Int, NEW x \in ByDay(y, n)
  PROVE  /\ IsDate(x) /\ ByDay(y, n) = {x}
         /\ x.year = y /\ x.number = n /\ x.month = DaysToMonthDay(y, n)[1] /\ x.form = "yd"
         /\ Stands(x) = Ordinal(y, 1, 1) + n - 1
<1> DEFINE p == DaysToMonthDay(y, n)
<1>1. y > 0 /\ n \in 1 .. DaysInYear(y) /\ y \in Nat
  BY DEF ByDay
<1> HIDE DEF p
<1>2. x = [year |-> y, month |-> p[1], day |-> p[2], number |-> n, julian |-> JulianDay(y, p[1], p[2]), form |-> "yd"]
  BY <1>1 DEF ByDay, p
<1>3. ByDay(y, n) = {x}
  BY <1>1, <1>2 DEF ByDay, p
<1>4. x.year = y /\ x.month = p[1] /\ x.day = p[2] /\ x.form = "yd" /\ x.number = n /\ x.julian = JulianDay(y, p[1], p[2])
  BY <1>2
<1>5. /\ p[1] \in Months12 /\ p[2] \in 1 .. DaysInMonth(y, p[1])
      /\ MonthStart(y, p[1]) + p[2] = n
  BY <1>1, MonthOfDay DEF p
<1>6. DaysInMonth(y, p[1]) \in Nat /\ p[2] \in Int
  BY <1>5, OrdinalIs
<1>7. x.julian = Ordinal(y, p[1], p[2]) + 1721425
  BY <1>1, <1>4, <1>5, <1>6, JulianDayCounts
<1>8. IsDate(x)
  BY <1>1, <1>4, <1>5, <1>7 DEF IsDate, Stands
<1>9. /\ Ordinal(y, p[1], p[2]) = YearStart(y) + MonthStart(y, p[1]) + p[2]
      /\ Ordinal(y, 1, 1) = YearStart(y) + MonthStart(y, 1) + 1
      /\ MonthStart(y, 1) = 0 /\ YearStart(y) \in Int /\ MonthStart(y, p[1]) \in Int
  <2>1. 1 \in Months12 /\ 1 \in Int
    BY DEF Months12
  <2>2. /\ Ordinal(y, p[1], p[2]) = YearStart(y) + MonthStart(y, p[1]) + p[2]
        /\ YearStart(y) \in Int /\ MonthStart(y, p[1]) \in Int
    BY <1>5, <1>6, OrdinalIs
  <2>3. Ordinal(y, 1, 1) = YearStart(y) + MonthStart(y, 1) + 1 /\ MonthStart(y, 1) = 0
    BY <2>1, OrdinalIs
  <2>4. QED
    BY <2>2, <2>3
<1>10. Ordinal(y, p[1], p[2]) = Ordinal(y, 1, 1) + n - 1
  BY <1>1, <1>5, <1>6, <1>9
<1>11. QED
  BY <1>3, <1>4, <1>8, <1>10 DEF Stands, p

\* Every day of a year is a date.
LEMMA ByDayExists ==
  ASSUME NEW y \in Nat, y > 0, NEW n \in 1 .. DaysInYear(y)
  PROVE  \E e : e \in ByDay(y, n)
<1> DEFINE p == DaysToMonthDay(y, n)
           e(q) == [year |-> y, month |-> q[1], day |-> q[2], number |-> n, julian |-> JulianDay(y, q[1], q[2]), form |-> "yd"]
<1>1. ByDay(y, n) = {e(q) : q \in {p}}
  BY DEF ByDay
<1> HIDE DEF p, e
<1>2. e(p) \in ByDay(y, n)
  BY <1>1
<1>3. QED
  BY <1>2

\* The number of a day, and of a month.
LEMMA DateTypes ==
  ASSUME NEW d, IsDate(d)
  PROVE  Stands(d) \in Int /\ MonthOf(d) \in Int
<1>1. d.year \in Int /\ d.month \in Months12 /\ d.day \in 1 .. DaysInMonth(d.year, d.month)
  BY DEF IsDate
<1>2. DaysInMonth(d.year, d.month) \in Int
  BY <1>1, OrdinalIs
<1>3. d.day \in Int /\ d.month \in Int
  BY <1>1, <1>2 DEF Months12
<1>4. QED
  BY <1>1, <1>3, OrdinalIs DEF Stands, MonthOf

\* Every day of a month is before every day of a later one.
LEMMA MonthsInOrder ==
  ASSUME NEW a, NEW b, IsDate(a), IsDate(b), MonthOf(a) < MonthOf(b),
         NEW i \in 1 .. DaysInMonth(a.year, a.month), NEW k \in 1 .. DaysInMonth(b.year, b.month)
  PROVE  Ordinal(a.year, a.month, i) < Ordinal(b.year, b.month, k)
<1>1. /\ a.year \in Nat /\ a.year > 0 /\ a.month \in Months12 /\ b.year \in Nat /\ b.year > 0 /\ b.month \in Months12
  BY DEF IsDate
<1> DEFINE y == a.year
           z == b.year
           m == a.month
           n == b.month
<1>2. /\ MonthStart(y, m) \in Nat /\ YearStart(y) \in Int /\ DaysInMonth(y, m) \in 28 .. 31
      /\ MonthStart(z, n) \in Nat /\ YearStart(z) \in Int /\ DaysInMonth(z, n) \in 28 .. 31
  BY <1>1, OrdinalIs
<1>3. /\ Ordinal(y, m, i) = YearStart(y) + MonthStart(y, m) + i
      /\ Ordinal(z, n, k) = YearStart(z) + MonthStart(z, n) + k
  BY <1>1, <1>2, OrdinalIs
<1>4. MonthStart(y, m) + i <= MonthEnd(y, m) /\ MonthEnd(y, m) \in Nat
  BY <1>2 DEF MonthEnd
<1>5. CASE y = z
  <2>1. m < n
    BY <1>1, <1>5 DEF MonthOf, Months12
  <2>2. MonthEnd(y, m) <= MonthStart(z, n)
    BY <1>1, <1>5, <2>1, MonthsInYear
  <2>3. QED
    BY <1>2, <1>3, <1>4, <1>5, <2>2
<1>6. CASE y # z
  <2>1. y < z
    BY <1>1, <1>6 DEF MonthOf, Months12
  <2>2. MonthEnd(y, m) <= DaysInYear(y)
    <3>1. CASE m = 12
      BY <1>1, <3>1, MonthsInYear DEF DaysInYear
    <3>2. CASE m # 12
      <4>1. m < 12 /\ 12 \in Months12
        BY <1>1, <3>2 DEF Months12
      <4>2. MonthEnd(y, m) <= MonthStart(y, 12) /\ MonthEnd(y, 12) = DaysInYear(y)
        BY <1>1, <4>1, MonthsInYear
      <4>3. MonthStart(y, 12) \in Nat /\ DaysInMonth(y, 12) \in Nat
        BY <1>1, <4>1, OrdinalIs
      <4>4. QED
        BY <1>4, <4>2, <4>3 DEF MonthEnd
    <3>3. QED
      BY <3>1, <3>2
  <2>3. YearStart(y) + DaysInYear(y) <= YearStart(z) /\ DaysInYear(y) \in Nat
    BY <1>1, <2>1, Years DEF DaysInYear
  <2>4. QED
    BY <1>2, <1>3, <1>4, <2>2, <2>3
<1>7. QED
  BY <1>5, <1>6

\* A date that stands for its month is compared by the month.
LEMMA ComparedByMonth ==
  ASSUME NEW a, NEW b, IsDate(a), IsDate(b), b.form = "ym"
  PROVE  /\ DateEq(a, b) <=> MonthOf(a) = MonthOf(b)
         /\ DateLe(a, b) <=> MonthOf(a) <= MonthOf(b)
         /\ DateGe(a, b) <=> MonthOf(a) >= MonthOf(b)
<1> DEFINE last == DaysInMonth(a.year, a.month)
           A(i) == Ordinal(a.year, a.month, i)
           B == Stands(b)
<1>1. /\ a.year \in Nat /\ a.year > 0 /\ a.month \in Months12
      /\ b.year \in Nat /\ b.year > 0 /\ b.month \in Months12 /\ b.day \in 1 .. DaysInMonth(b.year, b.month)
      /\ b.julian = B + 1721425
  BY DEF IsDate
<1>2. MonthOf(a) \in Nat /\ MonthOf(b) \in Nat
  BY <1>1 DEF MonthOf, Months12
<1>3. last \in 28 .. 31 /\ DaysInMonth(b.year, b.month) \in 28 .. 31
  BY <1>1, OrdinalIs
<1>4. 1 \in 1 .. last /\ last \in 1 .. last /\ b.day \in Int
  BY <1>1, <1>3
<1>5. B \in Int /\ A(1) \in Int /\ A(last) \in Int
  BY <1>1, <1>3, <1>4, OrdinalIs DEF Stands
<1>6. FirstOfMonth(a) = A(1) + 1721425 /\ LastOfMonth(a) = A(last) + 1721425
  BY <1>1, <1>3, JulianDayCounts DEF FirstOfMonth, LastOfMonth
<1>7. MonthOf(a) < MonthOf(b) => A(last) < B /\ A(1) < B
  BY <1>1, <1>4, MonthsInOrder DEF Stands
<1>8. MonthOf(b) < MonthOf(a) => B < A(1) /\ B < A(last)
  BY <1>1, <1>4, MonthsInOrder DEF Stands
<1>9. MonthOf(a) = MonthOf(b) => A(1) <= B /\ B <= A(last)
  <2>1. SUFFICES ASSUME MonthOf(a) = MonthOf(b) PROVE A(1) <= B /\ B <= A(last)
    OBVIOUS
  <2>2. a.year = b.year /\ a.month = b.month
    BY <1>1, <2>1 DEF MonthOf, Months12
  <2>3. /\ A(1) = YearStart(a.year) + MonthStart(a.year, a.month) + 1
        /\ A(last) = YearStart(a.year) + MonthStart(a.year, a.month) + last
        /\ B = YearStart(a.year) + MonthStart(a.year, a.month) + b.day
        /\ YearStart(a.year) \in Int /\ MonthStart(a.year, a.month) \in Int
    BY <1>1, <1>3, <1>4, <2>2, OrdinalIs DEF Stands
  <2>4. b.day <= last /\ 1 <= b.day
    BY <1>1, <1>3, <2>2
  <2>5. QED
    BY <1>3, <1>4, <2>3, <2>4
<1> HIDE DEF A, B, last
<1>10. DateEq(a, b) <=> A(1) <= B /\ B <= A(last)
  BY <1>1, <1>5, <1>6 DEF DateEq
<1>11. (DateLe(a, b) <=> A(1) <= B) /\ (DateGe(a, b) <=> B <= A(last))
  BY <1>1, <1>5, <1>6 DEF DateLe, DateGe
<1>12. QED
  BY <1>2, <1>5, <1>7, <1>8, <1>9, <1>10, <1>11

\* Every other date is compared by the day.
LEMMA ComparedByDay ==
  ASSUME NEW a, NEW b, IsDate(a), IsDate(b), b.form # "ym"
  PROVE  /\ DateEq(a, b) <=> Stands(a) = Stands(b)
         /\ DateLe(a, b) <=> Stands(a) <= Stands(b)
         /\ DateGe(a, b) <=> Stands(a) >= Stands(b)
         /\ a.julian < b.julian <=> Stands(a) < Stands(b)
         /\ a.julian > b.julian <=> Stands(a) > Stands(b)
<1>1. /\ a.year \in Int /\ a.month \in Months12 /\ a.day \in 1 .. DaysInMonth(a.year, a.month)
      /\ b.year \in Int /\ b.month \in Months12 /\ b.day \in 1 .. DaysInMonth(b.year, b.month)
      /\ a.julian = Stands(a) + 1721425 /\ b.julian = Stands(b) + 1721425
  BY DEF IsDate
<1>2. DaysInMonth(a.year, a.month) \in Int /\ DaysInMonth(b.year, b.month) \in Int
  BY <1>1, OrdinalIs
<1>3. a.day \in Int /\ b.day \in Int
  BY <1>1, <1>2
<1>4. Stands(a) \in Int /\ Stands(b) \in Int
  BY <1>1, <1>3, OrdinalIs DEF Stands
<1>5. QED
  BY <1>1, <1>4 DEF DateEq, DateLe, DateGe

-----------------------------------------------------------------------------
(* Texts and rows *)

\* The parts of a text are numbers.
LEMMA PartsAreNumbers ==
  ASSUME NEW t, NEW S, IsNumbers(t, S)
  PROVE  Len(t) \in Nat /\ Len(t) \in S /\ \A i \in 1 .. Len(t) : t[i] \in Int
BY DEF IsNumbers

\* A date that is read from a text, but a decimal year, is the day and the
\* month that the text says.
LEMMA ReadDateIs ==
  ASSUME NEW s, IsDateText(s), s.mark # ".", NEW d \in ReadDate(s)
  PROVE  /\ IsDate(d) /\ Stands(d) = Days(s) /\ MonthOf(d) = Months(s)
         /\ d.form = "ym" <=> IsMonth(s)
         /\ IsMonth(s) => d.year = s.parts[1] /\ d.month = s.parts[2] /\ d.day = 1
<1>1. s # NoDate
  <2>1. ASSUME s = NoDate PROVE FALSE
    <3>1. s.mark = "none"
      BY <2>1 DEF NoDate
    <3>2. ReadDate(s) = {}
      BY <3>1 DEF ReadDate
    <3>3. QED
      BY <3>2
  <2>2. QED
    BY <2>1
<1>2. s.mark \in {"/", "-", ""} /\ IsNumbers(s.parts, 1 .. 3)
  BY <1>1 DEF IsDateText
<1> DEFINE n == Len(s.parts)
<1>3. n \in 1 .. 3 /\ \A i \in 1 .. n : s.parts[i] \in Int
  BY <1>2, PartsAreNumbers
<1>4. CASE s.mark = "/" /\ n = 3
  <2>1. d \in ByMonth(s.parts[1], s.parts[2], s.parts[3], "ymd")
    BY <1>4 DEF ReadDate
  <2>2. IsDate(d) /\ d.year = s.parts[1] /\ d.month = s.parts[2] /\ d.day = s.parts[3] /\ d.form = "ymd"
    BY <1>3, <1>4, <2>1, ByMonthIs
  <2>3. Days(s) = Ordinal(s.parts[1], s.parts[2], s.parts[3]) /\ Months(s) = 12 * s.parts[1] + s.parts[2] /\ ~IsMonth(s)
    BY <1>4 DEF Days, Months, IsMonth
  <2>4. QED
    BY <2>2, <2>3 DEF Stands, MonthOf
<1>5. CASE s.mark = "-" /\ n = 3
  <2>1. d \in ByMonth(s.parts[1], s.parts[2], s.parts[3], "ymd")
    BY <1>5 DEF ReadDate
  <2>2. IsDate(d) /\ d.year = s.parts[1] /\ d.month = s.parts[2] /\ d.day = s.parts[3] /\ d.form = "ymd"
    BY <1>3, <1>5, <2>1, ByMonthIs
  <2>3. Days(s) = Ordinal(s.parts[1], s.parts[2], s.parts[3]) /\ Months(s) = 12 * s.parts[1] + s.parts[2] /\ ~IsMonth(s)
    BY <1>5 DEF Days, Months, IsMonth
  <2>4. QED
    BY <2>2, <2>3 DEF Stands, MonthOf
<1>6. CASE s.mark = "/" /\ n = 2
  <2>1. d \in ByDay(s.parts[1], s.parts[2])
    BY <1>6 DEF ReadDate
  <2>2. /\ IsDate(d) /\ d.year = s.parts[1] /\ d.month = DaysToMonthDay(s.parts[1], s.parts[2])[1] /\ d.form = "yd"
        /\ Stands(d) = Ordinal(s.parts[1], 1, 1) + s.parts[2] - 1
    BY <1>3, <1>6, <2>1, ByDayIs
  <2>3. /\ Days(s) = Ordinal(s.parts[1], 1, 1) + s.parts[2] - 1
        /\ Months(s) = 12 * s.parts[1] + DaysToMonthDay(s.parts[1], s.parts[2])[1] /\ ~IsMonth(s)
    BY <1>6 DEF Days, Months, IsMonth
  <2>4. QED
    BY <2>2, <2>3 DEF MonthOf
<1>7. CASE s.mark = "-" /\ n = 2
  <2>1. d \in ByMonth(s.parts[1], s.parts[2], 1, "ym")
    BY <1>7 DEF ReadDate
  <2>2. IsDate(d) /\ d.year = s.parts[1] /\ d.month = s.parts[2] /\ d.day = 1 /\ d.form = "ym"
    BY <1>3, <1>7, <2>1, ByMonthIs
  <2>3. Days(s) = Ordinal(s.parts[1], s.parts[2], 1) /\ Months(s) = 12 * s.parts[1] + s.parts[2] /\ IsMonth(s)
    BY <1>7 DEF Days, Months, IsMonth
  <2>4. QED
    BY <2>2, <2>3 DEF Stands, MonthOf
<1>8. CASE s.mark = ""
  <2>1. d \in ByMonth(s.parts[1], 1, 1, "ymd")
    BY <1>8 DEF ReadDate
  <2>5. s.parts[1] \in Int
    BY <1>3
  <2>2. IsDate(d) /\ d.year = s.parts[1] /\ d.month = 1 /\ d.day = 1 /\ d.form = "ymd"
    BY <2>1, <2>5, ByMonthIs
  <2>3. Days(s) = Ordinal(s.parts[1], 1, 1) /\ Months(s) = 12 * s.parts[1] + 1 /\ ~IsMonth(s)
    BY <1>8 DEF Days, Months, IsMonth
  <2>4. QED
    BY <2>2, <2>3 DEF Stands, MonthOf
<1>9. CASE s.mark \in {"/", "-"} /\ n = 1
  <2>1. Len(s.parts) \notin {2, 3}
    BY <1>9
  <2>2. ReadDate(s) = {}
    BY <1>9, <2>1 DEF ReadDate
  <2>3. QED
    BY <2>2
<1>10. n = 1 \/ n = 2 \/ n = 3
  BY <1>3
<1> HIDE DEF n
<1>11. QED
  BY <1>2, <1>4, <1>5, <1>6, <1>7, <1>8, <1>9, <1>10

Which == {"date", "start", "end"}

\* A date that a factory reads from a row is the day, or the month, that the
\* row says.
LEMMA RowDateIs ==
  ASSUME IsDataset(dataset), NEW n \in DOMAIN dataset.rows, NEW which \in Which, NEW d \in RowDate(which, n)
  PROVE  /\ IsDate(d) /\ RowDate(which, n) = {d}
         /\ d.form = "ym" <=> ByMonths
         /\ ~ByMonths => RowDay(which, n) = Stands(d) /\ Said(which, n) = Stands(d)
         /\ ByMonths => RowDay(which, n) = Ordinal(d.year, d.month, 1) /\ Said(which, n) = MonthOf(d)
<1> DEFINE v == dataset.rows[n][which].date
           y == v[1] + dataset.base
<1>1. /\ dataset.form \in {"ymd", "yd", "ym"} /\ dataset.base \in Int /\ dataset.monthDay \in Int
      /\ IsNumbers(v, {IF dataset.form = "ymd" THEN 3 ELSE 2})
  <2>1. dataset.rows[n] \in ToSet(dataset.rows)
    BY DEF ToSet
  <2>2. QED
    BY <2>1 DEF IsDataset, Which
<1>2. which \in dataset.has
  BY DEF RowDate
<1> HIDE DEF v
<1>3. Len(v) = (IF dataset.form = "ymd" THEN 3 ELSE 2) /\ \A i \in 1 .. Len(v) : v[i] \in Int
  <2>1. Len(v) \in {IF dataset.form = "ymd" THEN 3 ELSE 2} /\ \A i \in 1 .. Len(v) : v[i] \in Int
    BY <1>1, PartsAreNumbers
  <2>2. QED
    BY <2>1
<1>4. y \in Int
  BY <1>1, <1>3
<1> HIDE DEF y
<1>5. CASE dataset.form = "ymd"
  <2>1. RowDate(which, n) = ByMonth(y, v[2], v[3], "ymd")
    BY <1>2, <1>5 DEF RowDate, v, y
  <2>2. /\ IsDate(d) /\ d.year = y /\ d.month = v[2] /\ d.day = v[3] /\ d.form = "ymd" /\ RowDate(which, n) = {d}
    BY <1>3, <1>4, <1>5, <2>1, ByMonthIs
  <2>3. RowDay(which, n) = Ordinal(y, v[2], v[3]) /\ ~ByMonths
    BY <1>5 DEF RowDay, ByMonths, v, y
  <2>4. QED
    BY <2>2, <2>3 DEF Stands, Said
<1>6. CASE dataset.form = "yd"
  <2>1. RowDate(which, n) = ByDay(y, v[2])
    BY <1>2, <1>6 DEF RowDate, v, y
  <2>2. /\ IsDate(d) /\ d.form = "yd" /\ RowDate(which, n) = {d} /\ Stands(d) = Ordinal(y, 1, 1) + v[2] - 1
    BY <1>3, <1>4, <1>6, <2>1, ByDayIs
  <2>3. RowDay(which, n) = Ordinal(y, 1, 1) + v[2] - 1 /\ ~ByMonths
    BY <1>6 DEF RowDay, ByMonths, v, y
  <2>4. QED
    BY <2>2, <2>3 DEF Said
<1>7. CASE dataset.form = "ym"
  <2>1. RowDate(which, n) = ByMonth(y, v[2], dataset.monthDay, "ym")
    BY <1>2, <1>7 DEF RowDate, v, y
  <2>2. /\ IsDate(d) /\ d.form = "ym" /\ RowDate(which, n) = {d} /\ d.year = y /\ d.month = v[2]
    BY <1>1, <1>3, <1>4, <1>7, <2>1, ByMonthIs
  <2>3. RowDay(which, n) = Ordinal(y, v[2], 1) /\ ByMonths
    BY <1>7 DEF RowDay, ByMonths, v, y
  <2>4. Said(which, n) = 12 * y + v[2]
    BY <2>3 DEF Said, v, y
  <2>5. QED
    BY <2>2, <2>3, <2>4 DEF MonthOf
<1>8. QED
  BY <1>1, <1>5, <1>6, <1>7

\* What is read as a time is the time that is meant.
LEMMA ReadTimeIs ==
  ASSUME NEW t, IsNumbers(t, 0 .. 3)
  PROVE  /\ \A x \in ReadTime(t) : x \in Nat /\ x < 172800 /\ t # <<>> /\ ReadTime(t) = {x}
         /\ t # <<>> => Clock(t) = ReadTime(t)
<1>1. Len(t) \in 0 .. 3 /\ \A i \in 1 .. Len(t) : t[i] \in Int
  BY PartsAreNumbers
<1>2. t # <<>> => Len(t) > 0
  BY <1>1 DEF IsNumbers
<1> DEFINE h == t[1]
           m == IF Len(t) > 1 THEN t[2] ELSE 0
           s == IF Len(t) > 2 THEN t[3] ELSE 0
<1>3. t # <<>> => h \in Int /\ m \in Int /\ s \in Int
  BY <1>1, <1>2
<1>4. t # <<>> => ReadTime(t) = Time(h, m, s) /\ Clock(t) = Time(h, m, s)
  BY DEF ReadTime, Clock
<1>5. t = <<>> => ReadTime(t) = {}
  BY DEF ReadTime
<1> HIDE DEF h, m, s
<1>6. t # <<>> => \A x \in Time(h, m, s) : x \in Nat /\ x < 172800 /\ Time(h, m, s) = {x}
  <2>1. SUFFICES ASSUME t # <<>>, NEW x \in Time(h, m, s) PROVE x \in Nat /\ x < 172800 /\ Time(h, m, s) = {x}
    OBVIOUS
  <2>2. h \in 0 .. 23 /\ m \in 0 .. 59 /\ s \in 0 .. 119
    BY <2>1 DEF Time
  <2>3. Time(h, m, s) = {2 * 60 * (60 * h + m) + s}
    BY <2>2 DEF Time
  <2>4. QED
    BY <2>1, <2>2, <2>3
<1>7. QED
  BY <1>4, <1>5, <1>6

-----------------------------------------------------------------------------
(* Comparisons *)

\* A date of an argument and one of a row compare as what they say does, in
\* days or in months.
LEMMA DatesCompare ==
  ASSUME IsDataset(dataset), NEW n \in DOMAIN dataset.rows, NEW which \in Which,
         NEW s, IsDateText(s), s.mark # ".",
         NEW a \in ReadDate(s), NEW c \in RowDate(which, n)
  PROVE  /\ Moment(s) \in Int /\ Said(which, n) \in Int
         /\ DateEq(a, c) <=> Moment(s) = Said(which, n)
         /\ DateLe(a, c) <=> Moment(s) <= Said(which, n)
         /\ DateGe(a, c) <=> Said(which, n) <= Moment(s)
         /\ ~ByMonths => /\ a.julian < c.julian <=> Moment(s) < Said(which, n)
                         /\ a.julian > c.julian <=> Said(which, n) < Moment(s)
<1>1. IsDate(a) /\ Stands(a) = Days(s) /\ MonthOf(a) = Months(s)
  BY ReadDateIs
<1>2. /\ IsDate(c) /\ (c.form = "ym" <=> ByMonths)
      /\ (~ByMonths => Said(which, n) = Stands(c)) /\ (ByMonths => Said(which, n) = MonthOf(c))
  BY RowDateIs
<1>3. /\ Stands(a) \in Int /\ Stands(c) \in Int /\ MonthOf(a) \in Int /\ MonthOf(c) \in Int
  BY <1>1, <1>2, DateTypes
<1>4. CASE ByMonths
  <2>1. Moment(s) = MonthOf(a) /\ Said(which, n) = MonthOf(c) /\ c.form = "ym"
    BY <1>1, <1>2, <1>4 DEF Moment
  <2>2. /\ DateEq(a, c) <=> MonthOf(a) = MonthOf(c)
        /\ DateLe(a, c) <=> MonthOf(a) <= MonthOf(c)
        /\ DateGe(a, c) <=> MonthOf(a) >= MonthOf(c)
    BY <1>1, <1>2, <2>1, ComparedByMonth
  <2>3. QED
    BY <1>3, <1>4, <2>1, <2>2
<1>5. CASE ~ByMonths
  <2>1. Moment(s) = Stands(a) /\ Said(which, n) = Stands(c) /\ c.form # "ym"
    BY <1>1, <1>2, <1>5 DEF Moment
  <2>2. /\ DateEq(a, c) <=> Stands(a) = Stands(c)
        /\ DateLe(a, c) <=> Stands(a) <= Stands(c)
        /\ DateGe(a, c) <=> Stands(a) >= Stands(c)
        /\ a.julian < c.julian <=> Stands(a) < Stands(c)
        /\ a.julian > c.julian <=> Stands(a) > Stands(c)
    BY <1>1, <1>2, <2>1, ComparedByDay
  <2>3. QED
    BY <1>3, <2>1, <2>2
<1>6. QED
  BY <1>4, <1>5

\* A date of a row is compared with one that may stand for its month as its day
\* is with the first and the last day of that.
LEMMA RangeCompare ==
  ASSUME IsDataset(dataset), NEW n \in DOMAIN dataset.rows, NEW which \in Which,
         NEW s, IsDateText(s), s.mark # ".", ByMonths => IsMonth(s),
         NEW a \in ReadDate(s), NEW c \in RowDate(which, n)
  PROVE  /\ Days(s) \in Int /\ LastDay(s) \in Int /\ RowDay(which, n) \in Int /\ Days(s) <= LastDay(s)
         /\ DateGe(c, a) <=> RowDay(which, n) >= Days(s)
         /\ DateLe(c, a) <=> RowDay(which, n) <= LastDay(s)
<1>1. /\ IsDate(a) /\ Stands(a) = Days(s) /\ (a.form = "ym" <=> IsMonth(s))
      /\ (IsMonth(s) => a.year = s.parts[1] /\ a.month = s.parts[2] /\ a.day = 1)
  BY ReadDateIs
<1>2. /\ IsDate(c)
      /\ (~ByMonths => RowDay(which, n) = Stands(c)) /\ (ByMonths => RowDay(which, n) = Ordinal(c.year, c.month, 1))
  BY RowDateIs
<1>3. Stands(a) \in Int /\ Stands(c) \in Int /\ MonthOf(a) \in Int /\ MonthOf(c) \in Int
  BY <1>1, <1>2, DateTypes
<1>4. CASE IsMonth(s)
  <2> DEFINE last == DaysInMonth(a.year, a.month)
             i == IF ByMonths THEN 1 ELSE c.day
  <2>1. /\ a.year \in Nat /\ a.month \in Months12 /\ last \in 28 .. 31
        /\ c.year \in Nat /\ c.month \in Months12 /\ DaysInMonth(c.year, c.month) \in 28 .. 31
        /\ c.day \in 1 .. DaysInMonth(c.year, c.month)
    BY <1>1, <1>2, OrdinalIs DEF IsDate
  <2>2. i \in 1 .. DaysInMonth(c.year, c.month) /\ 1 \in 1 .. last /\ last \in 1 .. last /\ i \in Int
    BY <2>1
  <2>3. RowDay(which, n) = Ordinal(c.year, c.month, i)
    BY <1>2 DEF Stands
  <2> HIDE DEF i
  <2>4. Days(s) = Ordinal(a.year, a.month, 1)
    BY <1>1, <1>4 DEF Stands
  <2>5. LastDay(s) = Days(s) + last - 1
    BY <1>1, <1>4 DEF LastDay
  <2> HIDE DEF last
  <2>6. /\ YearStart(a.year) + MonthStart(a.year, a.month) \in Int
        /\ Ordinal(a.year, a.month, 1) = YearStart(a.year) + MonthStart(a.year, a.month) + 1
        /\ Ordinal(a.year, a.month, last) = YearStart(a.year) + MonthStart(a.year, a.month) + last
        /\ Ordinal(c.year, c.month, i) = YearStart(c.year) + MonthStart(c.year, c.month) + i
        /\ YearStart(c.year) + MonthStart(c.year, c.month) \in Int
    BY <2>1, <2>2, OrdinalIs
  <2> DEFINE b == YearStart(a.year) + MonthStart(a.year, a.month)
  <2>7. Ordinal(a.year, a.month, 1) = b + 1 /\ Ordinal(a.year, a.month, last) = b + last /\ b \in Int
    BY <2>6
  <2> HIDE DEF b
  <2>8. LastDay(s) = Ordinal(a.year, a.month, last) /\ Days(s) <= LastDay(s) /\ Days(s) \in Int /\ LastDay(s) \in Int
    BY <2>1, <2>4, <2>5, <2>7
  <2>9. RowDay(which, n) \in Int
    BY <2>2, <2>3, <2>6
  <2>10. (DateGe(c, a) <=> MonthOf(c) >= MonthOf(a)) /\ (DateLe(c, a) <=> MonthOf(c) <= MonthOf(a))
    BY <1>1, <1>2, <1>4, ComparedByMonth
  <2>11. MonthOf(c) < MonthOf(a) => RowDay(which, n) < Days(s)
    BY <1>1, <1>2, <2>2, <2>3, <2>4, MonthsInOrder DEF last
  <2>12. MonthOf(a) < MonthOf(c) => LastDay(s) < RowDay(which, n)
    BY <1>1, <1>2, <2>2, <2>3, <2>8, MonthsInOrder DEF last
  <2>13. MonthOf(c) = MonthOf(a) => Days(s) <= RowDay(which, n) /\ RowDay(which, n) <= LastDay(s)
    <3>1. SUFFICES ASSUME MonthOf(c) = MonthOf(a) PROVE Days(s) <= RowDay(which, n) /\ RowDay(which, n) <= LastDay(s)
      OBVIOUS
    <3>2. c.year = a.year /\ c.month = a.month
      BY <2>1, <3>1 DEF MonthOf, Months12
    <3>3. 1 <= i /\ i <= last
      BY <2>1, <2>2, <3>2 DEF last
    <3>4. RowDay(which, n) = b + i
      BY <2>3, <2>6, <3>2 DEF b
    <3>5. QED
      BY <2>1, <2>2, <2>4, <2>7, <2>8, <3>3, <3>4
  <2>14. QED
    BY <1>3, <2>8, <2>9, <2>10, <2>11, <2>12, <2>13
<1>5. CASE ~IsMonth(s)
  <2>1. a.form # "ym" /\ ~ByMonths
    BY <1>1, <1>5
  <2>2. LastDay(s) = Days(s)
    BY <1>1, <1>3, <1>5 DEF LastDay
  <2>3. (DateLe(c, a) <=> Stands(c) <= Stands(a)) /\ (DateGe(c, a) <=> Stands(c) >= Stands(a))
    BY <1>1, <1>2, <2>1, ComparedByDay
  <2>4. QED
    BY <1>1, <1>2, <1>3, <2>1, <2>2, <2>3
<1>6. QED
  BY <1>4, <1>5

-----------------------------------------------------------------------------
(* Conditions *)

IsCondition(f) ==
    /\ f.does \in {"compare", "range"} /\ f.kind \in {"date", "time", "both"} /\ f.which \in Which
    /\ f.does = "range" => f.kind = "date"
    /\ \A i \in DOMAIN f.args : IsText(f.args[i])
    /\ Len(f.args) \in Nat /\ DOMAIN f.args = 1 .. Len(f.args)

\* The clause of a test of a constraint is a condition.
LEMMA ConditionIs ==
  ASSUME NEW r, IsRequest(r), NEW i \in DOMAIN r.tests
  PROVE  IsCondition(Condition(r.tests[i]))
<1> DEFINE t == r.tests[i]
           f == Condition(t)
<1>1. t \in ToSet(r.tests)
  BY DEF ToSet
<1>2. t.name \in DOMAIN Selections /\ t.args \in Seq(ToSet(t.args)) /\ \A s \in ToSet(t.args) : IsText(s)
  BY <1>1 DEF IsRequest
<1> HIDE DEF t
<1>3. /\ f.args = t.args /\ f.does = Selections[t.name].does
      /\ f.kind = Selections[t.name].kind /\ f.which = Selections[t.name].which
  <2>1. Selections[t.name] = [Selections[t.name] EXCEPT !.args = Selections[t.name].args]
    BY <1>2 DEF Selections, Compare
  <2>2. /\ DOMAIN Selections[t.name] = {"does", "kind", "which", "form", "args"}
    BY <1>2 DEF Selections, Compare
  <2>3. QED
    BY <2>2 DEF Condition
<1>4. /\ f.does \in {"compare", "range"} /\ f.kind \in {"date", "time", "both"} /\ f.which \in Which
      /\ f.does = "range" => f.kind = "date"
  BY <1>2, <1>3 DEF Selections, Compare, Which
<1>5. \A j \in DOMAIN t.args : IsText(t.args[j])
  BY <1>2 DEF ToSet
<1>6. Len(t.args) \in Nat /\ DOMAIN t.args = 1 .. Len(t.args)
  BY <1>2
<1> HIDE DEF f
<1>7. IsCondition(f)
  BY <1>3, <1>4, <1>5, <1>6 DEF IsCondition
<1>8. QED
  BY <1>7 DEF f, t

\* What is read of an argument, and of a row, is what they say, and the
\* functions compare it in the order of time.
LEMMA ValuesCompare ==
  ASSUME IsDataset(dataset), NEW n \in DOMAIN dataset.rows, NEW f, IsCondition(f), Plain(f),
         NEW i \in DOMAIN f.args,
         NEW t \in ReadArgument(f.kind, f.args[i]), NEW c \in Instance(f, n)
  PROVE  \E a, x :
            /\ At(f, i) = {a} /\ Now(f, n) = {x}
            /\ a \in Int \X Int /\ x \in Int \X Int
            /\ Eq(f.kind, t, c) <=> a = x
            /\ Le(f.kind, t, c) <=> Before(a, x)
            /\ Ge(f.kind, t, c) <=> Before(x, a)
<1> DEFINE s == f.args[i]
<1>1. IsDateText(s.date) /\ IsNumbers(s.time, 0 .. 3) /\ f.which \in Which /\ f.kind \in {"date", "time", "both"}
  BY DEF IsCondition, IsText
<1> HIDE DEF s
<1> DEFINE q == dataset.rows[n][f.which].time
<1>2. IsNumbers(q, 1 .. 3)
  <2>1. dataset.rows[n] \in ToSet(dataset.rows)
    BY DEF ToSet
  <2>2. QED
    BY <1>1, <2>1 DEF IsDataset, Which
<1>3. IsNumbers(q, 0 .. 3)
  BY <1>2 DEF IsNumbers
<1> HIDE DEF q
<1>4. CASE f.kind = "date"
  <2>1. t \in ReadDate(s.date) /\ c \in RowDate(f.which, n)
    BY <1>4 DEF ReadArgument, Instance, s
  <2>2. s.date.mark # "."
    BY <1>4 DEF Plain, s
  <2> DEFINE m == Moment(s.date)
             w == Said(f.which, n)
  <2>3. /\ m \in Int /\ w \in Int
        /\ DateEq(t, c) <=> m = w
        /\ DateLe(t, c) <=> m <= w
        /\ DateGe(t, c) <=> w <= m
    BY <1>1, <2>1, <2>2, DatesCompare
  <2>4. At(f, i) = {<<m, 0>>} /\ Now(f, n) = {<<w, 0>>}
    BY <1>4 DEF At, Now, s
  <2>5. /\ Eq(f.kind, t, c) <=> DateEq(t, c)
        /\ Le(f.kind, t, c) <=> DateLe(t, c)
        /\ Ge(f.kind, t, c) <=> DateGe(t, c)
    BY <1>4 DEF Eq, Le, Ge
  <2> HIDE DEF m, w
  <2>6. /\ <<m, 0>> \in Int \X Int /\ <<w, 0>> \in Int \X Int
        /\ (<<m, 0>> = <<w, 0>> <=> m = w)
        /\ (Before(<<m, 0>>, <<w, 0>>) <=> m <= w) /\ (Before(<<w, 0>>, <<m, 0>>) <=> w <= m)
    BY <2>3 DEF Before
  <2>7. QED
    BY <2>3, <2>4, <2>5, <2>6
<1>5. CASE f.kind = "time"
  <2>1. t \in ReadTime(s.time) /\ c \in ReadTime(q)
    BY <1>5 DEF ReadArgument, Instance, RowTime, s, q
  <2>2. t \in Nat /\ Clock(s.time) = {t} /\ c \in Nat /\ Clock(q) = {c}
    BY <1>1, <1>3, <2>1, ReadTimeIs
  <2>3. At(f, i) = {<<0, t>>} /\ Now(f, n) = {<<0, c>>}
    BY <1>5, <2>2 DEF At, Now, s, q
  <2>4. /\ Eq(f.kind, t, c) <=> t = c
        /\ Le(f.kind, t, c) <=> t <= c
        /\ Ge(f.kind, t, c) <=> t >= c
    BY <1>5 DEF Eq, Le, Ge
  <2>5. /\ <<0, t>> \in Int \X Int /\ <<0, c>> \in Int \X Int
        /\ (<<0, t>> = <<0, c>> <=> t = c)
        /\ (Before(<<0, t>>, <<0, c>>) <=> t <= c) /\ (Before(<<0, c>>, <<0, t>>) <=> c <= t)
    BY <2>2 DEF Before
  <2>6. QED
    BY <2>2, <2>3, <2>4, <2>5
<1>6. CASE f.kind = "both"
  <2>1. ~HasPoint(s) /\ s.time # <<>> /\ ~ByMonths
    BY <1>6 DEF Plain, s
  <2>2. s.date.mark # "."
    BY <2>1 DEF HasPoint
  <2>3. t \in ReadDateTime(s) /\ c \in RowDateTime(f.which, n)
    BY <1>6 DEF ReadArgument, Instance, s
  <2>4. t.date \in ReadDate(s.date) /\ t.time \in ReadTime(s.time)
    BY <2>1, <2>2, <2>3 DEF ReadDateTime
  <2>5. c.date \in RowDate(f.which, n) /\ c.time \in ReadTime(q)
    BY <2>3 DEF RowDateTime, RowTime, q
  <2>6. t.time \in Nat /\ Clock(s.time) = {t.time} /\ c.time \in Nat /\ Clock(q) = {c.time}
    BY <1>1, <1>3, <2>4, <2>5, ReadTimeIs
  <2> DEFINE m == Moment(s.date)
             w == Said(f.which, n)
             a == <<m, t.time>>
             x == <<w, c.time>>
  <2>7. /\ m \in Int /\ w \in Int
        /\ DateEq(t.date, c.date) <=> m = w
        /\ t.date.julian < c.date.julian <=> m < w
        /\ t.date.julian > c.date.julian <=> w < m
    BY <1>1, <2>1, <2>2, <2>4, <2>5, DatesCompare
  <2>8. At(f, i) = {a} /\ Now(f, n) = {x}
    BY <1>6, <2>6 DEF At, Now, s, q
  <2>9. /\ Eq(f.kind, t, c) <=> BothEq(t, c)
        /\ Le(f.kind, t, c) <=> BothLe(t, c)
        /\ Ge(f.kind, t, c) <=> BothGe(t, c)
    BY <1>6 DEF Eq, Le, Ge
  <2> HIDE DEF m, w
  <2>10. /\ a \in Int \X Int /\ x \in Int \X Int
         /\ (BothEq(t, c) <=> a = x)
         /\ (BothLe(t, c) <=> Before(a, x)) /\ (BothGe(t, c) <=> Before(x, a))
    BY <2>6, <2>7 DEF Before, BothEq, BothLe, BothGe
  <2> HIDE DEF a, x
  <2>11. QED
    BY <2>8, <2>9, <2>10
<1>7. QED
  BY <1>1, <1>4, <1>5, <1>6

\* A test of one moment or of a period says what it means.
LEMMA ComparisonMeans ==
  ASSUME IsDataset(dataset), row \in DOMAIN dataset.rows, NEW f, IsCondition(f), f.does = "compare",
         NEW b \in Test(f), NEW m \in Meaning(f, row)
  PROVE  b <=> m
<1>1. Plain(f) /\ Len(f.args) \in {1, 2} /\ b \in Comparison(f)
  BY DEF Test, Meaning
<1>2. CASE Len(f.args) = 1
  <2>1. PICK t \in ReadArgument(f.kind, f.args[1]), c \in Instance(f, row) : b = Eq(f.kind, t, c)
    BY <1>1, <1>2 DEF Comparison
  <2>2. 1 \in DOMAIN f.args
    BY <1>2 DEF IsCondition
  <2>3. PICK a, x : /\ At(f, 1) = {a} /\ Now(f, row) = {x}
                    /\ a \in Int \X Int /\ x \in Int \X Int
                    /\ Eq(f.kind, t, c) <=> a = x
                    /\ Le(f.kind, t, c) <=> Before(a, x)
                    /\ Ge(f.kind, t, c) <=> Before(x, a)
    BY <1>1, <2>2, ValuesCompare
  <2>4. Meaning(f, row) = {y = z : z \in At(f, 1), y \in Now(f, row)}
    BY <1>1, <1>2 DEF Meaning
  <2>5. m = (x = a)
    BY <2>3, <2>4
  <2>6. QED
    BY <2>1, <2>3, <2>5
<1>3. CASE Len(f.args) = 2
  <2>1. PICK t \in ReadArgument(f.kind, f.args[1]), u \in ReadArgument(f.kind, f.args[2]), c \in Instance(f, row) :
           b = (Le(f.kind, t, c) /\ Ge(f.kind, u, c))
    BY <1>1, <1>3 DEF Comparison
  <2>2. 1 \in DOMAIN f.args /\ 2 \in DOMAIN f.args
    BY <1>3 DEF IsCondition
  <2>3. PICK a, x : At(f, 1) = {a} /\ Now(f, row) = {x} /\ (Le(f.kind, t, c) <=> Before(a, x))
    BY <1>1, <2>1, <2>2, ValuesCompare
  <2>4. PICK e, y : At(f, 2) = {e} /\ Now(f, row) = {y} /\ (Ge(f.kind, u, c) <=> Before(y, e))
    BY <1>1, <2>1, <2>2, ValuesCompare
  <2>5. x = y
    BY <2>3, <2>4
  <2>6. Meaning(f, row) = {Before(z, w) /\ Before(w, v) : z \in At(f, 1), v \in At(f, 2), w \in Now(f, row)}
    BY <1>1, <1>3 DEF Meaning
  <2>7. m = (Before(a, x) /\ Before(x, e))
    BY <2>3, <2>4, <2>6
  <2>8. QED
    BY <2>1, <2>3, <2>4, <2>5, <2>7
<1>4. QED
  BY <1>1, <1>2, <1>3

\* A test of a range says that the row and the range have a day in common.
LEMMA RangeMeans ==
  ASSUME IsDataset(dataset), row \in DOMAIN dataset.rows, NEW f, IsCondition(f), f.does = "range",
         NEW b \in Test(f), NEW m \in Meaning(f, row)
  PROVE  b <=> m
<1> DEFINE s1 == f.args[1].date
           s2 == f.args[2].date
           S == RowDay("start", row)
           E == RowDay("end", row)
<1>1. Plain(f) /\ Len(f.args) = 2 /\ b \in RangeComparison(f) /\ m \in Overlap(f, row) /\ f.kind = "date"
  BY DEF Test, Meaning, IsCondition
<1>2. 1 \in DOMAIN f.args /\ 2 \in DOMAIN f.args
  BY <1>1 DEF IsCondition
<1>3. IsDateText(s1) /\ IsDateText(s2) /\ s1.mark # "." /\ s2.mark # "."
  BY <1>1, <1>2 DEF Plain, IsCondition, IsText
<1>4. PICK t \in ReadDate(s1), u \in ReadDate(s2), s \in RowDate("start", row), e \in RowDate("end", row) :
         b = InRange(s, e, t, u)
  <2>1. \A x : ReadArgument("date", x) = ReadDate(x.date)
    BY DEF ReadArgument
  <2>2. PICK t \in ReadArgument("date", f.args[1]), u \in ReadArgument("date", f.args[2]),
             s \in RowDate("start", row), e \in RowDate("end", row) : b = InRange(s, e, t, u)
    BY <1>1 DEF RangeComparison
  <2>3. QED
    BY <2>1, <2>2
<1>5. /\ LastDay(s1) < Days(s2) \/ (Days(s1) = Days(s2) /\ LastDay(s1) = LastDay(s2))
      /\ S <= E /\ (ByMonths => IsMonth(s1) /\ IsMonth(s2))
      /\ m = (S <= LastDay(s2) /\ Days(s1) <= E)
  BY <1>1 DEF Overlap
<1>6. "start" \in Which /\ "end" \in Which
  BY DEF Which
<1> DEFINE F1 == Days(s1)
           L1 == LastDay(s1)
           F2 == Days(s2)
           L2 == LastDay(s2)
<1>7. /\ F1 \in Int /\ L1 \in Int /\ S \in Int /\ F1 <= L1
      /\ (DateGe(s, t) <=> S >= F1) /\ (DateLe(s, t) <=> S <= L1)
  BY <1>3, <1>4, <1>5, <1>6, RangeCompare
<1>8. /\ F2 \in Int /\ L2 \in Int /\ F2 <= L2
      /\ (DateGe(s, u) <=> S >= F2) /\ (DateLe(s, u) <=> S <= L2)
  BY <1>3, <1>4, <1>5, <1>6, RangeCompare
<1>9. /\ E \in Int
      /\ (DateGe(e, t) <=> E >= F1) /\ (DateLe(e, t) <=> E <= L1)
  BY <1>3, <1>4, <1>5, <1>6, RangeCompare
<1>10. /\ (DateGe(e, u) <=> E >= F2) /\ (DateLe(e, u) <=> E <= L2)
  BY <1>3, <1>4, <1>5, <1>6, RangeCompare
<1> HIDE DEF S, E, F1, L1, F2, L2
<1>11. (L1 < F2 \/ (F1 = F2 /\ L1 = L2)) /\ S <= E /\ m = (S <= L2 /\ F1 <= E)
  BY <1>5 DEF S, E, F1, L1, F2, L2
<1>12. (S >= F1 /\ S <= L2) \/ (E >= F1 /\ E <= L2) \/ (S <= L1 /\ E >= F2) <=> S <= L2 /\ F1 <= E
  BY <1>7, <1>8, <1>9, <1>11
<1>13. b <=> (S >= F1 /\ S <= L2) \/ (E >= F1 /\ E <= L2) \/ (S <= L1 /\ E >= F2)
  BY <1>4, <1>7, <1>8, <1>9, <1>10 DEF InRange
<1>14. QED
  BY <1>11, <1>12, <1>13

\* The meaning of a test is true or false.
LEMMA MeaningIsBoolean ==
  ASSUME NEW f, NEW n, IsCondition(f)
  PROVE  Meaning(f, n) \subseteq BOOLEAN
<1>1. Overlap(f, n) \subseteq BOOLEAN
  BY DEF Overlap
<1>2. ASSUME NEW z \in {x = a : a \in At(f, 1), x \in Now(f, n)} PROVE z \in BOOLEAN
  <2>1. PICK a \in At(f, 1), x \in Now(f, n) : z = (x = a)
    BY <1>2
  <2>2. QED
    BY <2>1
<1>3. ASSUME NEW z \in {Before(a, x) /\ Before(x, b) : a \in At(f, 1), b \in At(f, 2), x \in Now(f, n)}
      PROVE  z \in BOOLEAN
  <2>1. PICK a \in At(f, 1), b \in At(f, 2), x \in Now(f, n) : z = (Before(a, x) /\ Before(x, b))
    BY <1>3
  <2>2. QED
    BY <2>1
<1>4. Plain(f) => f.does = "range" \/ (f.does = "compare" /\ Len(f.args) \in {1, 2})
  BY DEF IsCondition, Plain
<1>5. ASSUME NEW z \in Meaning(f, n) PROVE z \in BOOLEAN
  <2>1. CASE ~Plain(f)
    <3>1. Meaning(f, n) = {}
      BY <2>1 DEF Meaning
    <3>2. QED
      BY <3>1
  <2>2. CASE Plain(f) /\ f.does = "range"
    <3>1. Meaning(f, n) = Overlap(f, n)
      BY <2>2 DEF Meaning
    <3>2. QED
      BY <1>1, <3>1
  <2>3. CASE Plain(f) /\ f.does = "compare" /\ Len(f.args) = 1
    <3>1. z \in {x = a : a \in At(f, 1), x \in Now(f, n)}
      BY <2>3 DEF Meaning
    <3>2. QED
      BY <1>2, <3>1
  <2>4. CASE Plain(f) /\ f.does = "compare" /\ Len(f.args) = 2
    <3>1. z \in {Before(a, x) /\ Before(x, b) : a \in At(f, 1), b \in At(f, 2), x \in Now(f, n)}
      BY <2>4 DEF Meaning
    <3>2. QED
      BY <1>3, <3>1
  <2>5. QED
    BY <1>4, <2>1, <2>2, <2>3, <2>4
<1>6. QED
  BY <1>5

\* What a clause of a test says of a row is what the test means.
LEMMA Agree ==
  ASSUME IsDataset(dataset), row \in DOMAIN dataset.rows, NEW f, IsCondition(f)
  PROVE  /\ FALSE \in Test(f) => TRUE \notin Meaning(f, row)
         /\ TRUE \in Test(f) /\ Meaning(f, row) # {} => TRUE \in Meaning(f, row)
<1>1. \A b \in Test(f), m \in Meaning(f, row) : b <=> m
  BY ComparisonMeans, RangeMeans DEF IsCondition
<1>2. Meaning(f, row) \subseteq BOOLEAN
  BY MeaningIsBoolean
<1>3. QED
  BY <1>1, <1>2

-----------------------------------------------------------------------------
(* Columns *)

IsColumn(f) ==
    /\ f.does = "show" /\ f.kind \in {"date", "time", "both"} /\ f.which \in Which
    /\ f.kind = "date" => f.form \in {"ymd", "yd"}
    /\ f.kind = "both" => f.form \in {"ymd", "decimal"}

\* The clause of a column that a constraint adds.
LEMMA ColumnIs ==
  ASSUME NEW name \in DOMAIN Projections
  PROVE  IsColumn(Column(name))
BY DEF Column, Projections, Show, IsColumn, Which

\* A date is the day of its year that its number says.
LEMMA NumberOfDay ==
  ASSUME NEW d, IsDate(d)
  PROVE  Ordinal(d.year, 1, 1) + d.number - 1 = Ordinal(d.year, d.month, d.day)
<1>1. /\ d.year \in Int /\ d.month \in Months12 /\ d.day \in 1 .. DaysInMonth(d.year, d.month)
      /\ d.number = MonthStart(d.year, d.month) + d.day
  BY DEF IsDate
<1>2. DaysInMonth(d.year, d.month) \in Int
  BY <1>1, OrdinalIs
<1>3. d.day \in Int
  BY <1>1, <1>2
<1>4. 1 \in Months12 /\ 1 \in Int
  BY DEF Months12
<1>5. /\ Ordinal(d.year, d.month, d.day) = YearStart(d.year) + MonthStart(d.year, d.month) + d.day
      /\ YearStart(d.year) \in Int /\ MonthStart(d.year, d.month) \in Int
  BY <1>1, <1>3, OrdinalIs
<1>6. Ordinal(d.year, 1, 1) = YearStart(d.year) + MonthStart(d.year, 1) + 1 /\ MonthStart(d.year, 1) = 0
  BY <1>1, <1>4, OrdinalIs
<1>7. QED
  BY <1>1, <1>3, <1>5, <1>6

\* A date that is written is read as the same day.
LEMMA WriteDateReads ==
  ASSUME NEW d, IsDate(d), NEW form \in {"ymd", "yd"}
  PROVE  /\ WriteDate(d, form).mark = "/" /\ WriteDate(d, form).parts[1] = d.year
         /\ \E e : ReadDate(WriteDate(d, form)) = {e} /\ SameDay(e, d)
<1> DEFINE s == WriteDate(d, form)
<1>1. /\ d.year \in Int /\ d.year \in Nat /\ d.year > 0
      /\ d.month \in Months12 /\ d.day \in 1 .. DaysInMonth(d.year, d.month)
      /\ d.number = MonthStart(d.year, d.month) + d.day
  BY DEF IsDate
<1>2. DaysInMonth(d.year, d.month) \in Int
  BY <1>1, OrdinalIs
<1>3. d.month \in Int /\ d.day \in Int
  BY <1>1, <1>2 DEF Months12
<1>4. CASE form = "yd"
  <2>1. s = [mark |-> "/", parts |-> <<d.year, d.number>>]
    BY <1>4 DEF WriteDate
  <2>2. s.mark = "/" /\ s.parts = <<d.year, d.number>> /\ Len(s.parts) = 2
    BY <2>1
  <2> HIDE DEF s
  <2>3. s.parts[1] = d.year /\ s.parts[2] = d.number
    BY <2>2
  <2>4. ReadDate(s) = ByDay(d.year, d.number)
    BY <2>2, <2>3 DEF ReadDate
  <2>5. d.number \in 1 .. DaysInYear(d.year)
    BY <1>1, DayOfYear
  <2>6. d.number \in Int
    BY <2>5 DEF DaysInYear
  <2>7. PICK e : e \in ByDay(d.year, d.number)
    BY <1>1, <2>5, ByDayExists
  <2>8. ByDay(d.year, d.number) = {e} /\ Stands(e) = Ordinal(d.year, 1, 1) + d.number - 1
    BY <1>1, <2>6, <2>7, ByDayIs
  <2>9. Ordinal(d.year, 1, 1) + d.number - 1 = Ordinal(d.year, d.month, d.day)
    BY NumberOfDay
  <2>10. QED
    BY <2>2, <2>3, <2>4, <2>8, <2>9 DEF s, SameDay, Stands
<1>5. CASE form = "ymd"
  <2>1. s = [mark |-> "/", parts |-> <<d.year, d.month, d.day>>]
    BY <1>5 DEF WriteDate
  <2>2. s.mark = "/" /\ s.parts = <<d.year, d.month, d.day>> /\ Len(s.parts) = 3
    BY <2>1
  <2> HIDE DEF s
  <2>3. s.parts[1] = d.year /\ s.parts[2] = d.month /\ s.parts[3] = d.day
    BY <2>2
  <2>4. ReadDate(s) = ByMonth(d.year, d.month, d.day, "ymd")
    BY <2>2, <2>3 DEF ReadDate
  <2>5. PICK e : e \in ByMonth(d.year, d.month, d.day, "ymd")
    BY <1>1 DEF ByMonth, Exists, Months12
  <2>6. ReadDate(s) = {e} /\ e.year = d.year /\ e.month = d.month /\ e.day = d.day
    BY <1>1, <1>3, <2>4, <2>5, ByMonthIs
  <2>7. QED
    BY <2>2, <2>3, <2>6 DEF s, SameDay
<1>6. QED
  BY <1>4, <1>5

\* A time that is written is read as the same time.
LEMMA WriteTimeReads ==
  ASSUME NEW n \in Nat, n < 172800
  PROVE  /\ Len(WriteTime(n)) = 3 /\ WriteTime(n) # <<>> /\ ReadTime(WriteTime(n)) = {n}
         /\ WriteTime(n)[3] % 2 = n % 2
<1> DEFINE h == n \div 7200
           m == (n \div 120) % 60
           s == n % 120
<1>1. h \in 0 .. 23 /\ m \in 0 .. 59 /\ s \in 0 .. 119 /\ 2 * 60 * (60 * h + m) + s = n /\ s % 2 = n % 2
  <2>1. n = 120 * (n \div 120) + s /\ s \in 0 .. 119 /\ n \div 120 \in 0 .. 1439
    OBVIOUS
  <2>2. (n \div 120) \div 60 = h
    OBVIOUS
  <2>3. n \div 120 = 60 * ((n \div 120) \div 60) + m /\ m \in 0 .. 59 /\ (n \div 120) \div 60 \in 0 .. 23
    BY <2>1
  <2>4. s % 2 = n % 2
    OBVIOUS
  <2>5. QED
    BY <2>1, <2>2, <2>3, <2>4
<1>2. WriteTime(n) = <<h, m, s>>
  BY DEF WriteTime
<1> HIDE DEF h, m, s
<1>3. Len(<<h, m, s>>) = 3 /\ <<h, m, s>> # <<>> /\ ReadTime(<<h, m, s>>) = Time(h, m, s)
  BY DEF ReadTime
<1>4. Time(h, m, s) = {n}
  BY <1>1 DEF Time
<1>5. QED
  BY <1>1, <1>2, <1>3, <1>4

\* The text of a column says the moment of the row.
LEMMA ShownSays ==
  ASSUME IsDataset(dataset), row \in DOMAIN dataset.rows, NEW f, IsColumn(f), NEW v \in Instance(f, row)
  PROVE  Says(f, v, ReadArgument(f.kind, Shown(f)))
<1> DEFINE q == dataset.rows[row][f.which].time
<1>1. IsNumbers(q, 0 .. 3) /\ f.which \in Which /\ f.kind \in {"date", "time", "both"}
  <2>1. dataset.rows[row] \in ToSet(dataset.rows)
    BY DEF ToSet
  <2>2. IsNumbers(q, 1 .. 3)
    BY <2>1 DEF IsDataset, Which, IsColumn
  <2>3. QED
    BY <2>2 DEF IsNumbers, IsColumn
<1> HIDE DEF q
<1>2. CASE f.kind = "date"
  <2>1. v \in RowDate(f.which, row) /\ Instance(f, row) = RowDate(f.which, row)
    BY <1>2 DEF Instance
  <2>2. IsDate(v) /\ Instance(f, row) = {v}
    BY <1>1, <2>1, RowDateIs
  <2>3. Shown(f) = [date |-> WriteDate(v, f.form), time |-> <<>>]
    BY <1>2, <2>2 DEF Shown
  <2>4. ReadArgument(f.kind, Shown(f)) = ReadDate(WriteDate(v, f.form))
    BY <1>2, <2>3 DEF ReadArgument
  <2>5. f.form \in {"ymd", "yd"}
    BY <1>2 DEF IsColumn
  <2>6. PICK e : ReadDate(WriteDate(v, f.form)) = {e} /\ SameDay(e, v)
    BY <2>2, <2>5, WriteDateReads
  <2>7. QED
    BY <1>2, <2>4, <2>6 DEF Says
<1>3. CASE f.kind = "time"
  <2>1. v \in ReadTime(q) /\ Instance(f, row) = ReadTime(q)
    BY <1>3 DEF Instance, RowTime, q
  <2>2. v \in Nat /\ v < 172800 /\ Instance(f, row) = {v}
    BY <1>1, <2>1, ReadTimeIs
  <2>3. Shown(f) = [date |-> NoDate, time |-> WriteTime(v)]
    BY <1>3, <2>2 DEF Shown
  <2>4. ReadArgument(f.kind, Shown(f)) = ReadTime(WriteTime(v))
    BY <1>3, <2>3 DEF ReadArgument
  <2>5. ReadTime(WriteTime(v)) = {v}
    BY <2>2, WriteTimeReads
  <2>6. QED
    BY <1>3, <2>4, <2>5 DEF Says
<1>4. CASE f.kind = "both"
  <2> DEFINE D == RowDate(f.which, row)
             T == RowTime(f.which, row)
             s == Shown(f)
  <2>1. Instance(f, row) = {[date |-> d, time |-> t] : d \in D, t \in T}
    BY <1>4 DEF Instance, RowDateTime
  <2>2. PICK d \in D, t \in T : v = [date |-> d, time |-> t]
    BY <2>1
  <2>3. t \in ReadTime(q)
    BY DEF RowTime, q
  <2>4. IsDate(d) /\ D = {d} /\ t \in Nat /\ t < 172800 /\ T = {t}
    BY <1>1, <2>3, RowDateIs, ReadTimeIs DEF RowTime, q
  <2>5. Instance(f, row) = {v} /\ v.date = d /\ v.time = t
    BY <2>1, <2>2, <2>4
  <2>6. s = WriteDateTime(v, f.form)
    BY <1>4, <2>5 DEF Shown
  <2> HIDE DEF D, T, s
  <2>7. ReadArgument(f.kind, s) = ReadDateTime(s)
    BY <1>4 DEF ReadArgument
  <2>8. ASSUME ReadDateTime(s) # {},
               t % 2 = 0 => \A x \in ReadDateTime(s) : x.time = t /\ SameDay(x.date, d)
        PROVE  Says(f, v, ReadArgument(f.kind, Shown(f)))
    <3>1. Says(f, v, ReadDateTime(s))
      BY <1>4, <2>5, <2>8 DEF Says
    <3>2. QED
      BY <2>7, <3>1 DEF s
  <2>9. CASE f.form = "ymd"
    <3>1. s = [date |-> WriteDate(d, "ymd"), time |-> WriteTime(t)]
      BY <2>5, <2>6, <2>9 DEF WriteDateTime
    <3>2. s.date = WriteDate(d, "ymd") /\ s.time = WriteTime(t)
      BY <3>1
    <3>3. s.date.mark = "/" /\ s.date.parts[1] = d.year
      BY <2>4, <3>2, WriteDateReads
    <3>4. PICK e : ReadDate(s.date) = {e} /\ SameDay(e, d)
      BY <2>4, <3>2, WriteDateReads
    <3>5. Len(s.time) = 3 /\ s.time # <<>> /\ ReadTime(s.time) = {t} /\ s.time[3] % 2 = t % 2
      BY <2>4, <3>2, WriteTimeReads
    <3>6. CASE t % 2 = 0
      <4>1. ~HasPoint(s)
        BY <3>3, <3>5, <3>6 DEF HasPoint
      <4>2. ReadDateTime(s) = {[date |-> x, time |-> y] : x \in ReadDate(s.date), y \in ReadTime(s.time)}
        BY <3>3, <3>5, <4>1 DEF ReadDateTime
      <4>3. ReadDateTime(s) = {[date |-> e, time |-> t]}
        BY <3>4, <3>5, <4>2
      <4>4. QED
        BY <2>8, <3>4, <4>3
    <3>7. CASE t % 2 # 0
      <4>1. HasPoint(s)
        BY <2>4, <3>3, <3>5, <3>7 DEF HasPoint
      <4>2. ReadDateTime(s) = {[date |-> x, time |-> 0] : x \in ByDay(d.year, 1)}
        BY <3>3, <4>1 DEF ReadDateTime
      <4>3. PICK begins : begins \in ByDay(d.year, 1)
        BY <2>4, ByDayExists DEF IsDate, DaysInYear
      <4>4. ReadDateTime(s) # {}
        BY <4>2, <4>3
      <4>5. QED
        BY <2>8, <3>7, <4>4
    <3>8. QED
      BY <3>6, <3>7
  <2>10. CASE f.form = "decimal"
    <3> DEFINE seconds == (d.number - 1) * Seconds + (t \div 2)
    <3>1. s = [date |-> [mark |-> ".", year |-> d.year, seconds |-> seconds], time |-> <<>>]
      BY <2>5, <2>6, <2>10 DEF WriteDateTime
    <3> HIDE DEF seconds
    <3>2. s.date.mark = "." /\ s.date.year = d.year /\ s.date.seconds = seconds
      BY <3>1
    <3>3. /\ d.year \in Nat /\ d.year > 0 /\ d.number \in 1 .. DaysInYear(d.year)
      BY <2>4, DayOfYear DEF IsDate
    <3>4. d.number \in Nat /\ d.number > 0
      BY <3>3 DEF DaysInYear
    <3>5. (seconds \div Seconds) + 1 = d.number /\ seconds % Seconds = t \div 2
      <4>1. \A a, b \in Nat : b < 86400 => (a * 86400 + b) \div 86400 = a /\ (a * 86400 + b) % 86400 = b
        OBVIOUS
      <4>2. Seconds = 86400 /\ d.number - 1 \in Nat /\ t \div 2 \in Nat /\ t \div 2 < 86400
        BY <2>4, <3>4 DEF Seconds
      <4>3. seconds = (d.number - 1) * 86400 + (t \div 2)
        BY <4>2 DEF seconds
      <4>4. seconds \div 86400 = d.number - 1 /\ seconds % 86400 = t \div 2
        BY <4>1, <4>2, <4>3
      <4>5. QED
        BY <3>4, <4>2, <4>4
    <3>6. ReadDateTime(s) = {[date |-> x, time |-> 2 * (t \div 2)] : x \in ByDay(d.year, d.number)}
      <4>1. ReadDateTime(s) = ReadDecimal(d.year, seconds)
        BY <3>2 DEF ReadDateTime, HasPoint
      <4>2. QED
        BY <3>5, <4>1, Zenon DEF ReadDecimal
    <3>7. PICK e : e \in ByDay(d.year, d.number)
      BY <3>3, ByDayExists
    <3>8. ByDay(d.year, d.number) = {e} /\ Stands(e) = Ordinal(d.year, 1, 1) + d.number - 1
      BY <3>3, <3>4, <3>7, ByDayIs
    <3>9. SameDay(e, d)
      BY <2>4, <3>8, NumberOfDay DEF SameDay, Stands
    <3>10. ReadDateTime(s) = {[date |-> e, time |-> 2 * (t \div 2)]}
      BY <3>6, <3>8
    <3>11. t % 2 = 0 => 2 * (t \div 2) = t
      BY <2>4
    <3>12. QED
      BY <2>8, <3>9, <3>10, <3>11
  <2>11. QED
    BY <1>4, <2>9, <2>10 DEF IsColumn
<1>5. QED
  BY <1>1, <1>2, <1>3, <1>4

-----------------------------------------------------------------------------
(* The dataset stays what it is, and so does what its rows say *)

\* What a row and a test say depends on the dataset alone.
LEMMA SameData ==
  ASSUME dataset' = dataset
  PROVE  /\ \A f, n : Instance(f, n)' = Instance(f, n)
         /\ \A f, n : IsCondition(f) => Meaning(f, n)' = Meaning(f, n)
<1>1. \A w, n : RowDate(w, n)' = RowDate(w, n) /\ RowTime(w, n)' = RowTime(w, n)
  BY DEF RowDate, RowTime
<1>2. \A w, n : RowDateTime(w, n)' = RowDateTime(w, n)
  BY <1>1 DEF RowDateTime
<1>3. \A f, n : Instance(f, n)' = Instance(f, n)
  BY <1>1, <1>2 DEF Instance
<1>4. ByMonths' <=> ByMonths
  BY DEF ByMonths
<1>5. \A w, n : RowDay(w, n)' = RowDay(w, n)
  BY DEF RowDay
<1>6. \A w, n : Said(w, n)' = Said(w, n)
  BY <1>4, <1>5 DEF Said
<1>7. \A x : Moment(x)' = Moment(x)
  BY <1>4 DEF Moment
<1>8. \A f : Plain(f)' <=> Plain(f)
  BY <1>4 DEF Plain
<1>9. \A f, i : At(f, i)' = At(f, i)
  BY <1>7 DEF At
<1>10. \A f, n : Now(f, n)' = Now(f, n)
  BY <1>6 DEF Now
<1>11. \A f, n : Overlap(f, n)' = Overlap(f, n)
  BY <1>4, <1>5 DEF Overlap
<1>12. \A f, n : IsCondition(f) => Meaning(f, n)' = Meaning(f, n)
  <2> SUFFICES ASSUME NEW f, NEW n, IsCondition(f) PROVE Meaning(f, n)' = Meaning(f, n)
    OBVIOUS
  <2> DEFINE A == At(f, 1)
             B == At(f, 2)
             N == Now(f, n)
             One == {x = a : a \in A, x \in N}
             Two == {Before(a, x) /\ Before(x, b) : a \in A, b \in B, x \in N}
  <2>1. A' = A /\ B' = B /\ N' = N /\ Overlap(f, n)' = Overlap(f, n) /\ (Plain(f)' <=> Plain(f))
    BY <1>8, <1>9, <1>10, <1>11
  <2>2. One' = One /\ Two' = Two
    BY <2>1
  <2>3. /\ ~Plain(f) => Meaning(f, n) = {}
        /\ Plain(f) /\ f.does = "range" => Meaning(f, n) = Overlap(f, n)
        /\ Plain(f) /\ f.does = "compare" /\ Len(f.args) = 1 => Meaning(f, n) = One
        /\ Plain(f) /\ f.does = "compare" /\ Len(f.args) = 2 => Meaning(f, n) = Two
    BY DEF Meaning
  <2>4. /\ ~Plain(f)' => Meaning(f, n)' = {}
        /\ Plain(f)' /\ f.does = "range" => Meaning(f, n)' = Overlap(f, n)'
        /\ Plain(f)' /\ f.does = "compare" /\ Len(f.args) = 1 => Meaning(f, n)' = One'
        /\ Plain(f)' /\ f.does = "compare" /\ Len(f.args) = 2 => Meaning(f, n)' = Two'
    BY DEF Meaning
  <2>5. Plain(f) => f.does = "range" \/ (f.does = "compare" /\ Len(f.args) \in {1, 2})
    BY DEF IsCondition, Plain
  <2> HIDE DEF A, B, N, One, Two
  <2>6. QED
    BY <2>1, <2>2, <2>3, <2>4, <2>5
<1>13. QED
  BY <1>3, <1>12

-----------------------------------------------------------------------------
(* The inductive invariant *)

IsSeq(s) == \E S : s \in Seq(S)

\* A sequence to which something is added.
LEMMA Added ==
  ASSUME NEW s, IsSeq(s), NEW e
  PROVE  /\ IsSeq(Append(s, e)) /\ Len(s) \in Nat /\ DOMAIN s = 1 .. Len(s) /\ Len(Append(s, e)) = Len(s) + 1
         /\ \A i \in 1 .. Len(s) : Append(s, e)[i] = s[i]
         /\ Append(s, e)[Len(s) + 1] = e
<1>1. PICK S : s \in Seq(S)
  BY DEF IsSeq
<1> DEFINE T == S \cup {e}
<1>2. s \in Seq(T) /\ e \in T
  BY <1>1
<1> HIDE DEF T
<1>3. Append(s, e) \in Seq(T)
  BY <1>2
<1>4. QED
  BY <1>2, <1>3 DEF IsSeq

\* A sequence behind which another one is put.
LEMMA Joined ==
  ASSUME NEW s, IsSeq(s), NEW t, IsSeq(t)
  PROVE  /\ IsSeq(s \o t) /\ Len(s) \in Nat /\ Len(t) \in Nat /\ Len(s \o t) = Len(s) + Len(t)
         /\ \A i \in 1 .. Len(s) : (s \o t)[i] = s[i]
         /\ \A i \in 1 .. Len(t) : (s \o t)[Len(s) + i] = t[i]
<1>1. PICK S, U : s \in Seq(S) /\ t \in Seq(U)
  BY DEF IsSeq
<1> DEFINE T == S \cup U
<1>2. s \in Seq(T) /\ t \in Seq(T)
  BY <1>1
<1> HIDE DEF T
<1>3. s \o t \in Seq(T)
  BY <1>2
<1>4. QED
  BY <1>2, <1>3 DEF IsSeq

\* A function of the numbers up to one is a sequence.
LEMMA Listed ==
  ASSUME NEW n \in Nat, NEW s, s = [i \in 1 .. n |-> s[i]]
  PROVE  IsSeq(s) /\ Len(s) = n /\ DOMAIN s = 1 .. n
<1> DEFINE S == {s[i] : i \in 1 .. n}
<1>1. \A i \in 1 .. n : s[i] \in S
  OBVIOUS
<1> HIDE DEF S
<1>2. s \in Seq(S)
  BY <1>1
<1>3. QED
  BY <1>2 DEF IsSeq

Asked(n, i) == Meaning(Condition(request.tests[i]), n)
IsSent(n) == \E k \in DOMAIN sent : sent[k].row = n
RowRight(n) ==
    /\ IsSent(n) => \A i \in DOMAIN request.tests : Asked(n, i) # {} => TRUE \in Asked(n, i)
    /\ (\A i \in DOMAIN request.tests : Asked(n, i) # {} /\ TRUE \in Asked(n, i)) => IsSent(n)
ColumnRight(k, i) ==
    \A v \in Instance(Column(request.shows[i]), sent[k].row) :
        Says(Column(request.shows[i]), v, ReadArgument(Column(request.shows[i]).kind, sent[k].columns[i]))

\* The clauses are those of the columns, then those of the tests
ClausesRight ==
    /\ IsSeq(clauses) /\ IsSeq(columns)
    /\ row = 0 => /\ Len(columns) <= Len(request.shows) /\ Len(clauses) = Len(columns)
                  /\ \A i \in 1 .. Len(clauses) : clauses[i] = Column(request.shows[i])
    /\ row # 0 => /\ Len(columns) = Len(request.shows) /\ Len(clauses) = Len(request.shows) + Len(request.tests)
                  /\ \A i \in 1 .. Len(request.shows) : clauses[i] = Column(request.shows[i])
                  /\ \A i \in 1 .. Len(request.tests) : clauses[Len(request.shows) + i] = Condition(request.tests[i])
DatesInv ==
    /\ request \in Requests /\ dataset \in Datasets /\ row \in Nat
    /\ ClausesRight
    /\ IsSeq(sent) /\ \A k \in DOMAIN sent : sent[k].row \in 1 .. row - 1
    /\ \A n \in 1 .. row - 1 : RowRight(n)
    /\ \A k \in DOMAIN sent : \A i \in DOMAIN request.shows : ColumnRight(k, i)

\* What is asked for, and of what.
LEMMA Given ==
  ASSUME DatesInv
  PROVE  /\ IsRequest(request) /\ IsDataset(dataset)
         /\ IsSeq(request.shows) /\ IsSeq(request.tests)
         /\ Len(request.shows) \in Nat /\ DOMAIN request.shows = 1 .. Len(request.shows)
         /\ Len(request.tests) \in Nat /\ DOMAIN request.tests = 1 .. Len(request.tests)
         /\ \A i \in DOMAIN request.shows : IsColumn(Column(request.shows[i]))
         /\ \A i \in DOMAIN request.tests : IsCondition(Condition(request.tests[i]))
<1>1. IsRequest(request) /\ IsDataset(dataset)
  BY RequestsAssumption, DatasetsAssumption DEF DatesInv
<1>2. request.shows \in Seq(DOMAIN Projections) /\ request.tests \in Seq(ToSet(request.tests))
  BY <1>1 DEF IsRequest
<1>3. \A i \in DOMAIN request.shows : request.shows[i] \in DOMAIN Projections
  BY <1>2
<1>4. QED
  BY <1>1, <1>2, <1>3, ColumnIs, ConditionIs DEF IsSeq

\* The invariant says what is to be shown.
LEMMA DatesInvImplies ==
  ASSUME DatesInv
  PROVE  DatesRight
<1>1. RowsSelected
  <2>1. SUFFICES ASSUME NEW n \in 1 .. row - 1,
                        NEW meanings \in {[i \in DOMAIN request.tests |-> Asked(n, i)]}
                 PROVE  /\ IsSent(n) => \A i \in {j \in DOMAIN meanings : meanings[j] # {}} : TRUE \in meanings[i]
                        /\ /\ {j \in DOMAIN meanings : meanings[j] # {}} = DOMAIN meanings
                           /\ \A i \in {j \in DOMAIN meanings : meanings[j] # {}} : TRUE \in meanings[i]
                           => IsSent(n)
    BY DEF RowsSelected, Asked, IsSent
  <2>2. RowRight(n)
    BY DEF DatesInv
  <2>3. DOMAIN meanings = DOMAIN request.tests /\ \A i \in DOMAIN request.tests : meanings[i] = Asked(n, i)
    OBVIOUS
  <2>4. QED
    BY <2>2, <2>3 DEF RowRight
<1>2. ColumnsRight
  BY DEF ColumnsRight, DatesInv, ColumnRight
<1>3. QED
  BY <1>1, <1>2 DEF DatesRight

\* Before anything is parsed nothing is sent.
LEMMA DatesInvInit ==
  ASSUME DatesInit
  PROVE  DatesInv
<1>1. request \in Requests /\ dataset \in Datasets /\ row = 0 /\ clauses = <<>> /\ columns = <<>> /\ sent = <<>>
  BY DEF DatesInit
<1>2. IsSeq(<<>>) /\ Len(<<>>) = 0 /\ DOMAIN <<>> = {} /\ 1 .. 0 = {}
  BY DEF IsSeq
<1>3. Len(request.shows) \in Nat
  BY <1>1, RequestsAssumption DEF IsRequest
<1>4. 1 .. row - 1 = {}
  BY <1>1
<1>5. ClausesRight
  BY <1>1, <1>2, <1>3 DEF ClausesRight
<1>6. QED
  BY <1>1, <1>2, <1>4, <1>5 DEF DatesInv

-----------------------------------------------------------------------------
(* Every step keeps it *)

\* What is said of the rows that were read does not change while the rows that
\* are sent, the constraint and the dataset do not.
LEMMA Unread ==
  ASSUME DatesInv, UNCHANGED <<request, dataset, sent>>
  PROVE  /\ request' \in Requests /\ dataset' \in Datasets
         /\ IsSeq(sent') /\ \A k \in DOMAIN sent' : sent'[k].row \in 1 .. row - 1
         /\ \A n \in 1 .. row - 1 : RowRight(n)'
         /\ \A k \in DOMAIN sent' : \A i \in DOMAIN request'.shows : ColumnRight(k, i)'
<1>1. \A n : \A i \in DOMAIN request.tests : Asked(n, i)' = Asked(n, i)
  BY Given, SameData DEF Asked
<1>2. \A n : IsSent(n)' <=> IsSent(n)
  BY DEF IsSent
<1>3. \A n \in 1 .. row - 1 : RowRight(n)'
  <2>1. SUFFICES ASSUME NEW n \in 1 .. row - 1 PROVE RowRight(n)'
    OBVIOUS
  <2>2. RowRight(n)
    BY DEF DatesInv
  <2>3. QED
    BY <1>1, <1>2, <2>2 DEF RowRight
<1>4. \A k, i : ColumnRight(k, i) => ColumnRight(k, i)'
  BY SameData DEF ColumnRight
<1>5. QED
  BY <1>3, <1>4 DEF DatesInv

\* A column is added, with the clause that fills it.
LEMMA ProjectKeeps ==
  ASSUME DatesInv, Project
  PROVE  DatesInv'
<1> DEFINE n == Len(columns)
           e == [date |-> NoDate, time |-> <<>>]
           c == Column(request.shows[n + 1])
<1>1. /\ row = 0 /\ n < Len(request.shows) /\ columns' = Append(columns, e) /\ clauses' = Append(clauses, c)
      /\ UNCHANGED <<request, dataset, sent>> /\ row' = row
  BY DEF Project
<1>2. /\ IsSeq(clauses) /\ IsSeq(columns) /\ Len(clauses) = Len(columns)
      /\ \A i \in 1 .. Len(clauses) : clauses[i] = Column(request.shows[i])
  BY <1>1 DEF DatesInv, ClausesRight
<1> HIDE DEF e
<1>3. /\ IsSeq(columns') /\ Len(columns') = n + 1 /\ n \in Nat
  BY <1>1, <1>2, Added
<1>4. /\ IsSeq(clauses') /\ Len(clauses') = n + 1
      /\ \A i \in 1 .. n : clauses'[i] = clauses[i]
      /\ clauses'[n + 1] = c
  BY <1>1, <1>2, Added
<1>5. \A i \in 1 .. n + 1 : clauses'[i] = Column(request.shows[i])
  <2>1. SUFFICES ASSUME NEW i \in 1 .. n + 1 PROVE clauses'[i] = Column(request.shows[i])
    OBVIOUS
  <2>2. i \in 1 .. n \/ i = n + 1
    BY <1>3
  <2>3. QED
    BY <1>2, <1>4, <2>2
<1>6. ClausesRight'
  BY <1>1, <1>3, <1>4, <1>5, Given DEF ClausesRight
<1>7. QED
  BY <1>1, <1>6, Unread DEF DatesInv

\* The constraint is parsed: its tests follow the columns.
LEMMA ParsedKeeps ==
  ASSUME DatesInv, Parsed
  PROVE  DatesInv'
<1> DEFINE p == Len(request.shows)
           q == Len(request.tests)
           t == [i \in DOMAIN request.tests |-> Condition(request.tests[i])]
<1>1. /\ row = 0 /\ Len(columns) = p /\ clauses' = clauses \o t /\ row' = 1
      /\ UNCHANGED <<request, dataset, columns, sent>>
  BY DEF Parsed
<1>2. /\ IsSeq(clauses) /\ IsSeq(columns) /\ Len(clauses) = p
      /\ \A i \in 1 .. p : clauses[i] = Column(request.shows[i])
  BY <1>1 DEF DatesInv, ClausesRight
<1>3. p \in Nat /\ q \in Nat /\ DOMAIN request.tests = 1 .. q
  BY Given
<1>4. t = [i \in 1 .. q |-> t[i]] /\ \A i \in 1 .. q : t[i] = Condition(request.tests[i])
  BY <1>3
<1> HIDE DEF t
<1>5. IsSeq(t) /\ Len(t) = q
  BY <1>3, <1>4, Listed
<1>6. /\ IsSeq(clauses') /\ Len(clauses') = p + q
      /\ \A i \in 1 .. p : clauses'[i] = clauses[i]
      /\ \A i \in 1 .. q : clauses'[p + i] = t[i]
  <2>1. /\ IsSeq(clauses \o t) /\ Len(clauses \o t) = Len(clauses) + Len(t)
        /\ \A i \in 1 .. Len(clauses) : (clauses \o t)[i] = clauses[i]
        /\ \A i \in 1 .. Len(t) : (clauses \o t)[Len(clauses) + i] = t[i]
    <3>1. IsSeq(clauses) /\ IsSeq(t)
      BY <1>2, <1>5
    <3>2. QED
      BY <3>1, Joined
  <2>2. QED
    BY <1>1, <1>2, <1>5, <2>1, Zenon
<1>7. ClausesRight'
  <2>1. request' = request /\ columns' = columns /\ row' # 0
    BY <1>1
  <2>2. \A i \in 1 .. p : clauses'[i] = Column(request.shows[i])
    BY <1>2, <1>6
  <2>3. \A i \in 1 .. q : clauses'[p + i] = Condition(request.tests[i])
    BY <1>4, <1>6
  <2>4. QED
    BY <1>1, <1>2, <1>6, <2>1, <2>2, <2>3 DEF ClausesRight
<1>8. 1 .. row - 1 = {} /\ 1 .. row' - 1 = {} /\ row' \in Nat
  BY <1>1
<1>9. QED
  BY <1>1, <1>7, <1>8, Unread DEF DatesInv

\* The clause of a column never says no.
LEMMA ColumnsSayYes ==
  ASSUME NEW f, IsColumn(f)
  PROVE  FALSE \notin Test(f)
<1>1. f.does = "show"
  BY DEF IsColumn
<1>2. Test(f) = IF Instance(f, row) = {} THEN {} ELSE {TRUE}
  BY <1>1 DEF Test
<1>3. QED
  BY <1>2

\* The clauses of a constraint that is parsed stay what they are.
LEMMA ClausesKept ==
  ASSUME DatesInv, row # 0, request' = request, clauses' = clauses, row' # 0,
         IsSeq(columns'), Len(columns') = Len(columns)
  PROVE  ClausesRight'
<1>1. /\ IsSeq(clauses) /\ Len(columns) = Len(request.shows) /\ Len(clauses) = Len(request.shows) + Len(request.tests)
      /\ \A j \in 1 .. Len(request.shows) : clauses[j] = Column(request.shows[j])
      /\ \A j \in 1 .. Len(request.tests) : clauses[Len(request.shows) + j] = Condition(request.tests[j])
  BY DEF DatesInv, ClausesRight
<1>2. IsSeq(clauses') /\ Len(columns') = Len(request'.shows) /\ Len(clauses') = Len(request'.shows) + Len(request'.tests)
  BY <1>1
<1>3. \A j \in 1 .. Len(request'.shows) : clauses'[j] = Column(request'.shows[j])
  BY <1>1
<1>4. \A j \in 1 .. Len(request'.tests) : clauses'[Len(request'.shows) + j] = Condition(request'.tests[j])
  BY <1>1
<1>5. QED
  BY <1>2, <1>3, <1>4 DEF ClausesRight

\* A row that is not sent: a test said no.
LEMMA RowLeftOut ==
  ASSUME DatesInv, row \in DOMAIN dataset.rows, UNCHANGED <<request, dataset, clauses, sent>>, row' = row + 1,
         IsSeq(columns'), Len(columns') = Len(columns),
         NEW i \in DOMAIN clauses, FALSE \in Test(clauses[i])
  PROVE  DatesInv'
<1> DEFINE p == Len(request.shows)
           q == Len(request.tests)
<1>1. IsRequest(request) /\ IsDataset(dataset) /\ p \in Nat /\ q \in Nat /\ DOMAIN request.shows = 1 .. p /\ DOMAIN request.tests = 1 .. q
  BY Given
<1>2. row \in Nat /\ row # 0
  <2>1. row \in Nat
    BY DEF DatesInv
  <2>2. dataset.rows \in Seq(ToSet(dataset.rows))
    BY <1>1 DEF IsDataset
  <2>3. QED
    BY <2>1, <2>2
<1>3. /\ IsSeq(clauses) /\ Len(columns) = p /\ Len(clauses) = p + q
      /\ \A j \in 1 .. p : clauses[j] = Column(request.shows[j])
      /\ \A j \in 1 .. q : clauses[p + j] = Condition(request.tests[j])
  BY <1>2 DEF DatesInv, ClausesRight
<1>4. DOMAIN clauses = 1 .. p + q
  BY <1>1, <1>3, Added
<1>5. i \notin 1 .. p
  BY <1>1, <1>3, ColumnsSayYes, Given
<1>6. PICK j \in 1 .. q : i = p + j
  <2>1. i \in 1 .. p + q
    BY <1>4
  <2> HIDE DEF p, q
  <2>2. i - p \in 1 .. q /\ i = p + (i - p)
    BY <1>1, <1>5, <2>1
  <2>3. QED
    BY <2>2
<1>7. PICK n : n = row
  OBVIOUS
<1>8. TRUE \notin Asked(n, j)
  <2>1. FALSE \in Test(Condition(request.tests[j]))
    <3>1. clauses[p + j] = Condition(request.tests[j])
      BY <1>3
    <3>2. clauses[i] = Condition(request.tests[j])
      BY <1>6, <3>1
    <3>3. QED
      BY <3>2, Zenon
  <2>2. QED
    BY <1>1, <1>7, <2>1, Agree, Given DEF Asked
<1>9. ~IsSent(n)
  BY <1>2, <1>7 DEF IsSent, DatesInv
<1>10. RowRight(n)'
  <2>1. Asked(n, j)' = Asked(n, j)
    BY <1>1, SameData, Given DEF Asked
  <2>2. ~IsSent(n)'
    BY <1>9 DEF IsSent
  <2>3. j \in DOMAIN request'.tests
    BY <1>1
  <2>4. QED
    BY <1>8, <2>1, <2>2, <2>3 DEF RowRight
<1>11. ClausesRight'
  <2>1. row' # 0
    BY <1>2
  <2>2. QED
    BY <1>2, <2>1, ClausesKept
<1>12. n \in Nat /\ n # 0 /\ row' = n + 1 /\ 1 .. row' - 1 = (1 .. row - 1) \cup {n} /\ row' \in Nat
  BY <1>2, <1>7
<1>13. QED
  BY <1>10, <1>11, <1>12, Unread DEF DatesInv

\* A row that is sent: every clause said yes.
LEMMA RowSent ==
  ASSUME DatesInv, row \in DOMAIN dataset.rows, UNCHANGED <<request, dataset, clauses>>, row' = row + 1,
         IsSeq(columns'), Len(columns') = Len(columns), sent' = Append(sent, [row |-> row, columns |-> columns']),
         \A i \in DOMAIN columns : columns'[i] = Shown(clauses[i]),
         \A i \in DOMAIN clauses : TRUE \in Test(clauses[i])
  PROVE  DatesInv'
<1> DEFINE p == Len(request.shows)
           q == Len(request.tests)
           last == Len(sent) + 1
<1>1. IsRequest(request) /\ IsDataset(dataset) /\ p \in Nat /\ q \in Nat /\ DOMAIN request.shows = 1 .. p /\ DOMAIN request.tests = 1 .. q
  BY Given
<1>2. row \in Nat /\ row # 0
  <2>1. row \in Nat
    BY DEF DatesInv
  <2>2. dataset.rows \in Seq(ToSet(dataset.rows))
    BY <1>1 DEF IsDataset
  <2>3. QED
    BY <2>1, <2>2
<1>3. /\ IsSeq(clauses) /\ IsSeq(columns) /\ Len(columns) = p /\ Len(clauses) = p + q
      /\ \A j \in 1 .. p : clauses[j] = Column(request.shows[j])
      /\ \A j \in 1 .. q : clauses[p + j] = Condition(request.tests[j])
  BY <1>2 DEF DatesInv, ClausesRight
<1>4. DOMAIN clauses = 1 .. p + q /\ DOMAIN columns = 1 .. p
  BY <1>1, <1>3, Added
<1>5. PICK n : n = row
  OBVIOUS
<1>6. /\ IsSeq(sent') /\ Len(sent) \in Nat /\ DOMAIN sent = 1 .. Len(sent) /\ Len(sent') = last
      /\ \A k \in 1 .. Len(sent) : sent'[k] = sent[k]
      /\ sent'[last] = [row |-> row, columns |-> columns']
  BY Added DEF DatesInv
<1>7. DOMAIN sent' = 1 .. last /\ DOMAIN sent' = (DOMAIN sent) \cup {last}
  <2>1. DOMAIN sent' = 1 .. Len(sent')
    BY <1>6, Added
  <2>2. QED
    BY <1>6, <2>1
<1>8. /\ \A k \in DOMAIN sent : sent'[k] = sent[k]
      /\ sent'[last].row = n /\ sent'[last].columns = columns'
  BY <1>5, <1>6
<1> HIDE DEF last
<1>9. \A m : IsSent(m)' <=> (IsSent(m) \/ m = n)
  BY <1>7, <1>8 DEF IsSent
<1>10. \A m : \A i \in DOMAIN request.tests : Asked(m, i)' = Asked(m, i)
  BY SameData, Given DEF Asked
<1>11. \A i \in DOMAIN request.tests : Asked(n, i) # {} => TRUE \in Asked(n, i)
  <2>1. SUFFICES ASSUME NEW i \in 1 .. q, Asked(n, i) # {} PROVE TRUE \in Asked(n, i)
    BY <1>1
  <2>2. p + i \in 1 .. p + q
    <3> HIDE DEF p, q
    <3>1. QED
      BY <1>1
  <2>3. TRUE \in Test(clauses[p + i])
    BY <1>4, <2>2
  <2>4. clauses[p + i] = Condition(request.tests[i])
    BY <1>3
  <2>5. TRUE \in Test(Condition(request.tests[i]))
    BY <2>3, <2>4, Zenon
  <2>6. QED
    BY <1>1, <1>5, <2>1, <2>5, Agree, Given DEF Asked
<1>12. ASSUME NEW m \in 1 .. row PROVE RowRight(m)'
  <2>1. CASE m = n
    BY <1>9, <1>10, <1>11, <2>1 DEF RowRight
  <2>2. CASE m # n
    <3>1. m \in 1 .. row - 1
      BY <1>2, <1>5, <2>2
    <3>2. RowRight(m)
      BY <3>1 DEF DatesInv
    <3>3. QED
      BY <1>9, <1>10, <2>2, <3>2 DEF RowRight
  <2>3. QED
    BY <2>1, <2>2
<1>13. ASSUME NEW k \in DOMAIN sent', NEW i \in DOMAIN request.shows PROVE ColumnRight(k, i)'
  <2>1. CASE k \in DOMAIN sent
    <3>1. ColumnRight(k, i)
      BY <2>1 DEF DatesInv
    <3>2. QED
      BY <1>8, <2>1, <3>1, SameData DEF ColumnRight
  <2>2. CASE k = last
    <3>1. PICK f : f = Column(request.shows[i])
      OBVIOUS
    <3>2. columns'[i] = Shown(f)
      BY <1>1, <1>3, <1>4, <3>1
    <3>3. IsColumn(f)
      BY <3>1, Given
    <3>4. \A v \in Instance(f, row) : Says(f, v, ReadArgument(f.kind, columns'[i]))
      BY <1>1, <3>2, <3>3, ShownSays
    <3>5. Instance(f, n)' = Instance(f, row)
      BY <1>5, SameData
    <3>6. sent'[k].row = n /\ sent'[k].columns[i] = columns'[i]
      BY <1>8, <2>2
    <3>7. \A v \in Instance(f, n)' : Says(f, v, ReadArgument(f.kind, sent'[k].columns[i]))
      BY <3>4, <3>5, <3>6
    <3>8. f = Column(request'.shows[i])
      BY <3>1
    <3>9. Instance(Column(request.shows[i]), sent[k].row)' = Instance(f, n)'
      BY <3>6, <3>8
    <3>10. QED
      BY <3>7, <3>8, <3>9 DEF ColumnRight
  <2>3. QED
    BY <1>7, <2>1, <2>2
<1>14. ClausesRight'
  <2>1. row' # 0
    BY <1>2
  <2>2. QED
    BY <1>2, <2>1, ClausesKept
<1>15. row' \in Nat /\ row' - 1 = row /\ n \in 1 .. row' - 1 /\ 1 .. row - 1 \subseteq 1 .. row' - 1
  BY <1>2, <1>5
<1>16. \A k \in DOMAIN sent' : sent'[k].row \in 1 .. row' - 1
  BY <1>7, <1>8, <1>15 DEF DatesInv
<1>17. QED
  BY <1>6, <1>12, <1>13, <1>14, <1>15, <1>16 DEF DatesInv

\* A row that is read: the clauses are asked in turn.
LEMMA ReadRowKeeps ==
  ASSUME DatesInv, ReadRow
  PROVE  DatesInv'
<1> DEFINE asked == [i \in DOMAIN clauses |-> Test(clauses[i])]
           stops == {i \in DOMAIN clauses : TRUE \notin asked[i]}
           first == IF stops = {} THEN Len(clauses) + 1 ELSE CHOOSE i \in stops : \A j \in stops : i <= j
           shown == [i \in DOMAIN columns |-> IF i < first THEN Shown(clauses[i]) ELSE columns[i]]
<1>0. \/ UNCHANGED <<row, columns, sent>>
      \/ /\ first > Len(clauses)
         /\ columns' = shown /\ sent' = Append(sent, [row |-> row, columns |-> shown]) /\ row' = row + 1
      \/ /\ \E i \in DOMAIN clauses : FALSE \in asked[i]
         /\ columns' = shown /\ row' = row + 1 /\ sent' = sent
  BY Zenon DEF ReadRow
<1>1. /\ asked = [i \in DOMAIN clauses |-> Test(clauses[i])]
      /\ stops = {i \in DOMAIN clauses : TRUE \notin asked[i]}
      /\ first = IF stops = {} THEN Len(clauses) + 1 ELSE CHOOSE i \in stops : \A j \in stops : i <= j
      /\ shown = [i \in DOMAIN columns |-> IF i < first THEN Shown(clauses[i]) ELSE columns[i]]
  OBVIOUS
<1> HIDE DEF asked, stops, first, shown
<1>2. row \in 1 .. Len(dataset.rows) /\ UNCHANGED <<request, dataset, clauses>>
  BY DEF ReadRow
<1>3. row \in DOMAIN dataset.rows /\ row \in Nat /\ row # 0
  <2>1. dataset.rows \in Seq(ToSet(dataset.rows))
    BY Given DEF IsDataset
  <2>2. QED
    BY <1>2, <2>1
<1>4. IsSeq(clauses) /\ IsSeq(columns) /\ Len(columns) = Len(request.shows) /\ Len(clauses) = Len(request.shows) + Len(request.tests)
  BY <1>3 DEF DatesInv, ClausesRight
<1>5. /\ Len(columns) \in Nat /\ Len(clauses) \in Nat /\ Len(columns) <= Len(clauses)
      /\ DOMAIN columns = 1 .. Len(columns) /\ DOMAIN clauses = 1 .. Len(clauses)
  <2>1. /\ Len(columns) \in Nat /\ Len(clauses) \in Nat
        /\ DOMAIN columns = 1 .. Len(columns) /\ DOMAIN clauses = 1 .. Len(clauses)
    BY <1>4, Added
  <2>2. Len(request.shows) \in Nat /\ Len(request.tests) \in Nat
    BY Given
  <2>3. \A p, q \in Nat : p <= p + q
    OBVIOUS
  <2>4. Len(request.shows) <= Len(request.shows) + Len(request.tests)
    BY <2>2, <2>3, Zenon
  <2>5. Len(columns) <= Len(clauses)
    BY <1>4, <2>4, Zenon
  <2>6. QED
    BY <2>1, <2>5, Zenon
<1>6. IsSeq(shown) /\ Len(shown) = Len(columns)
  <2>1. shown = [i \in DOMAIN columns |-> shown[i]]
    <3>1. shown = [i \in DOMAIN columns |-> IF i < first THEN Shown(clauses[i]) ELSE columns[i]]
      BY <1>1, Zenon
    <3>2. QED
      BY <3>1, Zenon
  <2>2. shown = [i \in 1 .. Len(columns) |-> shown[i]]
    BY <1>5, <2>1
  <2>3. QED
    BY <1>5, <2>2, Listed
<1>7. CASE UNCHANGED <<row, columns, sent>>
  <2>1. row' # 0 /\ IsSeq(columns') /\ Len(columns') = Len(columns) /\ row' \in Nat /\ row' - 1 = row - 1
    BY <1>3, <1>4, <1>7
  <2>2. ClausesRight'
    BY <1>2, <1>3, <2>1, ClausesKept
  <2>3. QED
    BY <1>2, <1>7, <2>1, <2>2, Unread DEF DatesInv
<1>8. CASE /\ first > Len(clauses)
           /\ columns' = shown /\ sent' = Append(sent, [row |-> row, columns |-> shown]) /\ row' = row + 1
  <2>1. stops = {}
    <3>1. SUFFICES ASSUME stops # {} PROVE FALSE
      OBVIOUS
    <3>2. stops \in SUBSET Nat /\ stops \subseteq 1 .. Len(clauses)
      <4>1. stops \subseteq DOMAIN clauses
        BY <1>1, Zenon
      <4>2. QED
        BY <1>5, <4>1
    <3>3. first \in stops
      BY <1>1, <3>1, <3>2, Least
    <3>4. QED
      BY <1>5, <1>8, <3>2, <3>3
  <2>2. \A i \in DOMAIN clauses : TRUE \in Test(clauses[i])
    BY <1>1, <2>1
  <2>3. \A i \in DOMAIN columns : columns'[i] = Shown(clauses[i])
    <3>1. first = Len(clauses) + 1
      BY <1>1, <2>1
    <3>2. \A i \in DOMAIN columns : i < first
      BY <1>5, <3>1
    <3>3. QED
      BY <1>1, <1>8, <3>2
  <2>4. IsSeq(columns') /\ Len(columns') = Len(columns) /\ sent' = Append(sent, [row |-> row, columns |-> columns'])
    BY <1>6, <1>8
  <2>5. QED
    BY <1>2, <1>3, <1>8, <2>2, <2>3, <2>4, RowSent
<1>9. CASE /\ \E i \in DOMAIN clauses : FALSE \in asked[i]
           /\ columns' = shown /\ row' = row + 1 /\ sent' = sent
  <2>1. PICK i \in DOMAIN clauses : FALSE \in Test(clauses[i])
    BY <1>1, <1>9
  <2>2. IsSeq(columns') /\ Len(columns') = Len(columns)
    BY <1>6, <1>9
  <2>3. QED
    BY <1>2, <1>3, <1>9, <2>1, <2>2, RowLeftOut
<1>10. QED
  BY <1>0, <1>7, <1>8, <1>9

\* A step that changes nothing.
LEMMA StutterKeeps ==
  ASSUME DatesInv, UNCHANGED dateVars
  PROVE  DatesInv'
<1>1. UNCHANGED <<request, dataset, clauses, row, columns, sent>>
  BY DEF dateVars
<1>2. row' \in Nat /\ row' - 1 = row - 1
  BY <1>1 DEF DatesInv
<1>3. ClausesRight'
  BY <1>1 DEF DatesInv, ClausesRight
<1>4. QED
  BY <1>1, <1>2, <1>3, Unread DEF DatesInv

\* For every dataset and every constraint on its dates and times: a row that has
\* been read is sent if, and only if, it is at the moment or in the period that
\* each function of the constraint names, and the columns the constraint adds say
\* the moment of the row they are sent with (ff_ce_functions.cc, DODS_Date.cc,
\* DODS_Time.cc, DODS_Date_Time.cc, date_proc.cc).
THEOREM DatesAreRight == DatesSpec => []DatesRight
<1>1. DatesInit => DatesInv
  BY DatesInvInit
<1>2. DatesInv /\ [DatesNext]_dateVars => DatesInv'
  BY ProjectKeeps, ParsedKeeps, ReadRowKeeps, StutterKeeps DEF DatesNext
<1>3. DatesInv => DatesRight
  BY DatesInvImplies
<1>4. QED
  BY <1>1, <1>2, <1>3, PTL DEF DatesSpec
=============================================================================
