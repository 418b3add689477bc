-------------------------- MODULE Reorient_proofs ---------------------------
(* Theorems about Reorient for arrays of any number of dimensions, any sizes  *)
(* and any sequence of buffers.  Before them, what NdArray's descriptors,     *)
(* offsets and mappings are for any arrays: an index is mapped inside the     *)
(* super-array, and counting an index up moves the offset by what lies        *)
(* between the elements.                                                      *)
EXTENDS Reorient, Sums_proofs

-----------------------------------------------------------------------------
(* Numbers *)

\* The quotient is the largest number that fits
LEMMA Quotient ==
  ASSUME NEW a \in Nat, NEW b \in Nat \ {0}
  PROVE  /\ a \div b \in Nat
         /\ (a \div b) * b <= a
         /\ \A c \in Nat : c * b <= a => c <= a \div b
<1>1. a \div b \in Nat /\ (a \div b) * b <= a /\ a < (a \div b) * b + b
  BY SMTT(30)
<1>2. ASSUME NEW c \in Nat, c * b <= a, ~ (c <= a \div b)
      PROVE  FALSE
  <2> DEFINE q == a \div b
  <2>1. q \in Nat /\ a < q * b + b /\ c >= q + 1
    BY <1>1, <1>2
  <2> HIDE DEF q
  <2>2. c * b >= (q + 1) * b
    BY <2>1, SMTT(30)
  <2>3. (q + 1) * b = q * b + b
    BY <2>1, SMTT(30)
  <2>4. c * b \in Nat /\ q * b \in Nat
    BY <2>1, SMTT(30)
  <2>5. QED
    BY <1>2, <2>1, <2>2, <2>3, <2>4
<1>3. QED
  BY <1>1, <1>2

-----------------------------------------------------------------------------
(* Mappings *)

LEMMA DimMappingTyped ==
  ASSUME NEW sub, NEW super, DescriptorSpace(super), Mappable(sub, super),
         NEW i \in Dims(sub)
  PROVE  /\ DimMapping(sub, super, i) \in Dims(super)
         /\ sub.name[i] = super.name[DimMapping(sub, super, i)]
<1> DEFINE T == {j \in Dims(super) : sub.name[i] = super.name[j]}
<1>1. NumDim(super) \in Nat
  BY DEF DescriptorSpace, NumDim
<1>2. T \in SUBSET Nat /\ T # {}
  BY <1>1 DEF Mappable, Dims
<1>3. PICK n \in T : \A m \in T : n <= m
  <2> HIDE DEF T
  <2>1. QED
    BY <1>2, Least
<1>4. \A h \in 1 .. n - 1 : sub.name[i] # super.name[h]
  <2>1. ASSUME NEW h \in 1 .. n - 1, sub.name[i] = super.name[h]
        PROVE  FALSE
    <3>1. h \in T /\ h < n
      BY <1>1, <1>2, <1>3, <2>1 DEF Dims
    <3>2. QED
      BY <1>2, <1>3, <3>1
  <2>2. QED
    BY <2>1
<1>5. QED
  BY <1>3, <1>4 DEF DimMapping

\* How far the element lies from the sub-array's start, counted in elements of
\* the super-array.
LEMMA Steps ==
  ASSUME NEW G \in Nat \ {0}, NEW g \in Nat \ {0},
         G % g = 0 \/ g % G = 0, NEW k \in Nat
  PROVE  LET gm == IF G > g THEN G \div g ELSE 1
             gd == IF G < g THEN g \div G ELSE 1
             t == (k * gm) \div gd
         IN  t \in Nat /\ t * g <= k * G
<1> DEFINE gm == IF G > g THEN G \div g ELSE 1
           gd == IF G < g THEN g \div G ELSE 1
           t == (k * gm) \div gd
<1>1. CASE G > g
  <2> DEFINE q == G \div g
  <2>1. G % g = 0
    BY <1>1, SMTT(30)
  <2>2. q \in Nat /\ G = q * g
    BY <2>1, SMTT(30)
  <2>3. gm = q /\ gd = 1
    BY <1>1
  <2> HIDE DEF q
  <2>4. k * q \in Nat /\ t = k * q
    BY <2>2, <2>3, SMTT(30)
  <2>5. (k * q) * g = k * (q * g)
    BY <2>2, SMTT(30)
  <2>6. k * G \in Nat
    BY SMTT(30)
  <2>7. t \in Nat /\ t * g <= k * G
    BY <2>2, <2>4, <2>5, <2>6
  <2>8. QED
    BY <2>7
<1>2. CASE G = g
  <2>1. gm = 1 /\ gd = 1
    BY <1>2
  <2>2. t = k
    BY <2>1
  <2>3. k * G \in Nat
    BY SMTT(30)
  <2>4. QED
    BY <1>2, <2>2, <2>3
<1>3. CASE G < g
  <2> DEFINE d == g \div G
  <2>1. g % G = 0
    BY <1>3, SMTT(30)
  <2>2. d \in Nat /\ g = d * G
    BY <2>1, SMTT(30)
  <2>3. d # 0
    BY <2>2
  <2>4. gm = 1 /\ gd = d
    BY <1>3
  <2> HIDE DEF d
  <2>5. t = k \div d
    BY <2>2, <2>4
  <2>6. t \in Nat /\ t * d <= k
    BY <2>2, <2>3, <2>5, Quotient
  <2> HIDE DEF t
  <2>7. (t * d) * G <= k * G
    BY <2>2, <2>6, SMTT(30)
  <2>8. t * (d * G) = (t * d) * G
    BY <2>2, <2>6, SMTT(30)
  <2>9. QED
    BY <2>2, <2>6, <2>7, <2>8 DEF t
<1>4. QED
  BY <1>1, <1>2, <1>3

\* A sub-array that begins and ends inside the super-array lies inside it.
LEMMA Extent ==
  ASSUME NEW s1 \in Int, NEW e1 \in Int, NEW s0 \in Int, NEW e0 \in Int,
         Between(s1, s0, e0), Between(e1, s0, e0)
  PROVE  LET Dir(s, e) == IF e < s THEN -1 ELSE 1 IN
         /\ Dir(s1, e1) * Dir(s0, e0) \in {1, -1}
         /\ Dir(s1, e1) * Dir(s0, e0) = 1 =>
              Distance(s1, s0) + Distance(s1, e1) <= Distance(s0, e0)
         /\ Dir(s1, e1) * Dir(s0, e0) = -1 =>
              /\ Distance(s1, e1) <= Distance(s1, s0)
              /\ Distance(s1, s0) <= Distance(s0, e0)
  BY DEF Between, Distance

\* The element a mapping finds exists: its index is in the super-array.
LEMMA MappedInSuper ==
  ASSUME NEW sub, NEW super, DescriptorSpace(sub), DescriptorSpace(super),
         Mappable(sub, super), NEW i \in Dims(sub),
         NEW k, k[i] \in Nat, k[i] < DimSize(sub, i)
  PROVE  MappedIndex(sub, super, k, i)
           \in 0 .. DimSize(super, DimMapping(sub, super, i)) - 1
<1> DEFINE j == DimMapping(sub, super, i)
           s1 == sub.start[i]   e1 == sub.end[i]   G == sub.gran[i]
           s0 == super.start[j] e0 == super.end[j] g == super.gran[j]
           D1 == Distance(s1, e1)  D0 == Distance(s0, e0)  D == Distance(s1, s0)
           first == D \div g
           t == (k[i] * GranMapping(sub, super, i)) \div GranDivMapping(sub, super, i)
<1>1. j \in Dims(super)
  BY DimMappingTyped
<1>2. /\ s1 \in Int /\ e1 \in Int /\ G \in Nat \ {0}
      /\ s0 \in Int /\ e0 \in Int /\ g \in Nat \ {0}
  BY <1>1 DEF DescriptorSpace, Dims, NumDim
<1>3. /\ Between(s1, s0, e0) /\ Between(e1, s0, e0)
      /\ G % g = 0 \/ g % G = 0
  BY DEF Mappable
<1>4. t \in Nat /\ t * g <= k[i] * G
  BY <1>2, <1>3, Steps DEF GranMapping, GranDivMapping
<1>5. D1 \in Nat /\ D0 \in Nat /\ D \in Nat
  BY <1>2 DEF Distance
<1>6. DimSize(sub, i) = D1 \div G + 1 /\ DimSize(super, j) = D0 \div g + 1
  BY DEF DimSize
<1>7. first \in Nat /\ first * g <= D
  BY <1>2, <1>5, Quotient
<1>8. /\ MapDir(sub, super, i) \in {1, -1}
      /\ MapDir(sub, super, i) = 1 => D + D1 <= D0
      /\ MapDir(sub, super, i) = -1 => D1 <= D /\ D <= D0
  BY <1>2, <1>3, Extent DEF MapDir, IndexDir
<1>9. MappedIndex(sub, super, k, i) = first + MapDir(sub, super, i) * t
  BY DEF MappedIndex, IndexMapping
<1> HIDE DEF j, s1, e1, G, s0, e0, g, D1, D0, D, first, t
<1>10. k[i] * G <= D1
  <2>1. D1 \div G \in Nat /\ (D1 \div G) * G <= D1
    BY <1>2, <1>5, Quotient
  <2>2. k[i] <= D1 \div G
    BY <1>6, <2>1
  <2>3. k[i] * G <= (D1 \div G) * G
    BY <1>2, <2>1, <2>2, SMTT(30)
  <2>4. k[i] * G \in Nat /\ (D1 \div G) * G \in Nat
    BY <1>2, <2>1, SMTT(30)
  <2>5. QED
    BY <1>5, <2>1, <2>3, <2>4
<1>11. k[i] * G \in Nat /\ t * g \in Nat /\ first * g \in Nat
  BY <1>2, <1>4, <1>7, SMTT(30)
<1>12. t * g <= D1
  BY <1>4, <1>5, <1>10, <1>11
<1>13. CASE MapDir(sub, super, i) = 1
  <2>1. (first + t) * g = first * g + t * g
    BY <1>2, <1>4, <1>7, SMTT(30)
  <2>2. (first + t) * g <= D0
    BY <1>5, <1>7, <1>8, <1>11, <1>12, <1>13, <2>1
  <2>3. first + t <= D0 \div g /\ D0 \div g \in Nat
    <3>1. first + t \in Nat
      BY <1>4, <1>7
    <3>2. D0 \div g \in Nat /\ \A c \in Nat : c * g <= D0 => c <= D0 \div g
      BY <1>2, <1>5, Quotient
    <3>3. QED
      BY <2>2, <3>1, <3>2
  <2>4. QED
    BY <1>4, <1>6, <1>7, <1>9, <1>13, <2>3 DEF j
<1>14. CASE MapDir(sub, super, i) = -1
  <2>1. t <= first
    <3>1. t * g <= D
      BY <1>5, <1>8, <1>11, <1>12, <1>14
    <3>2. QED
      BY <1>2, <1>4, <1>5, <3>1, Quotient DEF first
  <2>2. first <= D0 \div g /\ D0 \div g \in Nat
    <3>1. first * g <= D0
      BY <1>5, <1>7, <1>8, <1>11, <1>14
    <3>2. QED
      BY <1>2, <1>5, <1>7, <3>1, Quotient
  <2>3. QED
    BY <1>4, <1>6, <1>7, <1>9, <1>14, <2>1, <2>2 DEF j
<1>15. QED
  BY <1>8, <1>13, <1>14 DEF j
-----------------------------------------------------------------------------
(* The indices of a mapping *)

LEMMA DimSizePositive ==
  ASSUME NEW a, DescriptorSpace(a), NEW i \in Dims(a)
  PROVE  DimSize(a, i) \in Nat \ {0}
<1>1. Distance(a.start[i], a.end[i]) \in Nat /\ a.gran[i] \in Nat \ {0}
  BY DEF DescriptorSpace, Dims, NumDim, Distance
<1>2. Distance(a.start[i], a.end[i]) \div a.gran[i] \in Nat
  BY <1>1, Quotient
<1>3. QED
  BY <1>2 DEF DimSize

LEMMA Remainder ==
  ASSUME NEW n \in Nat, NEW m \in Nat \ {0}
  PROVE  n % m \in Nat /\ n % m < m
  BY SMTT(30)

-----------------------------------------------------------------------------
(* The bytes from one element of a dimension to the next                      *)

\* What one element of dimension i is made of; of dimension 0, the whole array
Content(a, i) ==
    IF i = NumDim(a) THEN a.elem
    ELSE Coefficients(a)[i + 1] * DimSize(a, i + 1)

LEMMA Described ==
  ASSUME NEW a, DescriptorSpace(a)
  PROVE  /\ NumDim(a) \in Nat \ {0} /\ Dims(a) = 1 .. NumDim(a) /\ IsFiniteSet(Dims(a))
         /\ a.elem \in Nat \ {0}
         /\ \A i \in Dims(a) : a.sep[i] \in Nat /\ DimSize(a, i) \in Nat \ {0}
<1>1. /\ NumDim(a) \in Nat \ {0} /\ Dims(a) = 1 .. NumDim(a)
      /\ a.elem \in Nat \ {0} /\ \A i \in Dims(a) : a.sep[i] \in Nat
  BY DEF DescriptorSpace, NumDim, Dims
<1>2. IsFiniteSet(Dims(a))
  BY <1>1, FS_Interval
<1>3. QED
  BY <1>1, <1>2, DimSizePositive

\* The recursion of the coefficients ends at the last dimension.
LEMMA CoefficientsExist ==
  ASSUME NEW a, DescriptorSpace(a)
  PROVE  Coefficients(a)
           = [i \in Dims(a) |-> a.sep[i] +
                IF i = NumDim(a) THEN a.elem
                ELSE Coefficients(a)[i + 1] * DimSize(a, i + 1)]
<1> DEFINE N == NumDim(a)
           D(i) == DimSize(a, i)
           Step(g, i) == a.sep[i] + IF i = N THEN a.elem ELSE g[i + 1] * D(i + 1)
           Upto(g, n) == /\ g = [i \in Dims(a) |-> g[i]]
                         /\ \A i \in Dims(a) : i > N - n => g[i] = Step(g, i)
           T == {n \in Nat : \E g : Upto(g, n)}
<1>1. N \in Nat \ {0} /\ Dims(a) = 1 .. N
  BY Described
<1> HIDE DEF N, D
<1>2. 0 \in T
  <2> DEFINE g == [i \in Dims(a) |-> 0]
  <2>1. Upto(g, 0)
    BY <1>1
  <2>2. QED
    BY <2>1
<1>3. ASSUME NEW n \in Nat, n \in T
      PROVE  n + 1 \in T
  <2>1. PICK g : Upto(g, n)
    BY <1>3
  <2> DEFINE h == [i \in Dims(a) |-> Step(g, i)]
  <2>2. ASSUME NEW i \in Dims(a), i > N - (n + 1)
        PROVE  h[i] = Step(h, i)
    <3>1. h[i] = Step(g, i)
      OBVIOUS
    <3>2. CASE i = N
      BY <3>1, <3>2
    <3>3. CASE i # N
      <4>1. i + 1 \in Dims(a) /\ i + 1 > N - n
        BY <1>1, <2>2, <3>3
      <4>2. h[i + 1] = g[i + 1]
        BY <2>1, <4>1
      <4>3. QED
        BY <3>1, <3>3, <4>2
    <3>4. QED
      BY <3>2, <3>3
  <2>3. Upto(h, n + 1)
    BY <2>2
  <2> HIDE DEF h, Upto
  <2>4. QED
    BY <2>3
<1>4. N \in T
  <2> HIDE DEF T
  <2>1. QED
    BY <1>1, <1>2, <1>3, FromZero
<1>5. PICK g : Upto(g, N)
  BY <1>4
<1>6. g = [i \in Dims(a) |-> Step(g, i)]
  <2>1. \A i \in Dims(a) : i > N - N
    BY <1>1
  <2>2. \A i \in Dims(a) : g[i] = Step(g, i)
    BY <1>5, <2>1
  <2>3. g = [i \in Dims(a) |-> g[i]]
    BY <1>5
  <2> HIDE DEF Step
  <2>4. QED
    BY <2>2, <2>3
<1>7. Coefficients(a) = CHOOSE c : c = [i \in Dims(a) |-> Step(c, i)]
  BY DEF Coefficients, N, D
<1>8. Coefficients(a) = [i \in Dims(a) |-> Step(Coefficients(a), i)]
  <2> DEFINE F(c) == [i \in Dims(a) |-> Step(c, i)]
  <2>1. \E c : c = F(c)
    BY <1>6
  <2>2. Coefficients(a) = CHOOSE c : c = F(c)
    BY <1>7
  <2> HIDE DEF F
  <2>3. Coefficients(a) = F(Coefficients(a))
    BY <2>1, <2>2
  <2>4. QED
    BY <2>3 DEF F
<1>9. QED
  BY <1>8 DEF N, D

\* Each element of a dimension is what it is made of and its separation.
LEMMA CoefficientsAre ==
  ASSUME NEW a, DescriptorSpace(a)
  PROVE  /\ \A i \in Dims(a) : /\ Coefficients(a)[i] \in Nat \ {0}
                               /\ Coefficients(a)[i] = a.sep[i] + Content(a, i)
         /\ \A i \in 0 .. NumDim(a) : Content(a, i) \in Nat \ {0}
         /\ Content(a, 0) = TotalSize(a)
<1> DEFINE N == NumDim(a)
           c == Coefficients(a)
           T == {n \in Nat : \A i \in Dims(a) : i >= N - n => c[i] \in Nat \ {0}}
<1>1. /\ N \in Nat \ {0} /\ Dims(a) = 1 .. N /\ a.elem \in Nat \ {0}
      /\ \A i \in Dims(a) : a.sep[i] \in Nat /\ DimSize(a, i) \in Nat \ {0}
  BY Described
<1>2. \A i \in Dims(a) : c[i] = a.sep[i] + Content(a, i)
  BY CoefficientsExist DEF Content
<1>3. ASSUME NEW i \in Dims(a), c[i] \in Nat \ {0}
      PROVE  c[i] * DimSize(a, i) \in Nat \ {0}
  <2> DEFINE x == c[i]
             y == DimSize(a, i)
  <2>1. x \in Nat \ {0} /\ y \in Nat \ {0}
    BY <1>1, <1>3
  <2> HIDE DEF x, y
  <2>2. x * y \in Nat \ {0}
    BY <2>1, SMTT(30)
  <2>3. QED
    BY <2>2 DEF x, y
<1> HIDE DEF N, c
<1>4. 0 \in T
  <2>1. ASSUME NEW i \in Dims(a), i >= N - 0
        PROVE  c[i] \in Nat \ {0}
    <3>1. i = N
      BY <1>1, <2>1
    <3>2. c[i] = a.sep[i] + a.elem
      BY <1>2, <3>1 DEF Content, N
    <3>3. QED
      BY <1>1, <3>2
  <2>2. QED
    BY <2>1
<1>5. ASSUME NEW n \in Nat, n \in T
      PROVE  n + 1 \in T
  <2>1. ASSUME NEW i \in Dims(a), i >= N - (n + 1)
        PROVE  c[i] \in Nat \ {0}
    <3>1. CASE i >= N - n
      BY <1>5, <3>1
    <3>2. CASE ~ (i >= N - n)
      <4>1. i + 1 \in Dims(a) /\ i + 1 >= N - n /\ i # N
        BY <1>1, <2>1, <3>2
      <4>2. c[i + 1] \in Nat \ {0}
        BY <1>5, <4>1
      <4>3. c[i] = a.sep[i] + c[i + 1] * DimSize(a, i + 1)
        BY <1>2, <4>1 DEF Content, N, c
      <4>4. c[i + 1] * DimSize(a, i + 1) \in Nat \ {0}
        BY <1>3, <4>1, <4>2
      <4>5. QED
        BY <1>1, <4>3, <4>4
    <3>3. QED
      BY <3>1, <3>2
  <2>2. QED
    BY <2>1
<1>6. N \in T
  <2> HIDE DEF T
  <2>1. QED
    BY <1>1, <1>4, <1>5, FromZero
<1>7. \A i \in Dims(a) : c[i] \in Nat \ {0}
  BY <1>1, <1>6
<1>8. ASSUME NEW i \in 0 .. N
      PROVE  Content(a, i) \in Nat \ {0}
  <2>1. CASE i = N
    BY <1>1, <2>1 DEF Content, N
  <2>2. CASE i # N
    <3>1. i + 1 \in Dims(a)
      BY <1>1, <2>2
    <3>2. QED
      BY <1>3, <1>7, <2>2, <3>1 DEF Content, N, c
  <2>3. QED
    BY <2>1, <2>2
<1>9. Content(a, 0) = TotalSize(a)
  BY <1>1 DEF Content, TotalSize, N
<1>10. QED
  BY <1>2, <1>7, <1>8, <1>9 DEF N, c

\* The largest block that is moved at a time is what a dimension's element is
\* made of.
LEMMA BlockIs ==
  ASSUME NEW a, DescriptorSpace(a), NEW d \in 0 .. NumDim(a)
  PROVE  IncrementBlock(a, d) = Content(a, d)
<1>1. /\ NumDim(a) \in Nat \ {0} /\ Dims(a) = 1 .. NumDim(a)
      /\ \A i \in Dims(a) : a.sep[i] \in Nat
  BY Described
<1>2. CASE d = 0
  BY <1>2, CoefficientsAre DEF IncrementBlock
<1>3. CASE d = NumDim(a)
  BY <1>1, <1>3 DEF IncrementBlock, Content
<1>4. CASE d # 0 /\ d # NumDim(a)
  <2>1. d \in Dims(a)
    BY <1>1, <1>4
  <2>2. /\ Coefficients(a)[d] = a.sep[d] + Content(a, d)
        /\ Content(a, d) \in Nat /\ a.sep[d] \in Nat
    BY <1>1, <2>1, CoefficientsAre
  <2>3. IncrementBlock(a, d) = Coefficients(a)[d] - a.sep[d]
    BY <1>4 DEF IncrementBlock
  <2> DEFINE x == Coefficients(a)[d]
             y == Content(a, d)
             z == a.sep[d]
  <2> HIDE DEF x, y, z
  <2>4. x = z + y /\ y \in Nat /\ z \in Nat
    BY <2>2 DEF x, y, z
  <2>5. x - z = y
    BY <2>4
  <2>6. QED
    BY <2>3, <2>5 DEF x, y, z
<1>5. QED
  BY <1>2, <1>3, <1>4

-----------------------------------------------------------------------------
(* Offsets and separation as sums                                             *)

Terms(a, k) == [i \in Dims(a) |-> Coefficients(a)[i] * k[i]]

LEMMA OffsetAdds ==
  ASSUME NEW a, NEW k
  PROVE  Offset(a, k) = Sum(Terms(a, k), Dims(a))
<1> DEFINE w == Terms(a, k)
           J == Dims(a)
           c == Coefficients(a)
           F(g) == [s \in SUBSET J |-> IF s = {} THEN 0
                      ELSE c[CHOOSE x \in s : TRUE] * k[CHOOSE x \in s : TRUE]
                             + g[s \ {CHOOSE x \in s : TRUE}]]
           It(g) == g = F(g)
<1>1. Offset(a, k) = (CHOOSE g : It(g))[J]
  BY DEF Offset, MapThenSumSet, MapThenFoldSet
<1>2. \A g : It(g) <=> Iterates(g, w, J)
  <2> SUFFICES ASSUME NEW g PROVE It(g) <=> Iterates(g, w, J)
    OBVIOUS
  <2> DEFINE G == [s \in SUBSET J |-> Summed(w, g, s)]
  <2>1. ASSUME NEW s \in SUBSET J
        PROVE  F(g)[s] = G[s]
    <3>1. s # {} => (CHOOSE x \in s : TRUE) \in J
      OBVIOUS
    <3>2. QED
      BY <3>1 DEF Summed, Chosen, Terms
  <2>2. F(g) = G
    BY <2>1
  <2>3. QED
    BY <2>2 DEF Iterates
<1>3. (CHOOSE g : It(g)) = (CHOOSE g : Iterates(g, w, J))
  <2> HIDE DEF It, w, J
  <2>1. QED
    BY <1>2, Zenon
<1>4. QED
  BY <1>1, <1>3 DEF Sum

\* The dimensions up to d that element k is the last one of
Carrying(a, k, d) ==
    {i \in 1 .. d : \A j \in i + 1 .. d : k[j] + 1 = DimSize(a, j)}

LEMMA SeparationAdds ==
  ASSUME NEW a, NEW k, NEW d
  PROVE  SeparationAfter(a, k, d) = Sum(a.sep, Carrying(a, k, d))
BY DEF SeparationAfter, MapThenSumSet, MapThenFoldSet, Sum, Iterates, Summed, Chosen, Carrying

LEMMA SubSepAdds ==
  ASSUME NEW a
  PROVE  SubSep(a) = Sum(a.sep, Dims(a))
BY DEF SubSep, MapThenSumSet, MapThenFoldSet, Sum, Iterates, Summed, Chosen

-----------------------------------------------------------------------------
(* Counting an index up                                                       *)

\* An index of array a
Counts(a, k) == \A i \in Dims(a) : k[i] \in Nat /\ k[i] < DimSize(a, i)

LEMMA Successor ==
  ASSUME NEW x \in Nat, NEW y \in Nat
  PROVE  /\ x * y \in Nat /\ x * (y + 1) \in Nat
         /\ x * (y + 1) = x * y + x
  BY SMTT(30)

LEMMA TermsTyped ==
  ASSUME NEW a, DescriptorSpace(a), NEW k, \A i \in Dims(a) : k[i] \in Nat
  PROVE  /\ \A i \in Dims(a) : /\ Terms(a, k)[i] = Coefficients(a)[i] * k[i]
                               /\ Terms(a, k)[i] \in Nat
         /\ Offset(a, k) \in Nat
<1>1. ASSUME NEW i \in Dims(a)
      PROVE  Terms(a, k)[i] = Coefficients(a)[i] * k[i] /\ Terms(a, k)[i] \in Nat
  <2>1. Terms(a, k)[i] = Coefficients(a)[i] * k[i]
    BY DEF Terms
  <2>2. Coefficients(a)[i] \in Nat /\ k[i] \in Nat
    BY CoefficientsAre
  <2>3. Coefficients(a)[i] * k[i] \in Nat
    BY <2>2, Successor
  <2>4. QED
    BY <2>1, <2>3
<1>2. IsFiniteSet(Dims(a))
  BY Described
<1>3. Sum(Terms(a, k), Dims(a)) \in Nat
  BY <1>1, <1>2, SumRemove
<1>4. QED
  BY <1>1, <1>3, OffsetAdds

LEMMA OffsetOfOrigin ==
  ASSUME NEW a, DescriptorSpace(a)
  PROVE  /\ Counts(a, Origin(a)) /\ Origin(a) \in [Dims(a) -> Nat]
         /\ Offset(a, Origin(a)) = 0
<1>1. \A i \in Dims(a) : Origin(a)[i] = 0
  BY DEF Origin
<1>2. Counts(a, Origin(a))
  BY <1>1, Described DEF Counts
<1>3. ASSUME NEW i \in Dims(a)
      PROVE  Terms(a, Origin(a))[i] = 0
  <2>1. Terms(a, Origin(a))[i] = Coefficients(a)[i] * 0 /\ Coefficients(a)[i] \in Nat
    BY <1>1, CoefficientsAre DEF Terms
  <2>2. QED
    BY <2>1
<1>4. Sum(Terms(a, Origin(a)), Dims(a)) = 0
  BY <1>3, SumZero, Described
<1>5. Origin(a) \in [Dims(a) -> Nat]
  BY DEF Origin
<1>6. QED
  BY <1>2, <1>4, <1>5, OffsetAdds

\* Dimensions whose index is 0 do not count.
LEMMA OffsetUpTo ==
  ASSUME NEW a, DescriptorSpace(a), NEW k, \A i \in Dims(a) : k[i] \in Nat,
         NEW d \in 0 .. NumDim(a), \A j \in d + 1 .. NumDim(a) : k[j] = 0
  PROVE  Offset(a, k) = Sum(Terms(a, k), 1 .. d)
<1> DEFINE N == NumDim(a)
           w == Terms(a, k)
<1>1. N \in Nat \ {0} /\ Dims(a) = 1 .. N
  BY Described
<1>2. \A i \in 1 .. N : w[i] \in Nat
  BY <1>1, TermsTyped
<1>3. \A i \in d + 1 .. N : w[i] = 0
  <2>1. ASSUME NEW i \in d + 1 .. N
        PROVE  w[i] = 0
    <3>1. i \in Dims(a)
      BY <1>1
    <3>2. w[i] = Coefficients(a)[i] * 0 /\ Coefficients(a)[i] \in Nat
      BY <3>1, CoefficientsAre DEF Terms
    <3>3. QED
      BY <3>2
  <2>2. QED
    BY <2>1
<1>4. Offset(a, k) = Sum(w, 1 .. N)
  BY <1>1, OffsetAdds
<1> HIDE DEF N, w
<1>5. /\ Sum(w, 1 .. d) \in Nat
      /\ Sum(w, 1 .. N) = Sum(w, 1 .. d) + Sum(w, d + 1 .. N)
  <2>1. 1 <= d + 1 /\ d <= N /\ d \in Int /\ N \in Int
    BY <1>1 DEF N
  <2>2. QED
    BY <1>2, <2>1, SumInterval
<1>6. Sum(w, d + 1 .. N) = 0
  <2>1. IsFiniteSet(d + 1 .. N)
    BY <1>1, FS_Interval
  <2>2. QED
    BY <1>3, <2>1, SumZero
<1>7. QED
  BY <1>4, <1>5, <1>6 DEF N, w

\* Where the dimensions from i + 1 to d all end, what is left of them makes the
\* content of i full.
LEMMA FullRun ==
  ASSUME NEW a, DescriptorSpace(a), NEW k, \A i \in Dims(a) : k[i] \in Nat,
         NEW d \in 0 .. NumDim(a), NEW i \in 0 .. d,
         \A j \in i + 1 .. d : k[j] + 1 = DimSize(a, j)
  PROVE  Sum(Terms(a, k), i + 1 .. d) + Content(a, d) + Sum(a.sep, i + 1 .. d)
           = Content(a, i)
<1> DEFINE N == NumDim(a)
           w == Terms(a, k)
           s == a.sep
           C(h) == Content(a, h)
           Full(h) == Sum(w, h + 1 .. d) + C(d) + Sum(s, h + 1 .. d) = C(h)
           T == {n \in Nat : d - n >= i => Full(d - n)}
<1>1. /\ N \in Nat \ {0} /\ Dims(a) = 1 .. N
      /\ \A h \in Dims(a) : s[h] \in Nat
  BY Described
<1>2. \A h \in 1 .. N : w[h] \in Nat /\ s[h] \in Nat
  BY <1>1, TermsTyped
<1>3. \A h \in 0 .. N : C(h) \in Nat
  BY CoefficientsAre
<1>4. d \in 0 .. N /\ d \in Nat /\ i \in Nat /\ i <= d
  BY <1>1
<1>5. ASSUME NEW h \in i .. d, h # d
      PROVE  C(h) = w[h + 1] + s[h + 1] + C(h + 1)
  <2>1. h + 1 \in Dims(a) /\ h + 1 \in i + 1 .. d /\ h # NumDim(a) /\ h \in 0 .. N
    BY <1>1, <1>5
  <2> DEFINE c == Coefficients(a)[h + 1]
             x == k[h + 1]
             D == DimSize(a, h + 1)
  <2>2. x + 1 = D
    BY <2>1
  <2>3. C(h) = c * D
    BY <2>1 DEF Content
  <2>4. c = s[h + 1] + C(h + 1)
    BY <2>1, CoefficientsAre
  <2>5. w[h + 1] = c * x
    BY <2>1 DEF Terms
  <2>6. c \in Nat /\ x \in Nat
    BY <2>1, CoefficientsAre
  <2>8. C(h + 1) \in Nat /\ s[h + 1] \in Nat
    BY <1>1, <1>3, <2>1
  <2> DEFINE ww == w[h + 1]
             ss == s[h + 1]
             cc == C(h + 1)
             c0 == C(h)
  <2> HIDE DEF c, x, D, C, w, s, ww, ss, cc, c0
  <2>7. c * D = c * x + c /\ c * x \in Nat
    BY <2>2, <2>6, Successor
  <2>9. c0 = c * D /\ c = ss + cc /\ ww = c * x /\ cc \in Nat /\ ss \in Nat
    BY <2>3, <2>4, <2>5, <2>8 DEF ww, ss, cc, c0
  <2>11. c0 = ww + ss + cc
    BY <2>7, <2>9
  <2>10. QED
    BY <2>11 DEF ww, ss, cc, c0
<1> HIDE DEF N, w, s, C
<1>6. 0 \in T
  <2>1. d + 1 .. d = {} /\ d - 0 = d
    BY <1>4
  <2>2. Full(d)
    BY <1>3, <1>4, <2>1, SumEmpty
  <2>3. QED
    BY <2>1, <2>2
<1>7. ASSUME NEW n \in Nat, n \in T
      PROVE  n + 1 \in T
  <2> SUFFICES ASSUME d - (n + 1) >= i PROVE Full(d - (n + 1))
    OBVIOUS
  <2> DEFINE h == d - (n + 1)
  <2>1. h \in i .. d /\ h # d /\ h + 1 = d - n /\ h \in Nat /\ h + 1 \in 1 .. N /\ h + 1 <= d
        /\ h + 1 \in 0 .. N /\ d <= N
    BY <1>1, <1>4
  <2>2. Full(h + 1)
    BY <1>7, <2>1
  <2> HIDE DEF h
  <2>3. /\ Sum(w, h + 1 .. d) = w[h + 1] + Sum(w, h + 1 + 1 .. d)
        /\ Sum(w, h + 1 + 1 .. d) \in Nat
    <3>1. \A j \in h + 1 .. d : w[j] \in Nat
      BY <1>1, <1>2, <1>4, <2>1
    <3>2. h + 1 \in Nat /\ d \in Int
      BY <1>4, <2>1
    <3>3. QED
      BY <2>1, <3>1, <3>2, SumFirst
  <2>4. /\ Sum(s, h + 1 .. d) = s[h + 1] + Sum(s, h + 1 + 1 .. d)
        /\ Sum(s, h + 1 + 1 .. d) \in Nat
    <3>1. \A j \in h + 1 .. d : s[j] \in Nat
      BY <1>1, <1>2, <1>4, <2>1
    <3>2. h + 1 \in Nat /\ d \in Int
      BY <1>4, <2>1
    <3>3. QED
      BY <2>1, <3>1, <3>2, SumFirst
  <2>5. C(h) = w[h + 1] + s[h + 1] + C(h + 1)
    BY <1>5, <2>1
  <2>6. w[h + 1] \in Nat /\ s[h + 1] \in Nat /\ C(h + 1) \in Nat /\ C(d) \in Nat
    BY <1>2, <1>3, <1>4, <2>1
  <2>7. Full(h)
    BY <2>2, <2>3, <2>4, <2>5, <2>6
  <2>8. QED
    BY <2>7 DEF h
<1>8. Full(i)
  <2>1. d - i \in Nat /\ d - (d - i) = i
    BY <1>4
  <2>2. d - i \in T
    <3> HIDE DEF T
    <3>1. Nat \subseteq T
      BY <1>6, <1>7, FromZero
    <3>2. QED
      BY <2>1, <3>1
  <2>3. QED
    BY <1>4, <2>1, <2>2
<1>9. QED
  BY <1>8 DEF w, s, C

\* The highest dimension up to d that does not end here
LEMMA LastOpen ==
  ASSUME NEW a, DescriptorSpace(a), NEW k, NEW d \in 0 .. NumDim(a),
         \E j \in 1 .. d : k[j] + 1 # DimSize(a, j)
  PROVE  \E m \in 1 .. d : /\ k[m] + 1 # DimSize(a, m)
                           /\ \A j \in m + 1 .. d : k[j] + 1 = DimSize(a, j)
<1> DEFINE Open(j) == k[j] + 1 # DimSize(a, j)
           T == {n \in Nat : n < d /\ Open(d - n)}
<1>1. d \in Nat
  BY Described
<1> HIDE DEF Open
<1>2. T # {}
  <2>1. PICK j \in 1 .. d : Open(j)
    BY DEF Open
  <2>2. d - j \in Nat /\ d - j < d /\ d - (d - j) = j
    BY <1>1
  <2>3. QED
    BY <2>1, <2>2
<1>3. PICK n \in T : \A m \in T : n <= m
  <2> HIDE DEF T
  <2>1. T \in SUBSET Nat
    BY DEF T
  <2>2. QED
    BY <1>2, <2>1, Least
<1>4. d - n \in 1 .. d /\ Open(d - n)
  BY <1>1
<1>5. ASSUME NEW j \in d - n + 1 .. d, Open(j)
      PROVE  FALSE
  <2>1. d - j \in Nat /\ d - j < d /\ d - (d - j) = j /\ d - j < n
    BY <1>1
  <2>2. d - j \in T
    BY <1>5, <2>1
  <2>3. QED
    BY <1>1, <1>3, <2>1, <2>2
<1>6. QED
  BY <1>4, <1>5 DEF Open

\* Counting up: the last dimension that does not end here goes on, and those
\* above it begin again.
LEMMA Advanced ==
  ASSUME NEW a, DescriptorSpace(a), NEW k, Counts(a, k), NEW d \in 0 .. NumDim(a),
         NEW l, l = Incremented(a, k, d)
  PROVE  /\ l \in [Dims(a) -> Nat] /\ Counts(a, l)
         /\ \A j \in d + 1 .. NumDim(a) : l[j] = k[j]
         /\ \/ \A j \in 1 .. d : k[j] + 1 = DimSize(a, j) /\ l[j] = 0
            \/ \E m \in 1 .. d :
                 /\ k[m] + 1 < DimSize(a, m) /\ l[m] = k[m] + 1
                 /\ \A j \in m + 1 .. d : k[j] + 1 = DimSize(a, j) /\ l[j] = 0
                 /\ \A j \in 1 .. m - 1 : l[j] = k[j]
<1> DEFINE N == NumDim(a)
           D(i) == DimSize(a, i)
<1>1. /\ N \in Nat \ {0} /\ Dims(a) = 1 .. N
      /\ \A i \in Dims(a) : D(i) \in Nat \ {0}
  BY Described
<1>2. /\ \A i \in Dims(a) : k[i] \in Nat /\ k[i] < D(i)
      /\ d \in 0 .. N /\ d \in Nat
  BY <1>1 DEF Counts
<1>3. \A i \in Dims(a) :
         l[i] = IF i <= d /\ (\A j \in i + 1 .. d : k[j] + 1 = D(j))
                THEN (k[i] + 1) % D(i) ELSE k[i]
  BY DEF Incremented
<1>4. l = [i \in Dims(a) |-> l[i]]
  BY DEF Incremented
<1> HIDE DEF N, D
<1>5. \A i \in Dims(a) : l[i] \in Nat /\ l[i] < D(i)
  <2>1. ASSUME NEW i \in Dims(a)
        PROVE  l[i] \in Nat /\ l[i] < D(i)
    <3>1. k[i] + 1 \in Nat /\ D(i) \in Nat \ {0}
      BY <1>1, <1>2
    <3>2. (k[i] + 1) % D(i) \in Nat /\ (k[i] + 1) % D(i) < D(i)
      BY <3>1, Remainder
    <3>3. QED
      BY <1>2, <1>3, <3>2
  <2>2. QED
    BY <2>1
<1>6. \A j \in d + 1 .. N : l[j] = k[j]
  BY <1>1, <1>2, <1>3
<1>7. ASSUME NEW i \in Dims(a), i <= d, \A j \in i .. d : k[j] + 1 = D(j)
      PROVE  l[i] = 0
  <2>1. k[i] + 1 = D(i) /\ \A j \in i + 1 .. d : k[j] + 1 = D(j)
    BY <1>1, <1>2, <1>7
  <2>2. l[i] = D(i) % D(i) /\ D(i) \in Nat \ {0}
    BY <1>1, <1>3, <1>7, <2>1
  <2> DEFINE x == D(i)
  <2> HIDE DEF x
  <2>3. x \in Nat \ {0} => x % x = 0
    BY SMTT(30)
  <2>4. QED
    BY <2>2, <2>3 DEF x
<1>8. CASE \A j \in 1 .. d : k[j] + 1 = D(j)
  <2>1. ASSUME NEW i \in 1 .. d
        PROVE  l[i] = 0
    <3>1. i \in Dims(a) /\ i <= d /\ \A j \in i .. d : k[j] + 1 = D(j)
      BY <1>1, <1>2, <1>8
    <3>2. QED
      BY <1>7, <3>1
  <2>2. QED
    BY <1>4, <1>5, <1>6, <1>8, <2>1 DEF Counts, N, D
<1>9. CASE \E j \in 1 .. d : k[j] + 1 # D(j)
  <2>1. PICK m \in 1 .. d : /\ k[m] + 1 # D(m)
                            /\ \A j \in m + 1 .. d : k[j] + 1 = D(j)
    BY <1>9, LastOpen DEF D
  <2>2. m \in Dims(a) /\ m \in Nat \ {0} /\ m <= d /\ d <= N
    BY <1>1, <1>2
  <2>3. k[m] + 1 < D(m) /\ l[m] = k[m] + 1
    <3>1. k[m] + 1 \in Nat /\ k[m] + 1 < D(m) /\ D(m) \in Nat \ {0}
      BY <1>1, <1>2, <2>1, <2>2
    <3>2. l[m] = (k[m] + 1) % D(m)
      BY <1>3, <2>1, <2>2
    <3> DEFINE x == D(m)
               y == k[m] + 1
    <3> HIDE DEF x, y
    <3>3. y \in Nat /\ x \in Nat \ {0} /\ y < x => y % x = y
      BY SMTT(30)
    <3>4. QED
      BY <3>1, <3>2, <3>3 DEF x, y
  <2>4. \A i \in 1 .. m - 1 : l[i] = k[i]
    <3>1. ASSUME NEW i \in 1 .. m - 1
          PROVE  l[i] = k[i]
      <4>1. i \in Dims(a) /\ m \in i + 1 .. d
        BY <1>1, <1>2, <2>2
      <4>2. QED
        BY <1>3, <2>1, <4>1
    <3>2. QED
      BY <3>1
  <2>5. \A i \in m + 1 .. d : l[i] = 0
    <3>1. ASSUME NEW i \in m + 1 .. d
          PROVE  l[i] = 0
      <4>1. i \in Dims(a) /\ i <= d /\ \A j \in i .. d : k[j] + 1 = D(j)
        BY <1>1, <1>2, <2>1, <2>2
      <4>2. QED
        BY <1>7, <4>1
    <3>2. QED
      BY <3>1
  <2>6. \E n \in 1 .. d : /\ k[n] + 1 < D(n) /\ l[n] = k[n] + 1
                          /\ \A j \in n + 1 .. d : k[j] + 1 = D(j) /\ l[j] = 0
                          /\ \A j \in 1 .. n - 1 : l[j] = k[j]
    BY <2>1, <2>3, <2>4, <2>5
  <2>7. QED
    BY <1>4, <1>5, <1>6, <2>6 DEF Counts, N, D
<1>10. QED
  BY <1>8, <1>9

\* What moving by a block of the content of dimension d, and the separation
\* after it, comes to: the offset of the index counted up, or the whole array.
LEMMA Carry ==
  ASSUME NEW a, DescriptorSpace(a), NEW k, Counts(a, k),
         NEW d \in 0 .. NumDim(a), \A j \in d + 1 .. NumDim(a) : k[j] = 0
  PROVE  /\ Counts(a, Incremented(a, k, d))
         /\ Incremented(a, k, d) \in [Dims(a) -> Nat]
         /\ \A j \in d + 1 .. NumDim(a) : Incremented(a, k, d)[j] = 0
         /\ SeparationAfter(a, k, d) \in Nat
         /\ SeparationAfter(a, k, d) <= SubSep(a)
         /\ Offset(a, k) \in Nat
         /\ Offset(a, k) + Content(a, d) + SeparationAfter(a, k, d)
              = IF Incremented(a, k, d) = Origin(a) THEN TotalSize(a)
                ELSE Offset(a, Incremented(a, k, d))
<1> DEFINE N == NumDim(a)
           l == Incremented(a, k, d)
           w == Terms(a, k)
           v == Terms(a, l)
           s == a.sep
           D(i) == DimSize(a, i)
<1>1. /\ N \in Nat \ {0} /\ Dims(a) = 1 .. N /\ IsFiniteSet(Dims(a))
      /\ \A i \in Dims(a) : s[i] \in Nat /\ D(i) \in Nat \ {0}
  BY Described
<1>2. /\ \A i \in Dims(a) : k[i] \in Nat /\ k[i] < D(i)
      /\ \A j \in d + 1 .. N : k[j] = 0
      /\ d \in 0 .. N /\ d \in Nat
  BY <1>1 DEF Counts
<1>3. /\ l \in [Dims(a) -> Nat] /\ Counts(a, l)
      /\ \A j \in d + 1 .. N : l[j] = k[j]
      /\ \/ \A j \in 1 .. d : k[j] + 1 = D(j) /\ l[j] = 0
         \/ \E m \in 1 .. d : /\ k[m] + 1 < D(m) /\ l[m] = k[m] + 1
                              /\ \A j \in m + 1 .. d : k[j] + 1 = D(j) /\ l[j] = 0
                              /\ \A j \in 1 .. m - 1 : l[j] = k[j]
  <2> DEFINE n == Incremented(a, k, d)
  <2>1. n = Incremented(a, k, d)
    OBVIOUS
  <2> HIDE DEF n
  <2>2. /\ n \in [Dims(a) -> Nat] /\ Counts(a, n)
        /\ \A j \in d + 1 .. N : n[j] = k[j]
        /\ \/ \A j \in 1 .. d : k[j] + 1 = D(j) /\ n[j] = 0
           \/ \E m \in 1 .. d : /\ k[m] + 1 < D(m) /\ n[m] = k[m] + 1
                                /\ \A j \in m + 1 .. d : k[j] + 1 = D(j) /\ n[j] = 0
                                /\ \A j \in 1 .. m - 1 : n[j] = k[j]
    BY <2>1, Advanced
  <2>3. QED
    BY <2>2 DEF n
<1>4. \A i \in Dims(a) : l[i] \in Nat /\ l[i] < D(i)
  BY <1>3 DEF Counts
<1>5. l \in [Dims(a) -> Nat]
  BY <1>3
<1>6. \A j \in d + 1 .. N : l[j] = 0
  BY <1>2, <1>3
<1>7. /\ SeparationAfter(a, k, d) \in Nat
      /\ SeparationAfter(a, k, d) <= SubSep(a)
  <2>1. Carrying(a, k, d) \in SUBSET Dims(a)
    BY <1>1, <1>2 DEF Carrying
  <2>2. QED
    BY <1>1, <2>1, SumSubset, SeparationAdds, SubSepAdds
<1>8. Offset(a, k) \in Nat /\ Offset(a, k) = Sum(w, 1 .. d)
  BY <1>2, TermsTyped, OffsetUpTo
<1>9. Offset(a, l) \in Nat /\ Offset(a, l) = Sum(v, 1 .. d)
  BY <1>4, <1>6, TermsTyped, OffsetUpTo
<1>10. \A i \in Dims(a) : w[i] \in Nat /\ v[i] \in Nat
  BY <1>2, <1>4, TermsTyped
<1> HIDE DEF N, l, w, v, s, D
<1>11. CASE \A j \in 1 .. d : k[j] + 1 = D(j) /\ l[j] = 0
  <2>1. l = Origin(a)
    <3>1. ASSUME NEW i \in Dims(a)
          PROVE  l[i] = 0
      BY <1>1, <1>2, <1>6, <1>11
    <3>2. QED
      BY <1>5, <3>1 DEF Origin
  <2>2. Carrying(a, k, d) = 1 .. d
    BY <1>2, <1>11 DEF Carrying, D
  <2>3. SeparationAfter(a, k, d) = Sum(s, 1 .. d)
    BY <2>2, SeparationAdds DEF s
  <2>4. Sum(w, 0 + 1 .. d) + Content(a, d) + Sum(s, 0 + 1 .. d) = Content(a, 0)
    <3>1. 0 \in 0 .. d /\ \A j \in 0 + 1 .. d : k[j] + 1 = DimSize(a, j)
      BY <1>2, <1>11 DEF D
    <3>2. QED
      BY <1>2, <3>1, FullRun DEF w, s
  <2>5. 0 + 1 = 1 /\ Content(a, 0) = TotalSize(a)
    BY CoefficientsAre
  <2>6. Offset(a, k) + Content(a, d) + SeparationAfter(a, k, d) = TotalSize(a)
    BY <1>8, <2>3, <2>4, <2>5
  <2>7. QED
    BY <1>4, <1>5, <1>6, <1>7, <1>8, <2>1, <2>6 DEF Counts, l, D, N
<1>12. CASE \E m \in 1 .. d : /\ k[m] + 1 < D(m) /\ l[m] = k[m] + 1
                              /\ \A j \in m + 1 .. d : k[j] + 1 = D(j) /\ l[j] = 0
                              /\ \A j \in 1 .. m - 1 : l[j] = k[j]
  <2>1. PICK m \in 1 .. d : /\ k[m] + 1 < D(m) /\ l[m] = k[m] + 1
                            /\ \A j \in m + 1 .. d : k[j] + 1 = D(j) /\ l[j] = 0
                            /\ \A j \in 1 .. m - 1 : l[j] = k[j]
    BY <1>12
  <2>2. m \in Dims(a) /\ m \in Nat \ {0} /\ m \in 0 .. d /\ m <= d /\ d <= N /\ d \in Int
        /\ N \in Nat /\ m - 1 \in Int
    BY <1>1, <1>2
  <2>3. Carrying(a, k, d) = m .. d
    <3>1. ASSUME NEW i \in 1 .. d
          PROVE  (\A j \in i + 1 .. d : k[j] + 1 = D(j)) <=> m <= i
      <4>1. CASE m <= i
        BY <1>2, <2>1, <2>2, <4>1
      <4>2. CASE ~ (m <= i)
        <5>1. m \in i + 1 .. d /\ k[m] \in Nat /\ D(m) \in Nat
          BY <1>1, <1>2, <2>2, <4>2
        <5>2. QED
          BY <2>1, <4>2, <5>1
      <4>3. QED
        BY <4>1, <4>2
    <3>2. Carrying(a, k, d) = {i \in 1 .. d : m <= i}
      BY <3>1 DEF Carrying, D
    <3>3. QED
      BY <2>2, <3>2
  <2>4. SeparationAfter(a, k, d) = Sum(s, m .. d)
    BY <2>3, SeparationAdds DEF s
  <2>5. l[m] = k[m] + 1
    BY <2>1
  <2>6. \A i \in 1 .. m - 1 : l[i] = k[i]
    BY <2>1
  <2>7. \A i \in m + 1 .. d : l[i] = 0
    BY <2>1
  <2>8. l # Origin(a)
    <3>1. l[m] # 0 /\ Origin(a)[m] = 0
      BY <1>2, <2>2, <2>5 DEF Origin
    <3>2. QED
      BY <3>1
  <2>9. /\ Sum(w, 1 .. m - 1) \in Nat /\ Sum(w, m + 1 .. d) \in Nat
        /\ Sum(w, 1 .. d) = Sum(w, 1 .. m - 1) + w[m] + Sum(w, m + 1 .. d)
    <3>1. \A i \in 1 .. d : w[i] \in Nat
      BY <1>1, <1>10, <2>2
    <3>2. /\ Sum(w, 1 .. m - 1) \in Nat
          /\ Sum(w, 1 .. d) = Sum(w, 1 .. m - 1) + Sum(w, m - 1 + 1 .. d)
      BY <2>2, <3>1, SumInterval
    <3>3. /\ Sum(w, m + 1 .. d) \in Nat
          /\ Sum(w, m .. d) = w[m] + Sum(w, m + 1 .. d)
      <4>1. \A i \in m .. d : w[i] \in Nat
        BY <2>2, <3>1
      <4>2. QED
        BY <2>2, <4>1, SumFirst
    <3>4. m - 1 + 1 = m /\ w[m] \in Nat
      BY <2>2, <3>1
    <3>5. QED
      BY <3>2, <3>3, <3>4
  <2>10. /\ Sum(v, 1 .. m - 1) \in Nat /\ Sum(v, m + 1 .. d) \in Nat
         /\ Sum(v, 1 .. d) = Sum(v, 1 .. m - 1) + v[m] + Sum(v, m + 1 .. d)
    <3>1. \A i \in 1 .. d : v[i] \in Nat
      BY <1>1, <1>10, <2>2
    <3>2. /\ Sum(v, 1 .. m - 1) \in Nat
          /\ Sum(v, 1 .. d) = Sum(v, 1 .. m - 1) + Sum(v, m - 1 + 1 .. d)
      BY <2>2, <3>1, SumInterval
    <3>3. /\ Sum(v, m + 1 .. d) \in Nat
          /\ Sum(v, m .. d) = v[m] + Sum(v, m + 1 .. d)
      <4>1. \A i \in m .. d : v[i] \in Nat
        BY <2>2, <3>1
      <4>2. QED
        BY <2>2, <4>1, SumFirst
    <3>4. m - 1 + 1 = m /\ v[m] \in Nat
      BY <2>2, <3>1
    <3>5. QED
      BY <3>2, <3>3, <3>4
  <2>11. Sum(v, 1 .. m - 1) = Sum(w, 1 .. m - 1)
    <3>1. \A i \in 1 .. m - 1 : i \in Dims(a)
      BY <1>1, <2>2
    <3>2. \A i \in 1 .. m - 1 : v[i] = w[i]
      BY <2>6, <3>1 DEF v, w, Terms
    <3>3. IsFiniteSet(1 .. m - 1)
      BY <2>2, FS_Interval
    <3>4. QED
      BY <3>2, <3>3, SumEqual
  <2>12. Sum(v, m + 1 .. d) = 0
    <3>1. ASSUME NEW i \in m + 1 .. d
          PROVE  v[i] = 0
      <4>1. i \in Dims(a)
        BY <1>1, <2>2
      <4>2. v[i] = Coefficients(a)[i] * 0 /\ Coefficients(a)[i] \in Nat
        BY <2>7, <4>1, CoefficientsAre DEF v, Terms
      <4>3. QED
        BY <4>2
    <3>2. IsFiniteSet(m + 1 .. d)
      BY <2>2, FS_Interval
    <3>3. QED
      BY <3>1, <3>2, SumZero
  <2>13. v[m] = w[m] + s[m] + Content(a, m) /\ w[m] \in Nat /\ s[m] \in Nat /\ Content(a, m) \in Nat
    <3> DEFINE c == Coefficients(a)[m]
    <3>1. w[m] = c * k[m] /\ v[m] = c * (k[m] + 1)
      BY <2>2, <2>5 DEF w, v, Terms
    <3>2. c \in Nat /\ c = s[m] + Content(a, m) /\ k[m] \in Nat /\ s[m] \in Nat
      BY <1>1, <1>2, <2>2, CoefficientsAre DEF s
    <3>3. Content(a, m) \in Nat /\ w[m] \in Nat
      <4>1. m \in 0 .. NumDim(a)
        BY <2>2 DEF N
      <4>2. QED
        BY <1>10, <2>2, <4>1, CoefficientsAre
    <3> HIDE DEF c
    <3>4. c * (k[m] + 1) = c * k[m] + c
      BY <3>2, Successor
    <3> DEFINE x == w[m]
               y == v[m]
               z == s[m]
               u == Content(a, m)
    <3>5. y = x + c /\ c = z + u /\ x \in Nat /\ z \in Nat /\ u \in Nat
      BY <3>1, <3>2, <3>3, <3>4
    <3> HIDE DEF x, y, z, u
    <3>6. y = x + z + u
      BY <3>5
    <3>7. QED
      BY <3>5, <3>6 DEF x, y, z, u
  <2>14. /\ Sum(w, m + 1 .. d) + Content(a, d) + Sum(s, m + 1 .. d) = Content(a, m)
    BY <1>2, <2>1, <2>2, FullRun DEF w, s, D
  <2>15. Sum(s, m .. d) = s[m] + Sum(s, m + 1 .. d) /\ Sum(s, m + 1 .. d) \in Nat
    <3>1. \A i \in m .. d : s[i] \in Nat
      BY <1>1, <2>2
    <3>2. QED
      BY <2>2, <3>1, SumFirst
  <2>16. Content(a, d) \in Nat
    BY CoefficientsAre
  <2>17. Offset(a, k) + Content(a, d) + SeparationAfter(a, k, d) = Offset(a, l)
    <3> DEFINE A == Sum(w, 1 .. m - 1)
               B == Sum(w, m + 1 .. d)
               E == Sum(s, m + 1 .. d)
               wm == w[m]
               vm == v[m]
               sm == s[m]
               Cd == Content(a, d)
               Cm == Content(a, m)
               O == Offset(a, k)
               P == Offset(a, l)
               S == SeparationAfter(a, k, d)
    <3>1. O = A + wm + B /\ P = A + vm /\ S = sm + E /\ A \in Nat /\ B \in Nat /\ E \in Nat
      <4>1. v[m] \in Nat
        BY <1>10, <2>2
      <4>2. Sum(v, 1 .. d) = A + vm
        BY <2>9, <2>10, <2>11, <2>12, <4>1
      <4>3. QED
        BY <1>8, <1>9, <2>4, <2>9, <2>15, <4>2
    <3>2. vm = wm + sm + Cm /\ B + Cd + E = Cm /\ wm \in Nat /\ sm \in Nat /\ Cm \in Nat /\ Cd \in Nat
      BY <2>13, <2>14, <2>16
    <3> HIDE DEF A, B, E, wm, vm, sm, Cd, Cm, O, P, S
    <3>3. O + Cd + S = P
      BY <3>1, <3>2
    <3>4. QED
      BY <3>3 DEF O, Cd, S, P
  <2>18. QED
    BY <1>4, <1>5, <1>6, <1>7, <1>8, <2>8, <2>17 DEF Counts, l, D, N
<1>13. QED
  BY <1>3, <1>11, <1>12

-----------------------------------------------------------------------------
(* Offsets in the super-array                                                 *)

MappedTerms(sub, super, k) ==
    [i \in Dims(sub) |-> Coefficients(super)[DimMapping(sub, super, i)]
                           * MappedIndex(sub, super, k, i)]

LEMMA MappedOffsetAdds ==
  ASSUME NEW sub, NEW super, NEW k
  PROVE  MappedOffset(sub, super, k) = Sum(MappedTerms(sub, super, k), Dims(sub))
<1> DEFINE w == MappedTerms(sub, super, k)
           J == Dims(sub)
           c == Coefficients(super)
           Term(i) == c[DimMapping(sub, super, i)] * MappedIndex(sub, super, k, i)
           F(g) == [s \in SUBSET J |-> IF s = {} THEN 0
                      ELSE Term(CHOOSE x \in s : TRUE)
                             + g[s \ {CHOOSE x \in s : TRUE}]]
           It(g) == g = F(g)
<1>1. MappedOffset(sub, super, k) = (CHOOSE g : It(g))[J]
  BY DEF MappedOffset, MapThenSumSet, MapThenFoldSet
<1>2. \A g : It(g) <=> Iterates(g, w, J)
  <2> SUFFICES ASSUME NEW g PROVE It(g) <=> Iterates(g, w, J)
    OBVIOUS
  <2> DEFINE G == [s \in SUBSET J |-> Summed(w, g, s)]
  <2>1. ASSUME NEW s \in SUBSET J
        PROVE  F(g)[s] = G[s]
    <3>1. s # {} => (CHOOSE x \in s : TRUE) \in J
      OBVIOUS
    <3>2. QED
      BY <3>1 DEF Summed, Chosen, MappedTerms
  <2>2. F(g) = G
    BY <2>1
  <2>3. QED
    BY <2>2 DEF Iterates
<1>3. (CHOOSE g : It(g)) = (CHOOSE g : Iterates(g, w, J))
  <2> HIDE DEF It, w, J
  <2>1. QED
    BY <1>2, Zenon
<1>4. QED
  BY <1>1, <1>3 DEF Sum

LEMMA MappedTermsTyped ==
  ASSUME NEW sub, NEW super, DescriptorSpace(sub), DescriptorSpace(super),
         Mappable(sub, super), NEW k, Counts(sub, k), NEW i \in Dims(sub)
  PROVE  MappedTerms(sub, super, k)[i] \in Nat
<1> DEFINE j == DimMapping(sub, super, i)
           x == Coefficients(super)[j]
           y == MappedIndex(sub, super, k, i)
<1>1. j \in Dims(super)
  BY DimMappingTyped
<1>2. x \in Nat
  BY <1>1, CoefficientsAre
<1>3. y \in Nat
  <2>1. k[i] \in Nat /\ k[i] < DimSize(sub, i)
    BY DEF Counts
  <2>2. y \in 0 .. DimSize(super, j) - 1
    BY <2>1, MappedInSuper
  <2>3. DimSize(super, j) \in Nat
    BY <1>1, Described
  <2>4. QED
    BY <2>2, <2>3
<1>4. MappedTerms(sub, super, k)[i] = x * y
  BY DEF MappedTerms
<1> HIDE DEF x, y
<1>5. QED
  BY <1>2, <1>3, <1>4, Successor

LEMMA MappedOffsetTyped ==
  ASSUME NEW sub, NEW super, DescriptorSpace(sub), DescriptorSpace(super),
         Mappable(sub, super), NEW k, Counts(sub, k)
  PROVE  MappedOffset(sub, super, k) \in Nat
<1> DEFINE w == MappedTerms(sub, super, k)
<1>1. \A i \in Dims(sub) : w[i] \in Nat
  BY MappedTermsTyped
<1>2. IsFiniteSet(Dims(sub))
  BY Described
<1> HIDE DEF w
<1>3. Sum(w, Dims(sub)) \in Nat
  BY <1>1, <1>2, SumRemove
<1>4. QED
  BY <1>3, MappedOffsetAdds DEF w

\* Where no mapping is necessary, the two arrays have the same elements.
LEMMA SameArrays ==
  ASSUME NEW sub, NEW super, DescriptorSpace(sub), DescriptorSpace(super),
         Mappable(sub, super), ~ Necessary(sub, super), NEW k, Counts(sub, k)
  PROVE  /\ Dims(super) = Dims(sub) /\ NumDim(super) = NumDim(sub)
         /\ super.elem = sub.elem
         /\ \A i \in Dims(sub) : DimSize(super, i) = DimSize(sub, i)
         /\ MappedOffset(sub, super, k) = Offset(super, k)
<1>1. Dims(super) = Dims(sub) /\ NumDim(super) = NumDim(sub) /\ super.elem = sub.elem
  BY DEF Mappable, Dims
<1>2. ASSUME NEW i \in Dims(sub)
      PROVE  /\ DimSize(super, i) = DimSize(sub, i)
             /\ DimMapping(sub, super, i) = i
             /\ MappedIndex(sub, super, k, i) = k[i]
  <2>1. /\ DimMapping(sub, super, i) = i /\ MapDir(sub, super, i) = 1
        /\ sub.gran[i] = super.gran[i]
        /\ sub.start[i] = super.start[i] /\ sub.end[i] = super.end[i]
    BY DEF Necessary, SameSteps
  <2>2. sub.start[i] \in Int /\ sub.gran[i] \in Nat \ {0} /\ k[i] \in Nat
    BY DEF DescriptorSpace, Dims, NumDim, Counts
  <2>3. DimSize(super, i) = DimSize(sub, i)
    BY <2>1 DEF DimSize
  <2> DEFINE s == sub.start[i]
             g == sub.gran[i]
             n == k[i]
  <2>4. MappedIndex(sub, super, k, i) = Distance(s, s) \div g + 1 * ((n * 1) \div 1)
    BY <2>1, <2>2 DEF MappedIndex, IndexMapping, GranMapping, GranDivMapping
  <2> HIDE DEF s, g, n
  <2>5. s \in Int /\ g \in Nat \ {0} /\ n \in Nat
    BY <2>2 DEF s, g, n
  <2>6. Distance(s, s) = 0
    BY <2>5 DEF Distance
  <2>7. 0 \div g = 0
    BY <2>5, SMTT(30)
  <2>8. QED
    BY <2>1, <2>3, <2>4, <2>5, <2>6, <2>7 DEF n
<1>3. MappedTerms(sub, super, k) = Terms(super, k)
  BY <1>1, <1>2 DEF MappedTerms, Terms
<1>4. QED
  BY <1>1, <1>2, <1>3, MappedOffsetAdds, OffsetAdds

LEMMA MappedOrigin ==
  ASSUME NEW sub, NEW super, DescriptorSpace(sub), DescriptorSpace(super),
         Mappable(sub, super), ~ Necessary(sub, super)
  PROVE  MappedOffset(sub, super, Origin(sub)) = 0
<1>1. Counts(sub, Origin(sub))
  BY OffsetOfOrigin
<1>2. /\ Dims(super) = Dims(sub)
      /\ MappedOffset(sub, super, Origin(sub)) = Offset(super, Origin(sub))
  BY <1>1, SameArrays
<1>3. Origin(super) = Origin(sub)
  BY <1>2 DEF Origin
<1>4. QED
  BY <1>2, <1>3, OffsetOfOrigin

-----------------------------------------------------------------------------
(* The order of the elements and the order of their bytes                     *)

\* What lies in one element of dimension i is inside it.
LEMMA Within ==
  ASSUME NEW a, DescriptorSpace(a), NEW k, Counts(a, k),
         NEW d \in 0 .. NumDim(a), NEW i \in 0 .. d
  PROVE  Sum(Terms(a, k), i + 1 .. d) + Content(a, d) <= Content(a, i)
<1> DEFINE N == NumDim(a)
           w == Terms(a, k)
           C(h) == Content(a, h)
           In(h) == Sum(w, h + 1 .. d) + C(d) <= C(h)
           T == {n \in Nat : d - n >= i => In(d - n)}
<1>1. N \in Nat \ {0} /\ Dims(a) = 1 .. N /\ \A h \in Dims(a) : a.sep[h] \in Nat
  BY Described
<1>2. \A h \in 1 .. N : w[h] \in Nat
  BY <1>1, TermsTyped DEF Counts
<1>3. \A h \in 0 .. N : C(h) \in Nat
  BY CoefficientsAre
<1>4. d \in 0 .. N /\ d \in Nat /\ i \in Nat /\ i <= d
  BY <1>1
<1>5. ASSUME NEW h \in i .. d, h # d
      PROVE  w[h + 1] + C(h + 1) <= C(h)
  <2>1. h + 1 \in Dims(a) /\ h # NumDim(a) /\ h + 1 \in 0 .. N
    BY <1>1, <1>4, <1>5
  <2> DEFINE c == Coefficients(a)[h + 1]
             x == k[h + 1]
             y == DimSize(a, h + 1)
             ss == a.sep[h + 1]
             cc == C(h + 1)
             c0 == C(h)
             ww == w[h + 1]
  <2>2. x \in Nat /\ x + 1 <= y /\ y \in Nat
    BY <2>1, Described DEF Counts
  <2>3. c0 = c * y /\ c = ss + cc /\ ww = c * x /\ c \in Nat /\ ss \in Nat /\ cc \in Nat
    BY <1>1, <1>3, <2>1, CoefficientsAre DEF Content, Terms
  <2> HIDE DEF c, x, y, ss, cc, c0, ww, C, w
  <2>4. c * (x + 1) = c * x + c /\ c * x \in Nat
    BY <2>2, <2>3, Successor
  <2>5. c * (x + 1) <= c * y
    BY <2>2, <2>3, SMTT(30)
  <2>6. ww + cc <= c0
    BY <2>3, <2>4, <2>5
  <2>7. QED
    BY <2>6 DEF ww, cc, c0
<1> HIDE DEF N, w, C
<1>6. 0 \in T
  <2>1. d + 1 .. d = {} /\ d - 0 = d
    BY <1>4
  <2>2. In(d)
    BY <1>3, <1>4, <2>1, SumEmpty
  <2>3. QED
    BY <2>1, <2>2
<1>7. ASSUME NEW n \in Nat, n \in T
      PROVE  n + 1 \in T
  <2> SUFFICES ASSUME d - (n + 1) >= i PROVE In(d - (n + 1))
    OBVIOUS
  <2> DEFINE h == d - (n + 1)
  <2>1. h \in i .. d /\ h # d /\ h + 1 = d - n /\ h \in Nat /\ h + 1 \in 1 .. N /\ h + 1 <= d
        /\ h \in 0 .. N /\ h + 1 \in 0 .. N /\ d <= N
    BY <1>1, <1>4
  <2>2. In(h + 1)
    BY <1>7, <2>1
  <2> HIDE DEF h
  <2>3. /\ Sum(w, h + 1 .. d) = w[h + 1] + Sum(w, h + 1 + 1 .. d)
        /\ Sum(w, h + 1 + 1 .. d) \in Nat
    <3>1. \A j \in h + 1 .. d : w[j] \in Nat
      BY <1>1, <1>2, <1>4, <2>1
    <3>2. h + 1 \in Nat /\ d \in Int
      BY <1>4, <2>1
    <3>3. QED
      BY <2>1, <3>1, <3>2, SumFirst
  <2>4. w[h + 1] + C(h + 1) <= C(h)
    BY <1>5, <2>1
  <2>5. w[h + 1] \in Nat /\ C(h + 1) \in Nat /\ C(h) \in Nat /\ C(d) \in Nat
    BY <1>2, <1>3, <1>4, <2>1
  <2>6. In(h)
    BY <2>2, <2>3, <2>4, <2>5
  <2>7. QED
    BY <2>6 DEF h
<1>8. In(i)
  <2>1. d - i \in Nat /\ d - (d - i) = i
    BY <1>4
  <2>2. d - i \in T
    <3> HIDE DEF T
    <3>1. Nat \subseteq T
      BY <1>6, <1>7, FromZero
    <3>2. QED
      BY <2>1, <3>1
  <2>3. QED
    BY <1>4, <2>1, <2>2
<1>9. QED
  BY <1>8 DEF w, C

\* The dimensions up to d, and those above it
LEMMA OffsetSplit ==
  ASSUME NEW a, DescriptorSpace(a), NEW k, Counts(a, k), NEW d \in 0 .. NumDim(a)
  PROVE  /\ Sum(Terms(a, k), 1 .. d) \in Nat
         /\ Sum(Terms(a, k), d + 1 .. NumDim(a)) \in Nat
         /\ Offset(a, k) = Sum(Terms(a, k), 1 .. d) + Sum(Terms(a, k), d + 1 .. NumDim(a))
<1> DEFINE N == NumDim(a)
           w == Terms(a, k)
<1>1. N \in Nat \ {0} /\ Dims(a) = 1 .. N
  BY Described
<1>2. \A i \in 1 .. N : w[i] \in Nat
  BY <1>1, TermsTyped DEF Counts
<1>3. Offset(a, k) = Sum(w, 1 .. N)
  BY <1>1, OffsetAdds
<1>4. 1 <= d + 1 /\ d <= N /\ d \in Int /\ N \in Int
  BY <1>1
<1> HIDE DEF N, w
<1>5. /\ Sum(w, 1 .. d) \in Nat /\ Sum(w, d + 1 .. N) \in Nat
      /\ Sum(w, 1 .. N) = Sum(w, 1 .. d) + Sum(w, d + 1 .. N)
  BY <1>2, <1>4, SumInterval
<1>6. QED
  BY <1>3, <1>5 DEF N, w

\* The index k stands before l in a dimension up to d.
PrecedesWithin(k, l, d) ==
    \E i \in 1 .. d : k[i] < l[i] /\ \A h \in 1 .. i - 1 : k[h] = l[h]

\* Then all of its element of dimension d lies before what l stands at.
LEMMA Ordered ==
  ASSUME NEW a, DescriptorSpace(a), NEW k, Counts(a, k), NEW l, Counts(a, l),
         NEW d \in 0 .. NumDim(a), PrecedesWithin(k, l, d)
  PROVE  Sum(Terms(a, k), 1 .. d) + Content(a, d) <= Offset(a, l)
<1> DEFINE N == NumDim(a)
           w == Terms(a, k)
           v == Terms(a, l)
<1>1. N \in Nat \ {0} /\ Dims(a) = 1 .. N /\ d \in Nat /\ d <= N
  BY Described
<1>2. PICK i \in 1 .. d : k[i] < l[i] /\ \A h \in 1 .. i - 1 : k[h] = l[h]
  BY DEF PrecedesWithin
<1>3. i \in Dims(a) /\ i \in Nat /\ i <= d /\ i - 1 \in Nat /\ i - 1 + 1 = i /\ i <= N
      /\ i \in 0 .. d /\ i \in 0 .. N
  BY <1>1
<1>4. \A h \in 1 .. N : w[h] \in Nat /\ v[h] \in Nat
  BY <1>1, TermsTyped DEF Counts
<1>5. Sum(w, i + 1 .. d) + Content(a, d) <= Content(a, i)
  BY <1>3, Within
<1>6. Content(a, i) \in Nat /\ Content(a, d) \in Nat
  BY <1>3, CoefficientsAre
<1>7. w[i] + Content(a, i) <= v[i]
  <2> DEFINE c == Coefficients(a)[i]
             x == k[i]
             y == l[i]
             C == Content(a, i)
             ww == w[i]
             vv == v[i]
  <2>1. ww = c * x /\ vv = c * y /\ c = a.sep[i] + C
    BY <1>3, CoefficientsAre DEF Terms
  <2>2. x \in Nat /\ y \in Nat /\ x + 1 <= y /\ c \in Nat /\ a.sep[i] \in Nat /\ C \in Nat
    BY <1>2, <1>3, <1>6, CoefficientsAre, Described DEF Counts
  <2> HIDE DEF c, x, y, C, ww, vv
  <2>3. c * (x + 1) = c * x + c /\ c * x \in Nat
    BY <2>2, Successor
  <2>4. c * (x + 1) <= c * y
    BY <2>2, SMTT(30)
  <2>5. c * y \in Nat
    BY <2>2, Successor
  <2>6. C <= c
    BY <2>1, <2>2
  <2>7. ww + C <= vv
    BY <2>1, <2>2, <2>3, <2>4, <2>5, <2>6
  <2>8. QED
    BY <2>7 DEF ww, vv, C
<1> HIDE DEF N, w, v
<1>8. /\ Sum(w, 1 .. i - 1) \in Nat /\ Sum(w, i + 1 .. d) \in Nat
      /\ Sum(w, 1 .. d) = Sum(w, 1 .. i - 1) + w[i] + Sum(w, i + 1 .. d)
  <2>1. \A h \in 1 .. d : w[h] \in Nat
    BY <1>1, <1>4
  <2>2. /\ Sum(w, 1 .. i - 1) \in Nat
        /\ Sum(w, 1 .. d) = Sum(w, 1 .. i - 1) + Sum(w, i - 1 + 1 .. d)
    BY <1>1, <1>3, <2>1, SumInterval
  <2>3. /\ Sum(w, i + 1 .. d) \in Nat
        /\ Sum(w, i .. d) = w[i] + Sum(w, i + 1 .. d)
    <3>1. \A h \in i .. d : w[h] \in Nat
      BY <1>1, <1>3, <2>1
    <3>2. i \in Nat /\ d \in Int /\ i <= d
      BY <1>1, <1>3
    <3>3. QED
      BY <3>1, <3>2, SumFirst
  <2>4. w[i] \in Nat
    BY <1>1, <1>3, <1>4
  <2>5. QED
    BY <1>3, <2>2, <2>3, <2>4
<1>9. /\ Sum(v, 1 .. i - 1) \in Nat /\ v[i] \in Nat
      /\ Sum(v, 1 .. i) = Sum(v, 1 .. i - 1) + v[i]
  <2>1. \A h \in 1 .. i : v[h] \in Nat
    BY <1>1, <1>3, <1>4
  <2>2. /\ Sum(v, 1 .. i - 1) \in Nat
        /\ Sum(v, 1 .. i) = Sum(v, 1 .. i - 1) + Sum(v, i - 1 + 1 .. i)
    <3> DEFINE b == i - 1
    <3>1. 1 \in Nat /\ b \in Int /\ i \in Int /\ 1 <= b + 1 /\ b <= i
      BY <1>3
    <3> HIDE DEF b
    <3>2. /\ Sum(v, 1 .. b) \in Nat
          /\ Sum(v, 1 .. i) = Sum(v, 1 .. b) + Sum(v, b + 1 .. i)
      BY <2>1, <3>1, SumInterval
    <3>3. QED
      BY <3>2 DEF b
  <2>3. Sum(v, i .. i) = v[i] + Sum(v, i + 1 .. i)
    <3>1. \A h \in i .. i : v[h] \in Nat
      BY <1>1, <1>3, <2>1
    <3>2. i \in Nat /\ i \in Int /\ i <= i
      BY <1>3
    <3>3. QED
      BY <3>1, <3>2, SumFirst
  <2>4. i + 1 .. i = {} /\ v[i] \in Nat
    BY <1>3, <2>1
  <2>5. QED
    BY <1>3, <2>2, <2>3, <2>4, SumEmpty
<1>10. Sum(v, 1 .. i - 1) = Sum(w, 1 .. i - 1)
  <2>1. \A h \in 1 .. i - 1 : h \in Dims(a)
    BY <1>1, <1>3
  <2>2. \A h \in 1 .. i - 1 : v[h] = w[h]
    BY <1>2, <2>1 DEF v, w, Terms
  <2>3. IsFiniteSet(1 .. i - 1)
    BY <1>3, FS_Interval
  <2>4. QED
    BY <2>2, <2>3, SumEqual
<1>11. Offset(a, l) \in Nat /\ Sum(v, 1 .. i) <= Offset(a, l)
  <2>1. /\ Sum(v, 1 .. i) \in Nat /\ Sum(v, i + 1 .. N) \in Nat
        /\ Offset(a, l) = Sum(v, 1 .. i) + Sum(v, i + 1 .. N)
    BY <1>3, OffsetSplit DEF v, N
  <2>2. QED
    BY <2>1
<1>12. QED
  <2> DEFINE A == Sum(w, 1 .. i - 1)
             B == Sum(w, i + 1 .. d)
             C == Content(a, i)
             E == Content(a, d)
             x == w[i]
             y == v[i]
             S == Sum(w, 1 .. d)
             O == Offset(a, l)
  <2>1. /\ A \in Nat /\ B \in Nat /\ C \in Nat /\ E \in Nat /\ y \in Nat /\ O \in Nat /\ x \in Nat
        /\ S = A + x + B /\ B + E <= C /\ x + C <= y /\ A + y <= O
    <3>1. w[i] \in Nat
      BY <1>1, <1>3, <1>4
    <3>2. QED
      BY <1>5, <1>6, <1>7, <1>8, <1>9, <1>10, <1>11, <3>1
  <2> HIDE DEF A, B, C, E, x, y, S, O
  <2>2. S + E <= O
    BY <2>1
  <2>3. QED
    BY <2>2 DEF S, E, O, w

-----------------------------------------------------------------------------
(* The elements of an array, one after the other                              *)

LEMMA LargestSize ==
  ASSUME NEW a, DescriptorSpace(a)
  PROVE  LET S == {DimSize(a, i) : i \in Dims(a)}
         IN  Max(S) \in S /\ \A x \in S : Max(S) >= x
<1> DEFINE N == NumDim(a)
           D(i) == DimSize(a, i)
           S == {D(i) : i \in Dims(a)}
           T == {n \in Nat : n < N => \E m \in 1 .. n + 1 : \A i \in 1 .. n + 1 : D(m) >= D(i)}
<1>1. N \in Nat \ {0} /\ Dims(a) = 1 .. N /\ \A i \in 1 .. N : D(i) \in Nat
  BY Described
<1> HIDE DEF N, D
<1>2. 0 \in T
  BY <1>1
<1>3. ASSUME NEW n \in Nat, n \in T
      PROVE  n + 1 \in T
  <2> SUFFICES ASSUME n + 1 < N
               PROVE  \E m \in 1 .. n + 1 + 1 : \A i \in 1 .. n + 1 + 1 : D(m) >= D(i)
    OBVIOUS
  <2>1. PICK m \in 1 .. n + 1 : \A i \in 1 .. n + 1 : D(m) >= D(i)
    BY <1>1, <1>3
  <2>2. D(m) \in Nat /\ D(n + 2) \in Nat /\ \A i \in 1 .. n + 1 : D(i) \in Nat
    BY <1>1
  <2>3. CASE D(m) >= D(n + 2)
    <3>1. \A i \in 1 .. n + 1 + 1 : i \in 1 .. n + 1 \/ i = n + 2
      OBVIOUS
    <3>2. \A i \in 1 .. n + 1 + 1 : D(m) >= D(i)
      BY <2>1, <2>3, <3>1
    <3>3. m \in 1 .. n + 1 + 1
      OBVIOUS
    <3>4. QED
      BY <3>2, <3>3
  <2>4. CASE ~ (D(m) >= D(n + 2))
    <3>1. \A i \in 1 .. n + 1 + 1 : i \in 1 .. n + 1 \/ i = n + 2
      OBVIOUS
    <3>2. \A i \in 1 .. n + 1 + 1 : D(n + 2) >= D(i)
      BY <2>1, <2>2, <2>4, <3>1
    <3>3. n + 2 \in 1 .. n + 1 + 1
      OBVIOUS
    <3>4. QED
      BY <3>2, <3>3
  <2>5. QED
    BY <2>3, <2>4
<1>4. N - 1 \in T
  <2> HIDE DEF T
  <2>1. Nat \subseteq T
    BY <1>2, <1>3, FromZero
  <2>2. QED
    BY <1>1, <2>1
<1>5. PICK m \in 1 .. N : \A i \in 1 .. N : D(m) >= D(i)
  <2>1. N - 1 < N /\ N - 1 + 1 = N
    BY <1>1
  <2>2. QED
    BY <1>4, <2>1
<1>6. D(m) \in S /\ \A x \in S : D(m) >= x
  BY <1>1, <1>5
<1> HIDE DEF S
<1>7. Max(S) \in S /\ \A x \in S : Max(S) >= x
  BY <1>6 DEF Max
<1>8. QED
  BY <1>7 DEF S, D

LEMMA ElementsAre ==
  ASSUME NEW a, DescriptorSpace(a), NEW k
  PROVE  k \in Elements(a) <=> k \in [Dims(a) -> Nat] /\ Counts(a, k)
<1> DEFINE S == {DimSize(a, i) : i \in Dims(a)}
           longest == Max(S)
<1>1. longest \in S /\ \A x \in S : longest >= x
  BY LargestSize
<1>2. longest \in Nat /\ \A i \in Dims(a) : DimSize(a, i) \in Nat /\ DimSize(a, i) <= longest
  BY <1>1, Described
<1>3. Elements(a) = {l \in [Dims(a) -> 0 .. longest - 1] :
                       \A i \in Dims(a) : l[i] < DimSize(a, i)}
  BY DEF Elements
<1> HIDE DEF S, longest
<1>4. ASSUME k \in Elements(a)
      PROVE  k \in [Dims(a) -> Nat] /\ Counts(a, k)
  <2>1. k \in [Dims(a) -> 0 .. longest - 1] /\ \A i \in Dims(a) : k[i] < DimSize(a, i)
    BY <1>3, <1>4
  <2>2. k = [i \in Dims(a) |-> k[i]] /\ \A i \in Dims(a) : k[i] \in Nat
    BY <1>2, <2>1
  <2>3. QED
    BY <2>1, <2>2 DEF Counts
<1>5. ASSUME k \in [Dims(a) -> Nat], Counts(a, k)
      PROVE  k \in Elements(a)
  <2>1. \A i \in Dims(a) : k[i] \in 0 .. longest - 1 /\ k[i] < DimSize(a, i)
    BY <1>2, <1>5 DEF Counts
  <2>2. k = [i \in Dims(a) |-> k[i]]
    BY <1>5
  <2>3. k \in [Dims(a) -> 0 .. longest - 1]
    BY <2>1, <2>2
  <2>4. QED
    BY <1>3, <2>1, <2>3
<1>6. QED
  BY <1>4, <1>5

\* Two elements are in one order, and their bytes are in the same.
LEMMA Trichotomy ==
  ASSUME NEW a, DescriptorSpace(a), NEW k \in Elements(a), NEW l \in Elements(a)
  PROVE  k = l \/ Precedes(a, k, l) \/ Precedes(a, l, k)
<1> SUFFICES ASSUME k # l PROVE Precedes(a, k, l) \/ Precedes(a, l, k)
  OBVIOUS
<1> DEFINE T == {i \in Dims(a) : k[i] # l[i]}
<1>1. k \in [Dims(a) -> Nat] /\ l \in [Dims(a) -> Nat]
  BY ElementsAre
<1>2. T # {}
  BY <1>1
<1>3. NumDim(a) \in Nat /\ Dims(a) = 1 .. NumDim(a)
  BY Described
<1>4. PICK i \in T : \A j \in T : i <= j
  <2>1. T \in SUBSET Nat
    BY <1>3
  <2> HIDE DEF T
  <2>2. QED
    BY <1>2, <2>1, Least
<1>5. \A h \in 1 .. i - 1 : k[h] = l[h]
  <2>1. ASSUME NEW h \in 1 .. i - 1, k[h] # l[h]
        PROVE  FALSE
    <3>1. h \in Dims(a) /\ ~ (i <= h)
      BY <1>3
    <3>2. h \in T
      BY <2>1, <3>1
    <3>3. QED
      BY <1>4, <3>1, <3>2
  <2>2. QED
    BY <2>1
<1>6. k[i] \in Nat /\ l[i] \in Nat /\ k[i] # l[i] /\ i \in Dims(a)
  BY <1>1
<1>7. k[i] < l[i] \/ l[i] < k[i]
  BY <1>6
<1>8. QED
  BY <1>5, <1>6, <1>7 DEF Precedes

LEMMA BytesOrdered ==
  ASSUME NEW a, DescriptorSpace(a), NEW k \in Elements(a), NEW l \in Elements(a),
         Precedes(a, k, l)
  PROVE  /\ Offset(a, k) \in Nat /\ Offset(a, l) \in Nat
         /\ Offset(a, k) + a.elem <= Offset(a, l)
         /\ k # l /\ ~ Precedes(a, l, k)
<1> DEFINE N == NumDim(a)
<1>1. N \in Nat \ {0} /\ Dims(a) = 1 .. N /\ N \in 0 .. N /\ a.elem \in Nat \ {0}
  BY Described
<1>2. Content(a, N) = a.elem
  BY DEF Content
<1>3. ASSUME NEW x \in Elements(a), NEW y \in Elements(a), Precedes(a, x, y)
      PROVE  /\ Offset(a, x) \in Nat /\ Offset(a, y) \in Nat
             /\ Offset(a, x) + a.elem <= Offset(a, y)
  <2>1. PrecedesWithin(x, y, N)
    BY <1>1, <1>3 DEF Precedes, PrecedesWithin
  <2>2. Counts(a, x) /\ Counts(a, y)
    BY ElementsAre
  <2>3. Sum(Terms(a, x), 1 .. N) + Content(a, N) <= Offset(a, y)
    BY <1>1, <2>1, <2>2, Ordered
  <2>4. Offset(a, x) = Sum(Terms(a, x), 1 .. N)
    BY <1>1, OffsetAdds
  <2>5. Offset(a, x) \in Nat /\ Offset(a, y) \in Nat
    BY <2>2, TermsTyped DEF Counts
  <2>6. QED
    BY <1>2, <2>3, <2>4, <2>5
<1>4. /\ Offset(a, k) \in Nat /\ Offset(a, l) \in Nat
      /\ Offset(a, k) + a.elem <= Offset(a, l)
  BY <1>3
<1>5. k # l
  BY <1>1, <1>4
<1>6. ~ Precedes(a, l, k)
  <2>1. Precedes(a, l, k) => Offset(a, l) + a.elem <= Offset(a, k)
    BY <1>3
  <2>2. QED
    BY <1>1, <1>4, <2>1
<1>7. QED
  BY <1>4, <1>5, <1>6

\* Counting up leads to the element that follows: there is none between them.
LEMMA NextElement ==
  ASSUME NEW a, DescriptorSpace(a), NEW p \in Elements(a),
         NEW n, n = Incremented(a, p, NumDim(a))
  PROVE  /\ n \in Elements(a)
         /\ n = Origin(a) => \A l \in Elements(a) : l = p \/ Precedes(a, l, p)
         /\ n # Origin(a) => \A l \in Elements(a) :
                               Precedes(a, l, n) <=> Precedes(a, l, p) \/ l = p
<1> DEFINE N == NumDim(a)
           D(i) == DimSize(a, i)
<1>1. N \in Nat \ {0} /\ Dims(a) = 1 .. N /\ N \in 0 .. N
  BY Described
<1>2. Counts(a, p) /\ p \in [Dims(a) -> Nat]
  BY ElementsAre
<1>3. /\ n \in [Dims(a) -> Nat] /\ Counts(a, n)
      /\ \A j \in N + 1 .. N : n[j] = p[j]
      /\ \/ \A j \in 1 .. N : p[j] + 1 = D(j) /\ n[j] = 0
         \/ \E m \in 1 .. N : /\ p[m] + 1 < D(m) /\ n[m] = p[m] + 1
                              /\ \A j \in m + 1 .. N : p[j] + 1 = D(j) /\ n[j] = 0
                              /\ \A j \in 1 .. m - 1 : n[j] = p[j]
  <2> DEFINE d == N
  <2>1. d \in 0 .. NumDim(a) /\ n = Incremented(a, p, d)
    BY <1>1
  <2> HIDE DEF d
  <2>2. /\ n \in [Dims(a) -> Nat] /\ Counts(a, n)
        /\ \A j \in d + 1 .. NumDim(a) : n[j] = p[j]
        /\ \/ \A j \in 1 .. d : p[j] + 1 = DimSize(a, j) /\ n[j] = 0
           \/ \E m \in 1 .. d :
                /\ p[m] + 1 < DimSize(a, m) /\ n[m] = p[m] + 1
                /\ \A j \in m + 1 .. d : p[j] + 1 = DimSize(a, j) /\ n[j] = 0
                /\ \A j \in 1 .. m - 1 : n[j] = p[j]
    BY <1>2, <2>1, Advanced
  <2>3. QED
    BY <2>2 DEF d
<1>4. n \in Elements(a)
  BY <1>3, ElementsAre
<1>5. \A l \in Elements(a) : \A i \in 1 .. N : l[i] \in Nat /\ D(i) \in Nat /\ l[i] < D(i)
  <2>1. ASSUME NEW l \in Elements(a), NEW i \in 1 .. N
        PROVE  l[i] \in Nat /\ D(i) \in Nat /\ l[i] < D(i)
    <3>1. Counts(a, l)
      BY ElementsAre
    <3>2. QED
      BY <1>1, <3>1, Described DEF Counts
  <2>2. QED
    BY <2>1
<1> HIDE DEF N, D
<1>6. CASE \A j \in 1 .. N : p[j] + 1 = D(j) /\ n[j] = 0
  <2>1. n = Origin(a)
    BY <1>1, <1>3, <1>6 DEF Origin
  <2>2. ASSUME NEW l \in Elements(a), Precedes(a, p, l)
        PROVE  FALSE
    <3>1. PICK i \in 1 .. N : p[i] < l[i]
      BY <1>1, <2>2 DEF Precedes
    <3>2. QED
      BY <1>5, <1>6, <3>1
  <2>3. QED
    BY <1>4, <2>1, <2>2, Trichotomy
<1>7. CASE \E m \in 1 .. N : /\ p[m] + 1 < D(m) /\ n[m] = p[m] + 1
                             /\ \A j \in m + 1 .. N : p[j] + 1 = D(j) /\ n[j] = 0
                             /\ \A j \in 1 .. m - 1 : n[j] = p[j]
  <2>1. PICK m \in 1 .. N : /\ p[m] + 1 < D(m) /\ n[m] = p[m] + 1
                            /\ \A j \in m + 1 .. N : p[j] + 1 = D(j) /\ n[j] = 0
                            /\ \A j \in 1 .. m - 1 : n[j] = p[j]
    BY <1>7
  <2>2. n # Origin(a)
    <3>1. Origin(a)[m] = 0 /\ n[m] # 0
      BY <1>1, <1>5, <2>1 DEF Origin
    <3>2. QED
      BY <3>1
  <2>3. Precedes(a, p, n)
    <3>1. p[m] < n[m] /\ \A h \in 1 .. m - 1 : p[h] = n[h]
      BY <1>5, <2>1
    <3>2. QED
      BY <1>1, <3>1 DEF Precedes
  <2>4. ASSUME NEW l \in Elements(a), Precedes(a, l, p)
        PROVE  Precedes(a, l, n)
    <3>1. PICK i \in 1 .. N : l[i] < p[i] /\ \A h \in 1 .. i - 1 : l[h] = p[h]
      BY <1>1, <2>4 DEF Precedes
    <3>2. CASE i < m
      <4>1. l[i] < n[i] /\ \A h \in 1 .. i - 1 : l[h] = n[h]
        BY <1>1, <2>1, <3>1, <3>2
      <4>2. QED
        BY <1>1, <4>1 DEF Precedes
    <3>3. CASE i >= m
      <4>1. l[m] <= p[m]
        <5>1. CASE i = m
          BY <1>5, <3>1, <5>1
        <5>2. CASE i > m
          BY <1>1, <1>5, <3>1, <5>2
        <5>3. QED
          BY <1>1, <3>3, <5>1, <5>2
      <4>2. \A h \in 1 .. m - 1 : l[h] = n[h]
        BY <1>1, <2>1, <3>1, <3>3
      <4>3. l[m] < n[m]
        BY <1>5, <2>1, <4>1
      <4>4. QED
        BY <1>1, <4>2, <4>3 DEF Precedes
    <3>4. QED
      BY <1>1, <3>2, <3>3
  <2>5. ASSUME NEW l \in Elements(a), Precedes(a, p, l), Precedes(a, l, n)
        PROVE  FALSE
    <3>1. PICK i \in 1 .. N : p[i] < l[i] /\ \A h \in 1 .. i - 1 : p[h] = l[h]
      BY <1>1, <2>5 DEF Precedes
    <3>2. ~ Precedes(a, n, l)
      BY <1>4, <2>5, BytesOrdered
    <3>3. i <= m
      BY <1>1, <1>5, <2>1, <3>1
    <3>4. CASE i < m
      <4>1. n[i] < l[i] /\ \A h \in 1 .. i - 1 : n[h] = l[h]
        BY <1>1, <2>1, <3>1, <3>4
      <4>2. QED
        BY <1>1, <3>2, <4>1 DEF Precedes
    <3>5. CASE i = m
      <4>1. n[m] <= l[m] /\ \A h \in 1 .. m - 1 : n[h] = l[h]
        BY <1>1, <1>5, <2>1, <3>1, <3>5
      <4>2. n[m] = l[m]
        <5>1. ~ (n[m] < l[m])
          BY <1>1, <3>2, <4>1 DEF Precedes
        <5>2. QED
          BY <1>4, <1>5, <4>1, <5>1
      <4>3. PICK j \in 1 .. N : l[j] < n[j] /\ \A h \in 1 .. j - 1 : l[h] = n[h]
        BY <1>1, <2>5 DEF Precedes
      <4>4. j > m
        BY <1>1, <1>4, <1>5, <4>1, <4>2, <4>3
      <4>5. n[j] = 0 /\ l[j] \in Nat
        BY <1>1, <1>5, <2>1, <4>4
      <4>6. QED
        BY <4>3, <4>5
    <3>6. QED
      BY <1>1, <3>3, <3>4, <3>5
  <2>6. ASSUME NEW l \in Elements(a)
        PROVE  Precedes(a, l, n) <=> Precedes(a, l, p) \/ l = p
    BY <2>3, <2>4, <2>5, Trichotomy
  <2>7. QED
    BY <1>4, <2>2, <2>6
<1>8. QED
  BY <1>3, <1>6, <1>7

\* Each element but the first follows another one.
LEMMA Predecessor ==
  ASSUME NEW a, DescriptorSpace(a), NEW k \in Elements(a), k # Origin(a)
  PROVE  \E p \in Elements(a) : Incremented(a, p, NumDim(a)) = k
<1> DEFINE N == NumDim(a)
           D(i) == DimSize(a, i)
           T == {n \in Nat : n < N /\ k[N - n] # 0}
<1>1. N \in Nat \ {0} /\ Dims(a) = 1 .. N /\ N \in 0 .. N /\ \A i \in 1 .. N : D(i) \in Nat \ {0}
  BY Described
<1>2. k \in [Dims(a) -> Nat] /\ \A i \in 1 .. N : k[i] \in Nat /\ k[i] < D(i)
  BY <1>1, ElementsAre DEF Counts
<1> HIDE DEF N, D
<1>3. T # {}
  <2>1. PICK i \in 1 .. N : k[i] # 0
    BY <1>1, <1>2 DEF Origin
  <2>2. N - i \in Nat /\ N - i < N /\ N - (N - i) = i
    BY <1>1
  <2>3. QED
    BY <2>1, <2>2
<1>4. PICK n \in T : \A x \in T : n <= x
  <2>1. T \in SUBSET Nat
    OBVIOUS
  <2> HIDE DEF T
  <2>2. QED
    BY <1>3, <2>1, Least
<1> DEFINE m == N - n
<1>5. m \in 1 .. N /\ k[m] # 0 /\ m \in Nat
  BY <1>1, <1>4
<1>6. \A i \in m + 1 .. N : k[i] = 0
  <2>1. ASSUME NEW i \in m + 1 .. N, k[i] # 0
        PROVE  FALSE
    <3>1. N - i \in Nat /\ N - i < N /\ N - (N - i) = i /\ N - i < n
      BY <1>1, <1>4
    <3>2. N - i \in T
      BY <2>1, <3>1
    <3>3. QED
      BY <1>4, <3>1, <3>2
  <2>2. QED
    BY <2>1
<1> HIDE DEF m, T
<1> DEFINE p == [i \in Dims(a) |-> IF i < m THEN k[i]
                                   ELSE IF i = m THEN k[m] - 1 ELSE D(i) - 1]
<1>7. /\ p = [i \in Dims(a) |-> p[i]]
      /\ \A i \in 1 .. N : i < m => p[i] = k[i]
      /\ \A i \in 1 .. N : i = m => p[i] = k[i] - 1
      /\ \A i \in 1 .. N : i > m => p[i] = D(i) - 1
  BY <1>1, <1>5
<1> HIDE DEF p
<1>8. p \in [Dims(a) -> Nat] /\ \A i \in 1 .. N : p[i] \in Nat /\ p[i] < D(i)
  <2>1. ASSUME NEW i \in 1 .. N
        PROVE  p[i] \in Nat /\ p[i] < D(i)
    <3>1. k[i] \in Nat /\ k[i] < D(i) /\ D(i) \in Nat \ {0} /\ (i = m => k[i] # 0)
      BY <1>1, <1>2, <1>5
    <3>2. i < m \/ i = m \/ i > m
      BY <1>5
    <3>3. \/ p[i] = k[i]
          \/ p[i] = k[i] - 1 /\ k[i] # 0
          \/ p[i] = D(i) - 1
      BY <1>7, <3>1, <3>2
    <3>4. QED
      BY <3>1, <3>3
  <2>2. QED
    BY <1>1, <1>7, <2>1
<1>9. p \in Elements(a)
  BY <1>1, <1>8, ElementsAre DEF Counts, D
<1> DEFINE q == Incremented(a, p, N)
<1>10. \A i \in 1 .. N :
          q[i] = IF \A j \in i + 1 .. N : p[j] + 1 = D(j)
                 THEN (p[i] + 1) % D(i) ELSE p[i]
  BY <1>1 DEF Incremented, D
<1>11. q = [i \in Dims(a) |-> q[i]]
  BY DEF Incremented
<1> HIDE DEF q
<1>12. ASSUME NEW i \in 1 .. N, i >= m, NEW j \in i + 1 .. N
       PROVE  p[j] + 1 = D(j)
  <2>1. j \in 1 .. N /\ j > m /\ D(j) \in Nat
    BY <1>1, <1>5, <1>12
  <2>2. p[j] = D(j) - 1
    BY <1>7, <2>1
  <2>3. QED
    BY <2>1, <2>2
<1>13. ASSUME NEW i \in 1 .. N
       PROVE  q[i] = k[i]
  <2> DEFINE x == D(i)
  <2>1. x \in Nat \ {0}
    BY <1>1
  <2>2. CASE i > m
    <3>1. p[i] + 1 = x
      <4>1. p[i] = x - 1
        BY <1>7, <2>2
      <4> HIDE DEF x
      <4>2. QED
        BY <2>1, <4>1
    <3>2. \A j \in i + 1 .. N : p[j] + 1 = D(j)
      BY <1>1, <1>5, <1>12, <2>2
    <3>3. q[i] = x % x
      BY <1>10, <3>1, <3>2
    <3> HIDE DEF x
    <3>4. x % x = 0
      BY <2>1, SMTT(30)
    <3>5. k[i] = 0
      BY <1>1, <1>5, <1>6, <2>2
    <3>6. QED
      BY <3>3, <3>4, <3>5
  <2>3. CASE i = m
    <3>1. p[i] + 1 = k[i] /\ k[i] \in Nat /\ k[i] < x
      BY <1>2, <1>5, <1>7, <2>3
    <3>2. \A j \in i + 1 .. N : p[j] + 1 = D(j)
      BY <1>12, <2>3
    <3> DEFINE y == k[i]
    <3>3. q[i] = y % x
      BY <1>10, <3>1, <3>2
    <3>4. y \in Nat /\ y < x
      BY <3>1
    <3> HIDE DEF x, y
    <3>5. y % x = y
      BY <2>1, <3>4, SMTT(30)
    <3>6. QED
      BY <3>3, <3>5 DEF y
  <2>4. CASE i < m
    <3>1. p[m] + 1 # D(m)
      BY <1>2, <1>5, <1>7
    <3>2. m \in i + 1 .. N
      BY <1>1, <1>5, <2>4
    <3>3. q[i] = p[i]
      BY <1>10, <3>1, <3>2
    <3>4. QED
      BY <1>7, <2>4, <3>3
  <2>5. QED
    BY <1>5, <2>2, <2>3, <2>4
<1>14. q = k
  BY <1>1, <1>2, <1>11, <1>13
<1>15. QED
  BY <1>9, <1>14 DEF q, N

-----------------------------------------------------------------------------
(* The offset of an element is the place that the elements before it leave    *)

Before(a, k) == {l \in Elements(a) : Precedes(a, l, k)}
ElementTerms(a) == [l \in Elements(a) |-> a.elem + Sum(a.sep, Ended(a, l))]

LEMMA PlaceAdds ==
  ASSUME NEW a, NEW k
  PROVE  Place(a, k) = Sum(ElementTerms(a), Before(a, k))
<1> DEFINE w == ElementTerms(a)
           J == Before(a, k)
           Term(l) == a.elem + MapThenSumSet(LAMBDA i : a.sep[i], Ended(a, l))
           F(g) == [s \in SUBSET J |-> IF s = {} THEN 0
                      ELSE Term(CHOOSE x \in s : TRUE)
                             + g[s \ {CHOOSE x \in s : TRUE}]]
           It(g) == g = F(g)
<1>1. Place(a, k) = MapThenSumSet(Term, J)
  BY DEF Place, Before
<1>2. MapThenSumSet(Term, J) = (CHOOSE g : It(g))[J]
  BY DEF MapThenSumSet, MapThenFoldSet
<1>3. \A l \in Elements(a) : w[l] = Term(l)
  <2>1. ASSUME NEW l
        PROVE  MapThenSumSet(LAMBDA i : a.sep[i], Ended(a, l)) = Sum(a.sep, Ended(a, l))
    BY DEF MapThenSumSet, MapThenFoldSet, Sum, Iterates, Summed, Chosen
  <2>2. QED
    BY <2>1 DEF ElementTerms
<1>4. J \subseteq Elements(a)
  BY DEF Before
<1> HIDE DEF Term, w, J
<1>5. \A g : It(g) <=> Iterates(g, w, J)
  <2> SUFFICES ASSUME NEW g PROVE It(g) <=> Iterates(g, w, J)
    OBVIOUS
  <2> DEFINE G == [s \in SUBSET J |-> Summed(w, g, s)]
  <2>1. ASSUME NEW s \in SUBSET J
        PROVE  F(g)[s] = G[s]
    <3>1. s # {} => (CHOOSE x \in s : TRUE) \in Elements(a)
      BY <1>4
    <3>2. QED
      BY <1>3, <3>1 DEF Summed, Chosen
  <2>2. F(g) = G
    BY <2>1
  <2>3. QED
    BY <2>2 DEF Iterates
<1>6. (CHOOSE g : It(g)) = (CHOOSE g : Iterates(g, w, J))
  <2> HIDE DEF It
  <2>1. QED
    BY <1>5, Zenon
<1>7. QED
  BY <1>1, <1>2, <1>6 DEF Sum, w, J

LEMMA EndedSeparation ==
  ASSUME NEW a, DescriptorSpace(a), NEW l
  PROVE  Sum(a.sep, Ended(a, l)) = SeparationAfter(a, l, NumDim(a))
<1>1. NumDim(a) \in Nat /\ Dims(a) = 1 .. NumDim(a)
  BY Described
<1>2. ASSUME NEW i \in Dims(a)
      PROVE  (\A j \in Dims(a) : j > i => l[j] + 1 = DimSize(a, j))
               <=> (\A j \in i + 1 .. NumDim(a) : l[j] + 1 = DimSize(a, j))
  BY <1>1
<1>3. Ended(a, l) = Carrying(a, l, NumDim(a))
  BY <1>1, <1>2 DEF Ended, Carrying
<1>4. QED
  BY <1>3, SeparationAdds

LEMMA PlaceIs ==
  ASSUME NEW a, DescriptorSpace(a), NEW k \in Elements(a)
  PROVE  IsFiniteSet(Before(a, k)) /\ Place(a, k) = Offset(a, k)
<1> DEFINE N == NumDim(a)
           w == ElementTerms(a)
           Right(l) == IsFiniteSet(Before(a, l)) /\ Sum(w, Before(a, l)) = Offset(a, l)
           T == {n \in Nat : \E l \in Elements(a) : Offset(a, l) = n /\ ~ Right(l)}
<1>1. N \in Nat \ {0} /\ Dims(a) = 1 .. N /\ N \in 0 .. N /\ a.elem \in Nat \ {0}
  BY Described
<1>2. \A l \in Elements(a) : Counts(a, l) /\ Offset(a, l) \in Nat
  <2>1. ASSUME NEW l \in Elements(a)
        PROVE  Counts(a, l) /\ Offset(a, l) \in Nat
    <3>1. Counts(a, l)
      BY ElementsAre
    <3>2. QED
      BY <3>1, TermsTyped DEF Counts
  <2>2. QED
    BY <2>1
<1>3. Right(Origin(a))
  <2>1. Origin(a) \in Elements(a) /\ Offset(a, Origin(a)) = 0
    BY OffsetOfOrigin, ElementsAre
  <2>2. ASSUME NEW l \in Elements(a), Precedes(a, l, Origin(a))
        PROVE  FALSE
    <3>1. Offset(a, l) + a.elem <= 0
      BY <2>1, <2>2, BytesOrdered
    <3>2. QED
      BY <1>1, <1>2, <3>1
  <2>3. Before(a, Origin(a)) = {}
    BY <2>2 DEF Before
  <2>4. QED
    BY <2>1, <2>3, SumEmpty, FS_EmptySet
<1>4. ASSUME NEW l \in Elements(a), l # Origin(a),
             \A p \in Elements(a) : Offset(a, p) < Offset(a, l) => Right(p)
      PROVE  Right(l)
  <2>1. PICK p \in Elements(a) : Incremented(a, p, N) = l
    BY <1>4, Predecessor
  <2>2. \A x \in Elements(a) : Precedes(a, x, l) <=> Precedes(a, x, p) \/ x = p
    BY <1>4, <2>1, NextElement
  <2>3. Before(a, l) = Before(a, p) \cup {p} /\ p \notin Before(a, p)
    <3>1. ~ Precedes(a, p, p)
      BY BytesOrdered
    <3>2. QED
      BY <2>2, <3>1 DEF Before
  <2>4. Precedes(a, p, l)
    BY <2>2
  <2>5. Offset(a, p) < Offset(a, l)
    BY <1>1, <1>2, <2>4, BytesOrdered
  <2>6. Right(p)
    BY <1>4, <2>5
  <2>7. /\ Offset(a, p) + Content(a, N) + SeparationAfter(a, p, N) = Offset(a, l)
        /\ SeparationAfter(a, p, N) \in Nat
    <3>1. \A j \in N + 1 .. N : p[j] = 0
      BY <1>1
    <3> DEFINE d == N
    <3>2. d \in 0 .. NumDim(a) /\ (\A j \in d + 1 .. NumDim(a) : p[j] = 0) /\ Counts(a, p)
          /\ Incremented(a, p, d) = l
      BY <1>1, <1>2, <2>1
    <3> HIDE DEF d
    <3>3. /\ SeparationAfter(a, p, d) \in Nat
          /\ Offset(a, p) + Content(a, d) + SeparationAfter(a, p, d)
               = IF Incremented(a, p, d) = Origin(a) THEN TotalSize(a)
                 ELSE Offset(a, Incremented(a, p, d))
      BY <3>2, Carry
    <3>4. QED
      BY <1>4, <3>2, <3>3 DEF d
  <2>8. w[p] = a.elem + SeparationAfter(a, p, N)
    BY EndedSeparation DEF ElementTerms
  <2>9. Content(a, N) = a.elem
    BY DEF Content
  <2>10. \A x \in Elements(a) : w[x] \in Nat
    <3>1. ASSUME NEW x \in Elements(a)
          PROVE  w[x] \in Nat
      <4>1. w[x] = a.elem + Sum(a.sep, Ended(a, x))
        BY DEF ElementTerms
      <4>2. Ended(a, x) \in SUBSET Dims(a)
        BY DEF Ended
      <4>3. Sum(a.sep, Ended(a, x)) \in Nat
        BY <4>2, Described, SumSubset
      <4>4. QED
        BY <1>1, <4>1, <4>3
    <3>2. QED
      BY <3>1
  <2> HIDE DEF w
  <2>11. IsFiniteSet(Before(a, l))
    BY <2>3, <2>6, FS_AddElement
  <2>12. Sum(w, Before(a, l)) = w[p] + Sum(w, Before(a, p))
    <3>1. \A x \in Before(a, l) : w[x] \in Nat
      BY <2>10 DEF Before
    <3>2. p \in Before(a, l) /\ Before(a, l) \ {p} = Before(a, p)
      BY <2>3
    <3>3. QED
      BY <2>11, <3>1, <3>2, SumRemove
  <2>13. Sum(w, Before(a, l)) = Offset(a, l)
    BY <1>1, <1>2, <2>6, <2>7, <2>8, <2>9, <2>12
  <2>14. QED
    BY <2>11, <2>13
<1>5. T = {}
  <2> SUFFICES ASSUME T # {} PROVE FALSE
    OBVIOUS
  <2>1. PICK n \in T : \A m \in T : n <= m
    <3>1. T \in SUBSET Nat
      OBVIOUS
    <3> HIDE DEF T
    <3>2. QED
      BY <3>1, Least
  <2>2. PICK l \in Elements(a) : Offset(a, l) = n /\ ~ Right(l)
    OBVIOUS
  <2> HIDE DEF Right
  <2>3. ASSUME NEW p \in Elements(a), Offset(a, p) < Offset(a, l), ~ Right(p)
        PROVE  FALSE
    <3>1. Offset(a, p) \in T
      BY <1>2, <2>3
    <3>2. QED
      BY <1>2, <2>1, <2>2, <2>3, <3>1
  <2>4. l # Origin(a)
    BY <1>3, <2>2
  <2>5. QED
    BY <1>4, <2>2, <2>3, <2>4
<1>6. Right(k)
  BY <1>2, <1>5
<1>7. QED
  BY <1>6, PlaceAdds

-----------------------------------------------------------------------------
(* The bytes of an array                                                      *)

\* Byte b is one of element k.
Holds(a, k, b) == Offset(a, k) <= b /\ b < Offset(a, k) + a.elem

LEMMA OneElement ==
  ASSUME NEW a, DescriptorSpace(a), NEW k \in Elements(a), NEW l \in Elements(a),
         NEW b \in Nat, Holds(a, k, b), Holds(a, l, b)
  PROVE  k = l
<1>1. a.elem \in Nat
  BY Described
<1>2. Precedes(a, k, l) => FALSE
  BY <1>1, BytesOrdered DEF Holds
<1>3. Precedes(a, l, k) => FALSE
  BY <1>1, BytesOrdered DEF Holds
<1>4. QED
  BY <1>2, <1>3, Trichotomy

\* Each byte follows an element's first one, with no other element between.
LEMMA ByteOf ==
  ASSUME NEW a, DescriptorSpace(a), NEW b \in Nat, b < TotalSize(a)
  PROVE  \E k \in Elements(a) :
           /\ Offset(a, k) <= b
           /\ b < Offset(a, k) + a.elem + SeparationAfter(a, k, NumDim(a))
           /\ \A l \in Elements(a) : Offset(a, l) <= b => Offset(a, l) <= Offset(a, k)
<1> DEFINE N == NumDim(a)
           T == {n \in Nat : \E k \in Elements(a) : Offset(a, k) <= b /\ n = b - Offset(a, k)}
<1>1. N \in Nat \ {0} /\ Dims(a) = 1 .. N /\ N \in 0 .. N /\ a.elem \in Nat \ {0}
  BY Described
<1>2. \A l \in Elements(a) : Counts(a, l) /\ Offset(a, l) \in Nat
  <2>1. ASSUME NEW l \in Elements(a)
        PROVE  Counts(a, l) /\ Offset(a, l) \in Nat
    <3>1. Counts(a, l)
      BY ElementsAre
    <3>2. QED
      BY <3>1, TermsTyped DEF Counts
  <2>2. QED
    BY <2>1
<1>3. T # {}
  <2>1. Origin(a) \in Elements(a) /\ Offset(a, Origin(a)) = 0
    BY OffsetOfOrigin, ElementsAre
  <2>2. b \in T
    BY <2>1
  <2>3. QED
    BY <2>2
<1>4. PICK n \in T : \A m \in T : n <= m
  <2>1. T \in SUBSET Nat
    OBVIOUS
  <2> HIDE DEF T
  <2>2. QED
    BY <1>3, <2>1, Least
<1>5. PICK k \in Elements(a) : Offset(a, k) <= b /\ n = b - Offset(a, k)
  OBVIOUS
<1>6. ASSUME NEW l \in Elements(a), Offset(a, l) <= b
      PROVE  Offset(a, l) <= Offset(a, k)
  <2>1. b - Offset(a, l) \in T
    BY <1>2, <1>6
  <2>2. n <= b - Offset(a, l)
    BY <1>4, <2>1
  <2>3. Offset(a, l) \in Nat /\ Offset(a, k) \in Nat
    BY <1>2
  <2>4. QED
    BY <1>5, <2>2, <2>3
<1> DEFINE d == N
           next == Incremented(a, k, d)
           sep == SeparationAfter(a, k, d)
<1>7. d \in 0 .. NumDim(a) /\ (\A j \in d + 1 .. NumDim(a) : k[j] = 0) /\ Counts(a, k)
  BY <1>1, <1>2
<1>8. Content(a, d) = a.elem
  BY DEF Content
<1>9. next \in Elements(a) /\ (next # Origin(a) => Precedes(a, k, next))
  BY NextElement
<1> HIDE DEF d
<1>10. /\ sep \in Nat
       /\ Offset(a, k) + a.elem + sep
            = IF next = Origin(a) THEN TotalSize(a) ELSE Offset(a, next)
  BY <1>7, <1>8, Carry
<1> HIDE DEF next, sep
<1>11. b < Offset(a, k) + a.elem + sep
  <2>1. CASE next = Origin(a)
    BY <1>10, <2>1
  <2>2. CASE next # Origin(a)
    <3>1. Offset(a, k) \in Nat /\ Offset(a, next) \in Nat /\ Offset(a, k) < Offset(a, next)
      BY <1>1, <1>2, <1>9, <2>2, BytesOrdered
    <3>2. ~ (Offset(a, next) <= b)
      BY <1>6, <1>9, <3>1
    <3>3. QED
      BY <1>10, <2>2, <3>1, <3>2
  <2>3. QED
    BY <2>1, <2>2
<1>12. QED
  BY <1>5, <1>6, <1>11 DEF sep, d

\* Where no dimension above d has separation, the content of dimension d is
\* elements only: those that agree in the dimensions up to d.
LEMMA BlockHolds ==
  ASSUME NEW a, DescriptorSpace(a), NEW x \in Elements(a), NEW d \in 0 .. NumDim(a),
         \A j \in d + 1 .. NumDim(a) : x[j] = 0 /\ a.sep[j] = 0,
         NEW b \in Nat, Offset(a, x) <= b, b < Offset(a, x) + Content(a, d)
  PROVE  /\ b < TotalSize(a)
         /\ \E k \in Elements(a) : Holds(a, k, b) /\ \A i \in 1 .. d : k[i] = x[i]
<1> DEFINE N == NumDim(a)
           w == Terms(a, x)
           s == a.sep
<1>1. /\ N \in Nat \ {0} /\ Dims(a) = 1 .. N /\ N \in 0 .. N /\ a.elem \in Nat \ {0}
      /\ d \in Nat /\ d <= N /\ d \in 0 .. N /\ 0 \in 0 .. d /\ IsFiniteSet(Dims(a))
  BY Described
<1>2. Counts(a, x)
  BY ElementsAre
<1>3. Offset(a, x) = Sum(w, 1 .. d) /\ Offset(a, x) \in Nat
  <2>1. \A i \in Dims(a) : x[i] \in Nat
    BY <1>2 DEF Counts
  <2>2. QED
    BY <2>1, OffsetUpTo, TermsTyped
<1>4. Content(a, d) \in Nat /\ Content(a, 0) = TotalSize(a) /\ TotalSize(a) \in Nat
  BY <1>1, CoefficientsAre
<1>5. b < TotalSize(a)
  <2>1. Sum(w, 0 + 1 .. d) + Content(a, d) <= Content(a, 0)
    BY <1>1, <1>2, Within
  <2>2. 0 + 1 = 1
    OBVIOUS
  <2>3. Offset(a, x) + Content(a, d) <= TotalSize(a)
    BY <1>3, <1>4, <2>1, <2>2
  <2>4. QED
    BY <1>3, <1>4, <2>3
<1>6. PICK k \in Elements(a) :
        /\ Offset(a, k) <= b
        /\ b < Offset(a, k) + a.elem + SeparationAfter(a, k, N)
        /\ \A l \in Elements(a) : Offset(a, l) <= b => Offset(a, l) <= Offset(a, k)
  BY <1>5, ByteOf
<1>7. Counts(a, k) /\ Offset(a, k) \in Nat
  <2>1. Counts(a, k)
    BY ElementsAre
  <2>2. QED
    BY <2>1, TermsTyped DEF Counts
<1>8. k = x \/ Precedes(a, x, k)
  <2>1. Offset(a, x) <= Offset(a, k)
    BY <1>6
  <2>2. ~ Precedes(a, k, x)
    BY <1>1, <1>3, <1>7, <2>1, BytesOrdered
  <2>3. QED
    BY <2>2, Trichotomy
<1>9. \A i \in 1 .. d : k[i] = x[i]
  <2>1. CASE Precedes(a, x, k)
    <3>1. PICK i \in 1 .. N : x[i] < k[i] /\ \A h \in 1 .. i - 1 : x[h] = k[h]
      BY <1>1, <2>1 DEF Precedes
    <3>2. ~ (i <= d)
      <4>1. SUFFICES ASSUME i <= d PROVE FALSE
        OBVIOUS
      <4>2. PrecedesWithin(x, k, d)
        BY <1>1, <3>1, <4>1 DEF PrecedesWithin
      <4>3. Sum(w, 1 .. d) + Content(a, d) <= Offset(a, k)
        BY <1>2, <1>7, <4>2, Ordered
      <4>4. QED
        BY <1>3, <1>4, <1>6, <1>7, <4>3
    <3>3. QED
      BY <1>1, <3>1, <3>2
  <2>2. QED
    BY <1>8, <2>1
<1>10. b < Offset(a, k) + a.elem
  <2>1. CASE \A j \in d + 1 .. N : k[j] + 1 = DimSize(a, j)
    <3> DEFINE v == Terms(a, k)
               n == N
    <3>1. \A i \in Dims(a) : k[i] \in Nat
      BY <1>7 DEF Counts
    <3>2. n \in 0 .. NumDim(a) /\ d \in 0 .. n /\ \A j \in d + 1 .. n : k[j] + 1 = DimSize(a, j)
      BY <1>1, <2>1
    <3> HIDE DEF n
    <3>3. Sum(v, d + 1 .. n) + Content(a, n) + Sum(s, d + 1 .. n) = Content(a, d)
      BY <3>1, <3>2, FullRun
    <3>4. Sum(s, d + 1 .. N) = 0
      <4>1. IsFiniteSet(d + 1 .. N)
        BY <1>1, FS_Interval
      <4>2. \A j \in d + 1 .. N : s[j] = 0
        OBVIOUS
      <4> HIDE DEF s, N
      <4>3. QED
        BY <4>1, <4>2, SumZero
    <3>5. Content(a, N) = a.elem
      BY DEF Content
    <3>6. /\ Offset(a, k) = Sum(v, 1 .. d) + Sum(v, d + 1 .. N)
          /\ Sum(v, 1 .. d) \in Nat /\ Sum(v, d + 1 .. N) \in Nat
      BY <1>7, OffsetSplit
    <3>7. Sum(v, 1 .. d) = Sum(w, 1 .. d)
      <4>1. \A i \in 1 .. d : i \in Dims(a)
        BY <1>1
      <4>2. \A i \in 1 .. d : v[i] = w[i]
        BY <1>9, <4>1 DEF Terms
      <4>3. IsFiniteSet(1 .. d)
        BY <1>1, FS_Interval
      <4> HIDE DEF v, w
      <4>4. QED
        BY <4>2, <4>3, SumEqual
    <3> HIDE DEF v, w, s, N
    <3>8. Offset(a, k) + a.elem = Offset(a, x) + Content(a, d)
      <4>1. Sum(v, d + 1 .. N) + a.elem + 0 = Content(a, d)
        BY <3>3, <3>4, <3>5 DEF n
      <4>2. QED
        BY <1>1, <1>3, <3>6, <3>7, <4>1
    <3>9. QED
      BY <3>8
  <2>2. CASE ~ (\A j \in d + 1 .. N : k[j] + 1 = DimSize(a, j))
    <3>1. ASSUME NEW i \in Carrying(a, k, N)
          PROVE  s[i] = 0
      <4>1. i \in 1 .. N /\ \A j \in i + 1 .. N : k[j] + 1 = DimSize(a, j)
        BY DEF Carrying
      <4>2. ~ (i <= d)
        BY <1>1, <2>2, <4>1
      <4>3. i \in d + 1 .. N
        BY <1>1, <4>1, <4>2
      <4>4. QED
        BY <4>3
    <3>2. IsFiniteSet(Carrying(a, k, N))
      <4>1. Carrying(a, k, N) \subseteq Dims(a)
        BY <1>1 DEF Carrying
      <4>2. QED
        BY <1>1, <4>1, FS_Subset
    <3> HIDE DEF s
    <3>3. Sum(s, Carrying(a, k, N)) = 0
      BY <3>1, <3>2, SumZero
    <3>4. SeparationAfter(a, k, N) = 0
      BY <3>3, SeparationAdds DEF s
    <3>5. QED
      BY <1>1, <1>6, <1>7, <3>4
  <2>3. QED
    BY <2>1, <2>2
<1>11. QED
  BY <1>5, <1>6, <1>9, <1>10 DEF Holds

\* No element reaches over the end of the array.
LEMMA InsideArray ==
  ASSUME NEW a, DescriptorSpace(a), NEW k \in Elements(a)
  PROVE  Offset(a, k) \in Nat /\ Offset(a, k) + a.elem <= TotalSize(a)
<1> DEFINE N == NumDim(a)
           w == Terms(a, k)
<1>1. /\ N \in Nat \ {0} /\ Dims(a) = 1 .. N /\ 0 \in 0 .. N /\ N \in 0 .. N
      /\ a.elem \in Nat
  BY Described
<1>2. Counts(a, k)
  BY ElementsAre
<1>3. Sum(w, 0 + 1 .. N) + Content(a, N) <= Content(a, 0)
  BY <1>1, <1>2, Within
<1>4. Content(a, 0) = TotalSize(a) /\ Content(a, N) = a.elem
  BY CoefficientsAre DEF Content
<1>5. Offset(a, k) = Sum(w, 1 .. N) /\ Offset(a, k) \in Nat
  BY <1>1, <1>2, OffsetAdds, TermsTyped DEF Counts
<1>6. QED
  BY <1>3, <1>4, <1>5

\* The separation after the content of a dimension holds no element.
LEMMA SeparationHoldsNothing ==
  ASSUME NEW a, DescriptorSpace(a), NEW x \in Elements(a), NEW d \in 0 .. NumDim(a),
         \A j \in d + 1 .. NumDim(a) : x[j] = 0 /\ a.sep[j] = 0,
         NEW b \in Nat, Offset(a, x) + Content(a, d) <= b,
         b < Offset(a, x) + Content(a, d) + SeparationAfter(a, x, d)
  PROVE  b < TotalSize(a) /\ \A k \in Elements(a) : ~ Holds(a, k, b)
<1> DEFINE N == NumDim(a)
           D(i) == DimSize(a, i)
           e == [i \in Dims(a) |-> IF i <= d THEN x[i] ELSE D(i) - 1]
           n == Incremented(a, x, d)
           w == Terms(a, x)
           v == Terms(a, e)
           s == a.sep
<1>1. /\ N \in Nat \ {0} /\ Dims(a) = 1 .. N /\ N \in 0 .. N /\ a.elem \in Nat \ {0}
      /\ d \in Nat /\ d <= N /\ d \in 0 .. N
      /\ \A i \in 1 .. N : D(i) \in Nat \ {0}
  BY Described
<1>2. Counts(a, x) /\ \A i \in 1 .. N : x[i] \in Nat /\ x[i] < D(i)
  BY <1>1, ElementsAre DEF Counts
<1>3. /\ e = [i \in Dims(a) |-> e[i]]
      /\ \A i \in 1 .. d : i \in 1 .. N /\ e[i] = x[i]
      /\ \A i \in d + 1 .. N : i \in 1 .. N /\ e[i] = D(i) - 1
  BY <1>1
<1>4. \A i \in d + 1 .. N : e[i] + 1 = D(i)
  <2> HIDE DEF e, D, N
  <2>1. ASSUME NEW i \in d + 1 .. N
        PROVE  e[i] + 1 = D(i)
    <3>1. e[i] = D(i) - 1 /\ D(i) \in Nat
      BY <1>1, <1>3
    <3>2. QED
      BY <3>1
  <2>2. QED
    BY <2>1
<1>5. e \in Elements(a)
  <2> HIDE DEF e, D, N
  <2>1. ASSUME NEW i \in 1 .. N
        PROVE  e[i] \in Nat /\ e[i] < D(i)
    <3>1. i \in 1 .. d \/ i \in d + 1 .. N
      BY <1>1
    <3>2. e[i] = x[i] \/ e[i] = D(i) - 1
      BY <1>3, <3>1
    <3>3. D(i) \in Nat \ {0} /\ x[i] \in Nat /\ x[i] < D(i)
      BY <1>1, <1>2
    <3>4. QED
      BY <3>2, <3>3
  <2>2. e \in [Dims(a) -> Nat] /\ \A i \in Dims(a) : e[i] \in Nat /\ e[i] < D(i)
    BY <1>1, <1>3, <2>1
  <2>3. QED
    BY <2>2, ElementsAre DEF Counts, D
<1> HIDE DEF e
<1>6. Offset(a, e) + a.elem = Offset(a, x) + Content(a, d)
  <2> DEFINE m == N
  <2>1. \A i \in Dims(a) : e[i] \in Nat /\ x[i] \in Nat
    BY <1>1, <1>2, <1>5, ElementsAre DEF Counts
  <2>2. m \in 0 .. NumDim(a) /\ d \in 0 .. m /\ \A j \in d + 1 .. m : e[j] + 1 = DimSize(a, j)
    BY <1>1, <1>4
  <2> HIDE DEF m
  <2>3. Sum(v, d + 1 .. m) + Content(a, m) + Sum(s, d + 1 .. m) = Content(a, d)
    BY <2>1, <2>2, FullRun
  <2>4. Sum(s, d + 1 .. N) = 0
    <3>1. IsFiniteSet(d + 1 .. N)
      BY <1>1, FS_Interval
    <3>2. \A j \in d + 1 .. N : s[j] = 0
      OBVIOUS
    <3> HIDE DEF s, N
    <3>3. QED
      BY <3>1, <3>2, SumZero
  <2>5. Content(a, N) = a.elem
    BY DEF Content
  <2>6. Counts(a, e)
    BY <1>5, ElementsAre
  <2>7. /\ Offset(a, e) = Sum(v, 1 .. d) + Sum(v, d + 1 .. N)
        /\ Sum(v, 1 .. d) \in Nat /\ Sum(v, d + 1 .. N) \in Nat
    BY <2>6, OffsetSplit
  <2>8. Offset(a, x) = Sum(w, 1 .. d)
    BY <2>1, OffsetUpTo
  <2>9. Sum(v, 1 .. d) = Sum(w, 1 .. d)
    <3>1. \A i \in 1 .. d : v[i] = w[i]
      BY <1>1, <1>3 DEF Terms
    <3>2. IsFiniteSet(1 .. d)
      <4>1. 1 \in Int /\ d \in Int
        BY <1>1
      <4> HIDE DEF D, N, n, w, v, s
      <4>2. QED
        BY <4>1, FS_Interval
    <3> HIDE DEF v, w
    <3>3. QED
      BY <3>1, <3>2, SumEqual
  <2> HIDE DEF v, w, s, N
  <2>10. Sum(v, d + 1 .. N) + a.elem + 0 = Content(a, d)
    BY <2>3, <2>4, <2>5 DEF m
  <2>11. QED
    BY <1>1, <2>7, <2>8, <2>9, <2>10
<1>7. Incremented(a, e, N) = n
  <2>1. \A i \in Dims(a) :
          n[i] = IF i <= d /\ (\A j \in i + 1 .. d : x[j] + 1 = D(j))
                 THEN (x[i] + 1) % D(i) ELSE x[i]
    BY DEF Incremented
  <2> DEFINE q == Incremented(a, e, N)
  <2>2. \A i \in Dims(a) :
          q[i] = IF \A j \in i + 1 .. N : e[j] + 1 = D(j)
                 THEN (e[i] + 1) % D(i) ELSE e[i]
    BY <1>1 DEF Incremented
  <2>3. n = [i \in Dims(a) |-> n[i]] /\ q = [i \in Dims(a) |-> q[i]]
    BY DEF Incremented
  <2> HIDE DEF n, q, D, N
  <2>4. ASSUME NEW i \in 1 .. N
        PROVE  q[i] = n[i]
    <3>1. CASE i <= d
      <4>1. (\A j \in i + 1 .. N : e[j] + 1 = D(j))
               <=> (\A j \in i + 1 .. d : x[j] + 1 = D(j))
        <5>1. ASSUME \A j \in i + 1 .. N : e[j] + 1 = D(j), NEW j \in i + 1 .. d
              PROVE  x[j] + 1 = D(j)
          <6>1. j \in i + 1 .. N /\ j \in 1 .. d
            BY <1>1, <3>1
          <6>2. QED
            BY <1>3, <5>1, <6>1
        <5>2. ASSUME \A j \in i + 1 .. d : x[j] + 1 = D(j), NEW j \in i + 1 .. N
              PROVE  e[j] + 1 = D(j)
          <6>1. CASE j <= d
            <7>1. j \in i + 1 .. d /\ j \in 1 .. d
              BY <1>1, <6>1
            <7>2. QED
              BY <1>3, <5>2, <7>1
          <6>2. CASE ~ (j <= d)
            <7>1. j \in d + 1 .. N
              BY <1>1, <6>2
            <7>2. QED
              BY <1>4, <7>1
          <6>3. QED
            BY <6>1, <6>2
        <5>3. QED
          BY <5>1, <5>2
      <4>2. e[i] = x[i] /\ i \in Dims(a)
        BY <1>1, <1>3, <3>1, SMTT(30)
      <4>3. QED
        BY <2>1, <2>2, <3>1, <4>1, <4>2
    <3>2. CASE ~ (i <= d)
      <4>1. i \in d + 1 .. N /\ i \in Dims(a)
        BY <1>1, <3>2
      <4>2. n[i] = x[i] /\ x[i] = 0
        BY <2>1, <3>2, <4>1 DEF N
      <4>3. \A j \in i + 1 .. N : j \in d + 1 .. N
        BY <1>1, <3>2
      <4>4. q[i] = (e[i] + 1) % D(i)
        BY <1>4, <2>2, <4>1, <4>3
      <4> DEFINE y == D(i)
      <4>5. q[i] = y % y
        BY <1>4, <4>1, <4>4
      <4>6. y \in Nat \ {0}
        BY <1>1
      <4> HIDE DEF y
      <4>7. y % y = 0
        BY <4>6, SMTT(30)
      <4>8. QED
        BY <4>2, <4>5, <4>7
    <3>3. QED
      BY <3>1, <3>2
  <2>5. QED
    BY <1>1, <2>3, <2>4 DEF q
<1>8. /\ n \in Elements(a)
      /\ n = Origin(a) => \A l \in Elements(a) : l = e \/ Precedes(a, l, e)
      /\ n # Origin(a) => \A l \in Elements(a) :
                            Precedes(a, l, n) <=> Precedes(a, l, e) \/ l = e
  BY <1>5, <1>7, NextElement
<1>9. Offset(a, x) + Content(a, d) + SeparationAfter(a, x, d)
        = IF n = Origin(a) THEN TotalSize(a) ELSE Offset(a, n)
  BY <1>2, Carry
<1> HIDE DEF n, N, D, w, v, s
<1>10. b < TotalSize(a)
  <2>1. Offset(a, n) \in Nat /\ Offset(a, n) + a.elem <= TotalSize(a)
    BY <1>8, InsideArray
  <2>2. TotalSize(a) \in Nat
    <3>1. 0 \in 0 .. NumDim(a)
      BY <1>1 DEF N
    <3>2. QED
      BY <3>1, CoefficientsAre
  <2>3. QED
    BY <1>1, <1>9, <2>1, <2>2
<1>11. ASSUME NEW k \in Elements(a), Holds(a, k, b)
       PROVE  FALSE
  <2>1. /\ Offset(a, k) \in Nat /\ Offset(a, e) \in Nat /\ Offset(a, n) \in Nat
    BY <1>5, <1>8, InsideArray
  <2>2. ~ (k = e \/ Precedes(a, k, e))
    <3>1. k # e
      BY <1>1, <1>6, <1>11, <2>1 DEF Holds
    <3>2. Precedes(a, k, e) => Offset(a, k) + a.elem <= Offset(a, e)
      BY <1>5, BytesOrdered
    <3>3. QED
      BY <1>1, <1>6, <1>11, <2>1, <3>1, <3>2 DEF Holds
  <2>3. n # Origin(a) /\ ~ Precedes(a, k, n)
    BY <1>8, <2>2
  <2>4. Offset(a, n) <= Offset(a, k)
    <3>1. k = n \/ Precedes(a, n, k)
      BY <1>8, <2>3, Trichotomy
    <3>2. Precedes(a, n, k) => Offset(a, n) + a.elem <= Offset(a, k)
      BY <1>8, BytesOrdered
    <3>3. QED
      BY <1>1, <2>1, <3>1, <3>2
  <2>5. b < Offset(a, n)
    BY <1>9, <2>3
  <2>6. QED
    BY <1>11, <2>1, <2>4, <2>5 DEF Holds
<1>12. QED
  BY <1>10, <1>11

-----------------------------------------------------------------------------
(* The element that is mapped to is the one at the same user index            *)

\* The steps of Steps, and what is left over
LEMMA StepsLeft ==
  ASSUME NEW G \in Nat \ {0}, NEW g \in Nat \ {0},
         G % g = 0 \/ g % G = 0, NEW k \in Nat
  PROVE  LET gm == IF G > g THEN G \div g ELSE 1
             gd == IF G < g THEN g \div G ELSE 1
             t == (k * gm) \div gd
         IN  /\ t \in Nat /\ t * g \in Nat /\ k * G \in Nat
             /\ t * g <= k * G /\ k * G < t * g + g
             /\ G % g = 0 => k * G = t * g
<1> DEFINE gm == IF G > g THEN G \div g ELSE 1
           gd == IF G < g THEN g \div G ELSE 1
           t == (k * gm) \div gd
<1>1. k * G \in Nat
  BY SMTT(30)
<1>2. CASE G > g
  <2> DEFINE q == G \div g
  <2>1. G % g = 0
    BY <1>2, SMTT(30)
  <2>2. q \in Nat /\ G = q * g
    BY <2>1, SMTT(30)
  <2>3. gm = q /\ gd = 1
    BY <1>2
  <2> HIDE DEF q
  <2>4. k * q \in Nat /\ t = k * q
    BY <2>2, <2>3, SMTT(30)
  <2>5. (k * q) * g = k * (q * g)
    BY <2>2, SMTT(30)
  <2>6. t \in Nat /\ t * g = k * G
    BY <2>2, <2>4, <2>5
  <2> HIDE DEF t
  <2>7. t * g \in Nat /\ t * g <= k * G /\ k * G < t * g + g
    BY <1>1, <2>6
  <2>8. QED
    BY <1>1, <2>6, <2>7 DEF t
<1>3. CASE G = g
  <2>1. gm = 1 /\ gd = 1
    BY <1>3
  <2>2. t = k
    BY <2>1
  <2> HIDE DEF t
  <2>3. t * g = k * G
    BY <1>3, <2>2
  <2>4. t \in Nat /\ t * g \in Nat /\ t * g <= k * G /\ k * G < t * g + g
    BY <1>1, <2>2, <2>3
  <2>5. QED
    BY <1>1, <2>3, <2>4 DEF t
<1>4. CASE G < g
  <2> DEFINE d == g \div G
             r == k % d
  <2>1. g % G = 0
    BY <1>4, SMTT(30)
  <2>2. d \in Nat /\ g = d * G
    BY <2>1, SMTT(30)
  <2>3. d # 0
    BY <2>2
  <2>4. gm = 1 /\ gd = d
    BY <1>4
  <2> HIDE DEF d
  <2>5. t = k \div d
    BY <2>2, <2>4
  <2>6. t \in Nat /\ r \in Nat /\ r < d /\ k = t * d + r
    BY <2>2, <2>3, <2>5, SMTT(30)
  <2> HIDE DEF t, r
  <2>7. t * (d * G) = (t * d) * G /\ t * d \in Nat
    BY <2>2, <2>6, SMTT(30)
  <2>8. (t * d + r) * G = (t * d) * G + r * G
    BY <2>2, <2>6, <2>7, SMTT(30)
  <2>9. r * G \in Nat /\ r * G < d * G
    BY <2>2, <2>6, SMTT(30)
  <2>10. k * G = t * g + r * G
    BY <2>2, <2>6, <2>7, <2>8
  <2>11. t * g \in Nat
    BY <2>6, SMTT(30)
  <2>12. t * g <= k * G /\ k * G < t * g + g
    BY <2>2, <2>9, <2>10, <2>11
  <2>13. G % g = 0 => FALSE
    <3>1. G % g = G
      BY <1>4, SMTT(30)
    <3>2. QED
      BY <3>1
  <2>14. QED
    BY <1>1, <2>6, <2>11, <2>12, <2>13 DEF t
<1>5. QED
  BY <1>2, <1>3, <1>4

\* Walking X user indices on from the start of the sub-array leads towards or
\* away from the start of the super-array.
LEMMA Walk ==
  ASSUME NEW s1 \in Int, NEW e1 \in Int, NEW s0 \in Int, NEW e0 \in Int,
         Between(s1, s0, e0), Between(e1, s0, e0),
         NEW X \in Nat, X <= Distance(s1, e1)
  PROVE  LET Dir(s, e) == IF e < s THEN -1 ELSE 1
             user == s1 + Dir(s1, e1) * X IN
         Distance(s0, user) = Distance(s1, s0) + Dir(s1, e1) * Dir(s0, e0) * X
<1> DEFINE Dir(s, e) == IF e < s THEN -1 ELSE 1
<1>1. CASE e1 < s1 /\ e0 < s0
  <2>1. Dir(s1, e1) = -1 /\ Dir(s0, e0) = -1
    BY <1>1
  <2>2. Distance(s0, s1 - X) = Distance(s1, s0) + X
    BY <1>1 DEF Between, Distance
  <2>3. /\ s1 + Dir(s1, e1) * X = s1 - X
        /\ Distance(s1, s0) + Dir(s1, e1) * Dir(s0, e0) * X = Distance(s1, s0) + X
    BY <2>1 DEF Distance
  <2> HIDE DEF Dir
  <2>4. Distance(s0, s1 + Dir(s1, e1) * X)
          = Distance(s1, s0) + Dir(s1, e1) * Dir(s0, e0) * X
    BY <2>2, <2>3
  <2>5. QED
    BY <2>4 DEF Dir
<1>2. CASE e1 < s1 /\ ~ (e0 < s0)
  <2>1. Dir(s1, e1) = -1 /\ Dir(s0, e0) = 1
    BY <1>2
  <2>2. Distance(s0, s1 - X) = Distance(s1, s0) - X
    BY <1>2 DEF Between, Distance
  <2>3. /\ s1 + Dir(s1, e1) * X = s1 - X
        /\ Distance(s1, s0) + Dir(s1, e1) * Dir(s0, e0) * X = Distance(s1, s0) - X
    BY <2>1 DEF Distance
  <2> HIDE DEF Dir
  <2>4. Distance(s0, s1 + Dir(s1, e1) * X)
          = Distance(s1, s0) + Dir(s1, e1) * Dir(s0, e0) * X
    BY <2>2, <2>3
  <2>5. QED
    BY <2>4 DEF Dir
<1>3. CASE ~ (e1 < s1) /\ e0 < s0
  <2>1. Dir(s1, e1) = 1 /\ Dir(s0, e0) = -1
    BY <1>3
  <2>2. Distance(s0, s1 + X) = Distance(s1, s0) - X
    BY <1>3 DEF Between, Distance
  <2>3. /\ s1 + Dir(s1, e1) * X = s1 + X
        /\ Distance(s1, s0) + Dir(s1, e1) * Dir(s0, e0) * X = Distance(s1, s0) - X
    BY <2>1 DEF Distance
  <2> HIDE DEF Dir
  <2>4. Distance(s0, s1 + Dir(s1, e1) * X)
          = Distance(s1, s0) + Dir(s1, e1) * Dir(s0, e0) * X
    BY <2>2, <2>3
  <2>5. QED
    BY <2>4 DEF Dir
<1>4. CASE ~ (e1 < s1) /\ ~ (e0 < s0)
  <2>1. Dir(s1, e1) = 1 /\ Dir(s0, e0) = 1
    BY <1>4
  <2>2. Distance(s0, s1 + X) = Distance(s1, s0) + X
    BY <1>4 DEF Between, Distance
  <2>3. /\ s1 + Dir(s1, e1) * X = s1 + X
        /\ Distance(s1, s0) + Dir(s1, e1) * Dir(s0, e0) * X = Distance(s1, s0) + X
    BY <2>1 DEF Distance
  <2> HIDE DEF Dir
  <2>4. Distance(s0, s1 + Dir(s1, e1) * X)
          = Distance(s1, s0) + Dir(s1, e1) * Dir(s0, e0) * X
    BY <2>2, <2>3
  <2>5. QED
    BY <2>4 DEF Dir
<1>5. QED
  BY <1>1, <1>2, <1>3, <1>4

\* What MappedIndex finds stands at or just before the user index of k.
LEMMA FoundAt ==
  ASSUME NEW sub, NEW super, DescriptorSpace(sub), DescriptorSpace(super),
         Mappable(sub, super), Aligned(sub, super), NEW i \in Dims(sub),
         NEW k, k[i] \in Nat, k[i] < DimSize(sub, i)
  PROVE  LET j == DimMapping(sub, super, i)
             user == sub.start[i] + IndexDir(sub, i) * sub.gran[i] * k[i]
         IN  \E D \in Int : /\ D = Distance(super.start[j], user)
                            /\ super.gran[j] * MappedIndex(sub, super, k, i) \in Int
                            /\ super.gran[j] * MappedIndex(sub, super, k, i) <= D
                            /\ D < super.gran[j] * MappedIndex(sub, super, k, i) + super.gran[j]
<1> DEFINE j == DimMapping(sub, super, i)
           s1 == sub.start[i]   e1 == sub.end[i]   G == sub.gran[i]
           s0 == super.start[j] e0 == super.end[j] g == super.gran[j]
           D1 == Distance(s1, e1)  D == Distance(s1, s0)
           n == k[i]
           dir == IndexDir(sub, i)
           M == MapDir(sub, super, i)
           first == D \div g
           t == (n * GranMapping(sub, super, i)) \div GranDivMapping(sub, super, i)
           X == n * G
           user == s1 + dir * G * n
           found == MappedIndex(sub, super, k, i)
<1>1. j \in Dims(super)
  BY DimMappingTyped
<1>2. /\ s1 \in Int /\ e1 \in Int /\ G \in Nat \ {0}
      /\ s0 \in Int /\ e0 \in Int /\ g \in Nat \ {0} /\ n \in Nat
  BY <1>1 DEF DescriptorSpace, Dims, NumDim
<1>3. /\ Between(s1, s0, e0) /\ Between(e1, s0, e0)
      /\ G % g = 0 \/ g % G = 0
  BY DEF Mappable
<1>4. /\ t \in Nat /\ t * g \in Nat /\ X \in Nat /\ t * g <= X /\ X < t * g + g
      /\ (G % g = 0) => X = t * g
  <2>1. /\ GranMapping(sub, super, i) = (IF G > g THEN G \div g ELSE 1)
        /\ GranDivMapping(sub, super, i) = (IF G < g THEN g \div G ELSE 1)
    BY DEF GranMapping, GranDivMapping
  <2>2. /\ n \in Nat /\ G \in Nat \ {0} /\ g \in Nat \ {0}
        /\ G % g = 0 \/ g % G = 0
    BY <1>2, <1>3
  <2> DEFINE u == (n * (IF G > g THEN G \div g ELSE 1)) \div (IF G < g THEN g \div G ELSE 1)
  <2>3. t = u
    BY <2>1
  <2> HIDE DEF n, G, g, t
  <2>4. /\ u \in Nat /\ u * g \in Nat /\ n * G \in Nat /\ u * g <= n * G /\ n * G < u * g + g
        /\ (G % g = 0) => n * G = u * g
    BY <2>2, StepsLeft
  <2> HIDE DEF u
  <2>5. QED
    BY <2>3, <2>4
<1>5. \/ G % g = 0
      \/ (M = 1) /\ (D % g = 0)
  BY DEF Aligned
<1>6. found = first + M * t
  BY DEF MappedIndex, IndexMapping
<1>7. D1 \in Nat /\ D \in Nat /\ D1 \div G \in Nat /\ (D1 \div G) * G <= D1
  <2>1. D1 \in Nat /\ D \in Nat
    BY <1>2 DEF Distance
  <2>2. QED
    BY <1>2, <2>1, Quotient
<1>8. n <= D1 \div G
  BY <1>2, <1>7 DEF DimSize
<1>9. dir = (IF e1 < s1 THEN -1 ELSE 1) /\ M = dir * (IF e0 < s0 THEN -1 ELSE 1)
  BY DEF IndexDir, MapDir
<1>10. user = s1 + dir * G * n
  OBVIOUS
<1> HIDE DEF j, s1, e1, G, s0, e0, g, D1, D, n, dir, M, first, t, user, found, X
<1>11. X <= D1
  <2> DEFINE q == D1 \div G
  <2>1. q \in Nat /\ n <= q /\ q * G <= D1
    BY <1>7, <1>8
  <2> HIDE DEF q
  <2>2. n * G <= q * G /\ q * G \in Nat
    BY <1>2, <2>1, SMTT(30)
  <2>3. QED
    BY <1>4, <1>7, <2>1, <2>2 DEF X
<1>12. dir * G * n = dir * X
  <2>1. 1 * G * n = X /\ (-1) * G * n = -X
    BY <1>2, SMTT(30) DEF X
  <2>2. dir = 1 \/ dir = -1
    BY <1>9
  <2>3. QED
    BY <1>4, <2>1, <2>2
<1>13. Distance(s0, user) = D + M * X
  BY <1>2, <1>3, <1>4, <1>9, <1>10, <1>11, <1>12, Walk DEF D1, D
<1>14. D = first * g + (D % g) /\ (D % g) \in Nat /\ (D % g) < g /\ first \in Nat
  BY <1>2, <1>7, SMTT(30) DEF first
<1>15. M = 1 \/ M = -1
  BY <1>9
<1> DEFINE r == D % g
           F == first * g
           Y == t * g
<1>16. F \in Nat /\ Y \in Nat /\ D = F + r /\ r \in Nat /\ r < g
  <2>1. first * g \in Nat
    BY <1>2, <1>14, SMTT(30)
  <2>2. QED
    BY <1>4, <1>14, <2>1
<1>17. g * found = F + M * Y
  <2>1. g * (first + 1 * t) = first * g + t * g
    BY <1>2, <1>4, <1>14, SMTT(30)
  <2>2. g * (first + (-1) * t) = first * g - t * g
    BY <1>2, <1>4, <1>14, SMTT(30)
  <2> HIDE DEF F, Y
  <2>3. M = 1 => g * found = F + Y
    BY <1>6, <2>1 DEF F, Y
  <2>4. M = -1 => g * found = F - Y
    BY <1>6, <2>2 DEF F, Y
  <2>5. 1 * Y = Y /\ (-1) * Y = - Y
    BY <1>16
  <2>6. QED
    BY <1>15, <1>16, <2>3, <2>4, <2>5
<1>18. /\ Y <= X /\ X < Y + g
       /\ (X = Y) \/ (M = 1 /\ r = 0)
  BY <1>4, <1>5
<1> HIDE DEF r, F, Y
<1>19. /\ g * found \in Int /\ D + M * X \in Int
       /\ g * found <= D + M * X
       /\ D + M * X < g * found + g
  <2>1. CASE M = 1
    <3>1. M * X = X /\ M * Y = Y
      BY <1>4, <1>16, <2>1
    <3>2. QED
      BY <1>2, <1>4, <1>16, <1>17, <1>18, <3>1
  <2>2. CASE M = -1
    <3>1. M * X = -X /\ M * Y = -Y /\ X = Y
      BY <1>4, <1>16, <1>18, <2>2
    <3>2. QED
      BY <1>2, <1>4, <1>16, <1>17, <3>1
  <2>3. QED
    BY <1>15, <2>1, <2>2
<1>20. QED
  BY <1>13, <1>19 DEF user, found, g, s0, j, s1, dir, G, n

LEMMA OneMultiple ==
  ASSUME NEW g \in Nat \ {0}, NEW x \in Int, NEW y \in Int, NEW D \in Int,
         g * x <= D, D < g * x + g, g * y <= D, D < g * y + g
  PROVE  x = y
<1>1. ASSUME NEW u \in Int, NEW v \in Int, u < v
      PROVE  g * u + g <= g * v
  <2>1. g * (u + 1) <= g * v /\ g * (u + 1) = g * u + g
    BY <1>1, SMTT(30)
  <2>2. g * u \in Int /\ g * v \in Int
    OBVIOUS
  <2>3. QED
    BY <2>1, <2>2
<1>2. g * x \in Int /\ g * y \in Int
  OBVIOUS
<1>3. ~ (x < y)
  <2>1. x < y => g * x + g <= g * y
    BY <1>1
  <2>2. QED
    BY <1>2, <2>1
<1>4. ~ (y < x)
  <2>1. y < x => g * y + g <= g * x
    BY <1>1
  <2>2. QED
    BY <1>2, <2>1
<1>5. QED
  BY <1>3, <1>4

\* Two multiples of e that are less than e apart are the same.
LEMMA NothingBetween ==
  ASSUME NEW e \in Nat \ {0}, NEW x \in Nat, NEW y \in Nat,
         x % e = 0, y % e = 0, x <= y, x + e > y
  PROVE  x = y
<1>1. x = (x \div e) * e /\ y = (y \div e) * e /\ x \div e \in Int /\ y \div e \in Int
  BY SMTT(30)
<1> DEFINE p == x \div e
           q == y \div e
<1>2. /\ e * p \in Int /\ e * p = x /\ e * q = y /\ p \in Int /\ q \in Int
  BY <1>1, SMTT(30)
<1> HIDE DEF p, q
<1>3. e * p <= y /\ y < e * p + e /\ e * q <= y /\ y < e * q + e
  BY <1>2
<1>4. p = q
  BY <1>2, <1>3, OneMultiple
<1>5. QED
  BY <1>2, <1>4

LEMMA NextMultiple ==
  ASSUME NEW e \in Nat \ {0}, NEW x \in Nat, x % e = 0
  PROVE  (x + e) % e = 0
<1> DEFINE y == x + e
           q == x \div e
           p == y \div e
           r == y % e
<1>1. y \in Nat
  OBVIOUS
<1> HIDE DEF y
<1>2. q \in Int /\ e * q \in Int /\ x = e * q
  BY SMTT(30)
<1>3. p \in Int /\ e * p \in Int /\ y = e * p + r /\ r \in Nat /\ r < e
  BY <1>1, SMTT(30)
<1> HIDE DEF p, q, r
<1>4. e * (q + 1) = e * q + e
  BY <1>2, SMTT(30)
<1> DEFINE s == q + 1
<1>5. y = e * s /\ s \in Int
  BY <1>2, <1>4 DEF y
<1> HIDE DEF s
<1>6. e * s <= y /\ y < e * s + e /\ e * p <= y /\ y < e * p + e /\ y \in Int
  BY <1>1, <1>3, <1>5
<1>7. p = s
  BY <1>3, <1>5, <1>6, OneMultiple
<1>8. r = 0
  BY <1>1, <1>3, <1>5, <1>7
<1>9. QED
  BY <1>8 DEF r, y

\* Where names are distinct, the mapping takes the dimensions of the two arrays
\* one to one.
LEMMA OneToOne ==
  ASSUME NEW sub, NEW super, DescriptorSpace(sub), DescriptorSpace(super),
         Mappable(sub, super), Aligned(sub, super)
  PROVE  /\ \A i, h \in Dims(sub) :
              DimMapping(sub, super, i) = DimMapping(sub, super, h) => i = h
         /\ \A j \in Dims(super) : \E i \in Dims(sub) : DimMapping(sub, super, i) = j
         /\ \A i \in Dims(sub), j \in Dims(super) :
              sub.name[i] = super.name[j] => j = DimMapping(sub, super, i)
<1> DEFINE S == Dims(sub)
           f == [i \in S |-> DimMapping(sub, super, i)]
<1>1. Dims(super) = S
  BY DEF Mappable, Dims
<1>2. \A i \in S : f[i] \in S /\ sub.name[i] = super.name[f[i]]
  BY <1>1, DimMappingTyped
<1>3. \A i, h \in S : sub.name[h] = sub.name[i] => h = i
  BY DEF Aligned
<1>4. IsFiniteSet(S)
  BY Described
<1>5. f \in [S -> S]
  BY <1>2
<1>6. \A i \in S : f[i] = DimMapping(sub, super, i)
  OBVIOUS
<1> HIDE DEF f, S
<1>7. \A i, h \in S : f[i] = f[h] => i = h
  BY <1>2, <1>3
<1>8. f \in Injection(S, S)
  BY <1>5, <1>7 DEF Injection, IsInjective
<1>9. f \in Surjection(S, S)
  BY <1>4, <1>8, FS_Injection
<1>10. \A j \in S : \E i \in S : f[i] = j
  BY <1>9 DEF Surjection
<1>11. \A i \in S, j \in S : sub.name[i] = super.name[j] => j = f[i]
  <2> SUFFICES ASSUME NEW i \in S, NEW j \in S, sub.name[i] = super.name[j]
               PROVE  j = f[i]
    OBVIOUS
  <2>1. PICK h \in S : f[h] = j
    BY <1>10
  <2>2. sub.name[h] = super.name[j]
    BY <1>2, <2>1
  <2>3. h = i
    BY <1>3, <2>2
  <2>4. QED
    BY <2>1, <2>3
<1>12. QED
  BY <1>1, <1>6, <1>7, <1>10, <1>11 DEF S

\* The counterpart of an element is where the mapping says.
LEMMA CounterpartIs ==
  ASSUME NEW sub, NEW super, DescriptorSpace(sub), DescriptorSpace(super),
         Mappable(sub, super), Aligned(sub, super), NEW k \in Elements(sub)
  PROVE  /\ Counterpart(sub, super, k) \in Elements(super)
         /\ Offset(super, Counterpart(sub, super, k)) = MappedOffset(sub, super, k)
<1> DEFINE S == Dims(sub)
           f(i) == DimMapping(sub, super, i)
           m(i) == MappedIndex(sub, super, k, i)
           back(j) == CHOOSE i \in S : f(i) = j
           L == [j \in Dims(super) |-> m(back(j))]
           User(i) == sub.start[i] + IndexDir(sub, i) * sub.gran[i] * k[i]
           At(l, i, j) ==
             LET away == Distance(super.start[j], User(i)) - super.gran[j] * l[j]
             IN  0 <= away /\ away < super.gran[j]
           Stands(l) == \A i \in S, j \in Dims(super) :
                          sub.name[i] = super.name[j] => At(l, i, j)
<1>1. k \in [S -> Nat] /\ Counts(sub, k)
  BY ElementsAre
<1>2. \A i \in S : k[i] \in Nat /\ k[i] < DimSize(sub, i)
  BY <1>1 DEF Counts
<1>3. \A i \in S : f(i) \in Dims(super) /\ sub.name[i] = super.name[f(i)]
  BY DimMappingTyped
<1>4. \A i, h \in S : f(i) = f(h) => i = h
  BY OneToOne
<1>5. \A j \in Dims(super) : back(j) \in S /\ f(back(j)) = j
  BY OneToOne
<1>6. \A i \in S : back(f(i)) = i
  BY <1>3, <1>4, <1>5
<1>7. \A i \in S : m(i) \in 0 .. DimSize(super, f(i)) - 1
  BY <1>2, MappedInSuper
<1>8. \A j \in Dims(super) : DimSize(super, j) \in Nat
  BY Described
<1>9. L \in Elements(super)
  <2>1. \A j \in Dims(super) : L[j] \in Nat /\ L[j] < DimSize(super, j)
    <3> SUFFICES ASSUME NEW j \in Dims(super)
                 PROVE  L[j] \in Nat /\ L[j] < DimSize(super, j)
      OBVIOUS
    <3>1. L[j] = m(back(j)) /\ m(back(j)) \in 0 .. DimSize(super, j) - 1
      BY <1>5, <1>7
    <3> HIDE DEF m, back, L
    <3>2. QED
      BY <1>8, <3>1
  <2>2. L \in [Dims(super) -> Nat]
    BY <2>1
  <2> HIDE DEF L
  <2>3. QED
    BY <2>1, <2>2, ElementsAre DEF Counts
<1>10. \A i \in S : L[f(i)] = m(i)
  BY <1>3, <1>6
<1>11. \A i \in S, j \in Dims(super) : sub.name[i] = super.name[j] => j = f(i)
  BY OneToOne
<1>12. \A i \in S : \E D \in Int :
          /\ D = Distance(super.start[f(i)], User(i))
          /\ super.gran[f(i)] * m(i) \in Int
          /\ super.gran[f(i)] * m(i) <= D
          /\ D < super.gran[f(i)] * m(i) + super.gran[f(i)]
  BY <1>2, FoundAt
<1>13. \A j \in Dims(super) : super.gran[j] \in Nat \ {0}
  BY DEF DescriptorSpace, Dims, NumDim
<1>14. Counterpart(sub, super, k) = CHOOSE l \in Elements(super) : Stands(l)
  BY DEF Counterpart
<1> HIDE DEF f, m, back, L, User
<1>15. Stands(L)
  <2> SUFFICES ASSUME NEW i \in S, NEW j \in Dims(super), j = f(i)
               PROVE  At(L, i, j)
    BY <1>11
  <2>1. PICK D \in Int : /\ D = Distance(super.start[j], User(i))
                         /\ super.gran[j] * m(i) \in Int
                         /\ super.gran[j] * m(i) <= D
                         /\ D < super.gran[j] * m(i) + super.gran[j]
    BY <1>12
  <2> DEFINE g == super.gran[j]
             p == super.gran[j] * m(i)
  <2>2. L[j] = m(i) /\ g \in Int
    BY <1>10, <1>13
  <2>3. p \in Int /\ p <= D /\ D < p + g
    BY <2>1
  <2> HIDE DEF p, g
  <2>4. 0 <= D - p /\ D - p < g
    BY <2>1, <2>2, <2>3
  <2>5. QED
    BY <2>1, <2>2, <2>4 DEF p, g
<1>16. ASSUME NEW l \in Elements(super), Stands(l)
       PROVE  l = L
  <2>1. l \in [Dims(super) -> Nat] /\ L \in [Dims(super) -> Nat]
    BY <1>9, ElementsAre
  <2>2. ASSUME NEW j \in Dims(super)
        PROVE  l[j] = L[j]
    <3>1. PICK i \in S : f(i) = j
      BY <1>5
    <3>2. PICK D \in Int : /\ D = Distance(super.start[j], User(i))
                           /\ super.gran[j] * m(i) \in Int
                           /\ super.gran[j] * m(i) <= D
                           /\ D < super.gran[j] * m(i) + super.gran[j]
      BY <1>12, <3>1
    <3> DEFINE g == super.gran[j]
               x == l[j]
               y == L[j]
    <3>3. y = m(i) /\ g \in Nat \ {0} /\ x \in Int /\ y \in Int
      BY <1>10, <1>13, <2>1, <3>1
    <3>4. At(l, i, j)
      BY <1>3, <1>16, <3>1
    <3>5. 0 <= D - g * x /\ D - g * x < g
      BY <3>2, <3>4
    <3>6. g * y <= D /\ D < g * y + g
      BY <3>2, <3>3
    <3> HIDE DEF g, x, y
    <3>7. g * x \in Int
      BY <3>3, SMTT(30)
    <3>8. g * x <= D /\ D < g * x + g
      BY <3>2, <3>3, <3>5, <3>7
    <3>9. x = y
      BY <3>2, <3>3, <3>6, <3>8, OneMultiple
    <3>10. QED
      BY <3>9 DEF x, y
  <2>3. QED
    BY <2>1, <2>2
<1> HIDE DEF Stands
<1>17. Counterpart(sub, super, k) = L
  BY <1>9, <1>14, <1>15, <1>16
<1> DEFINE v == MappedTerms(sub, super, k)
           w == Terms(super, L)
<1>18. \A i \in S : v[i] = w[f(i)] /\ v[i] \in Nat
  <2> SUFFICES ASSUME NEW i \in S
               PROVE  v[i] = w[f(i)] /\ v[i] \in Nat
    OBVIOUS
  <2>1. v[i] = Coefficients(super)[f(i)] * m(i)
    BY DEF MappedTerms, f, m
  <2>2. \A j \in Dims(super) : L[j] \in Nat
    BY <1>9, ElementsAre DEF Counts
  <2>3. w[f(i)] = Coefficients(super)[f(i)] * L[f(i)] /\ w[f(i)] \in Nat
    BY <1>3, <2>2, TermsTyped
  <2>4. QED
    BY <1>10, <2>1, <2>3
<1>19. {f(i) : i \in S} = Dims(super)
  BY <1>3, <1>5
<1>20. IsFiniteSet(S)
  BY Described
<1>21. Sum(v, S) = Sum(w, {f(i) : i \in S})
  <2> DEFINE F == [i \in S |-> f(i)]
  <2>1. \A x \in S : v[x] = w[F[x]] /\ v[x] \in Nat
    BY <1>18
  <2>2. \A x, y \in S : F[x] = F[y] => x = y
    BY <1>4
  <2>3. {F[x] : x \in S} = {f(i) : i \in S}
    OBVIOUS
  <2> HIDE DEF F, v, w, S
  <2>4. Sum(v, S) = Sum(w, {F[x] : x \in S})
    BY <1>20, <2>1, <2>2, SumRenamed
  <2>5. QED
    BY <2>3, <2>4
<1>22. Offset(super, L) = MappedOffset(sub, super, k)
  BY <1>19, <1>21, OffsetAdds, MappedOffsetAdds
<1>23. QED
  BY <1>9, <1>17, <1>22

-----------------------------------------------------------------------------
(* The bytes that are moved at a time                                         *)

\* Above the dimension increment the two arrays are alike.
LEMMA DimIncrementTyped ==
  ASSUME NEW sub, NEW super, DescriptorSpace(sub)
  PROVE  /\ DimIncrement(sub, super) \in 0 .. NumDim(sub)
         /\ \A i \in Dims(sub) : i > DimIncrement(sub, super) =>
              /\ SameSteps(sub, super, i)
              /\ ~ (sub.sep[i] + super.sep[i] > 0)
              /\ i < NumDim(sub) => DimSize(sub, i + 1) = DimSize(super, i + 1)
<1> DEFINE Differs(i) == \/ ~SameSteps(sub, super, i)
                         \/ sub.sep[i] + super.sep[i] > 0
                         \/ i < NumDim(sub) /\ DimSize(sub, i + 1) # DimSize(super, i + 1)
           S == {0} \cup {i \in Dims(sub) : Differs(i)}
           N == NumDim(sub)
           D == DimIncrement(sub, super)
           T == {n \in Nat : n <= N /\ N - n \in S}
<1>1. N \in Nat /\ Dims(sub) = 1 .. N
  BY Described
<1>2. S \in SUBSET (0 .. N) /\ 0 \in S
  BY <1>1
<1>3. D = CHOOSE x \in S : \A y \in S : x >= y
  BY DEF DimIncrement, Max
<1>4. \A i \in Dims(sub) : Differs(i) => i \in S
  OBVIOUS
<1> HIDE DEF S, N, D
<1>5. PICK n \in T : \A m \in T : n <= m
  <2>1. N \in T /\ T \in SUBSET Nat
    BY <1>1, <1>2
  <2> HIDE DEF T
  <2>2. QED
    BY <2>1, Least
<1>6. N - n \in S /\ \A y \in S : N - n >= y
  <2>1. ASSUME NEW y \in S, ~ (N - n >= y)
        PROVE  FALSE
    <3>1. y \in 0 .. N
      BY <1>2
    <3>2. N - y \in Nat /\ N - y <= N /\ N - (N - y) = y /\ N - y < n
      BY <1>1, <2>1, <3>1
    <3>3. N - y \in T
      BY <3>2
    <3>4. QED
      BY <1>5, <3>2, <3>3
  <2>2. QED
    BY <2>1
<1>7. \E x \in S : \A y \in S : x >= y
  BY <1>6
<1>8. D \in S /\ \A y \in S : D >= y
  BY <1>3, <1>7
<1>9. D \in 0 .. N
  BY <1>2, <1>8
<1>10. \A i \in Dims(sub) : i > D => ~ Differs(i)
  BY <1>1, <1>4, <1>8, <1>9
<1>11. QED
  BY <1>9, <1>10 DEF D, N

\* What lies above it takes the same bytes in both arrays.
LEMMA SameCoefficients ==
  ASSUME NEW sub, NEW super, DescriptorSpace(sub), DescriptorSpace(super),
         Mappable(sub, super), NEW d \in DimIncrement(sub, super) .. NumDim(sub)
  PROVE  \A i \in d + 1 .. NumDim(sub) :
           /\ sub.sep[i] = 0 /\ super.sep[i] = 0
           /\ Coefficients(super)[i] = Coefficients(sub)[i]
<1> DEFINE N == NumDim(sub)
           D == DimIncrement(sub, super)
           c == Coefficients(sub)
           c0 == Coefficients(super)
           T == {n \in Nat : n < N - d => c0[N - n] = c[N - n]}
<1>1. N \in Nat \ {0} /\ Dims(sub) = 1 .. N /\ Dims(super) = 1 .. N
      /\ NumDim(super) = N /\ super.elem = sub.elem
  BY Described DEF Mappable, Dims
<1>2. D \in 0 .. N /\ d \in D .. N
  BY DimIncrementTyped
<1>3. ASSUME NEW i \in d + 1 .. N
      PROVE  /\ i \in Dims(sub) /\ sub.sep[i] = 0 /\ super.sep[i] = 0
             /\ i < N => DimSize(sub, i + 1) = DimSize(super, i + 1)
  <2>1. i \in Dims(sub) /\ i > D
    BY <1>1, <1>2
  <2>2. /\ ~ (sub.sep[i] + super.sep[i] > 0)
        /\ i < N => DimSize(sub, i + 1) = DimSize(super, i + 1)
    BY <2>1, DimIncrementTyped
  <2>3. sub.sep[i] \in Nat /\ super.sep[i] \in Nat
    BY <1>1, <2>1, Described
  <2>4. QED
    BY <2>1, <2>2, <2>3
<1>4. \A i \in 1 .. N : /\ c[i] = sub.sep[i] + (IF i = N THEN sub.elem
                                                ELSE c[i + 1] * DimSize(sub, i + 1))
                        /\ c0[i] = super.sep[i] + (IF i = N THEN super.elem
                                                   ELSE c0[i + 1] * DimSize(super, i + 1))
  <2>1. c = [i \in Dims(sub) |-> sub.sep[i] + (IF i = NumDim(sub) THEN sub.elem
                                  ELSE c[i + 1] * DimSize(sub, i + 1))]
    BY CoefficientsExist
  <2>2. c0 = [i \in Dims(super) |-> super.sep[i] + (IF i = NumDim(super) THEN super.elem
                                  ELSE c0[i + 1] * DimSize(super, i + 1))]
    BY CoefficientsExist
  <2> HIDE DEF c, c0
  <2>3. QED
    BY <1>1, <2>1, <2>2
<1> HIDE DEF c, c0, N, D
<1>5. 0 \in T
  <2>1. SUFFICES ASSUME 0 < N - d PROVE c0[N] = c[N]
    BY <1>1, <1>2
  <2>2. N \in d + 1 .. N /\ N \in 1 .. N
    BY <1>1, <1>2, <2>1
  <2>3. QED
    BY <1>1, <1>3, <1>4, <2>2
<1>6. ASSUME NEW n \in Nat, n \in T
      PROVE  n + 1 \in T
  <2>1. SUFFICES ASSUME n + 1 < N - d PROVE c0[N - (n + 1)] = c[N - (n + 1)]
    OBVIOUS
  <2> DEFINE i == N - (n + 1)
  <2>2. i \in d + 1 .. N /\ i \in 1 .. N /\ i < N /\ i + 1 = N - n /\ n < N - d
    BY <1>1, <1>2, <2>1
  <2> HIDE DEF i
  <2>3. c0[i + 1] = c[i + 1]
    BY <1>6, <2>2
  <2>4. c0[i] = c[i]
    BY <1>3, <1>4, <2>2, <2>3
  <2>5. QED
    BY <2>4 DEF i
<1>7. Nat \subseteq T
  <2> HIDE DEF T
  <2>1. QED
    BY <1>5, <1>6, FromZero
<1>8. ASSUME NEW i \in d + 1 .. N
      PROVE  c0[i] = c[i]
  <2>1. N - i \in Nat /\ N - i < N - d /\ N - (N - i) = i
    BY <1>1, <1>2
  <2>2. QED
    BY <1>7, <2>1
<1>9. QED
  BY <1>3, <1>8 DEF N, c, c0

\* Elements that differ only above the dimension increment are as far from each
\* other in one array as in the other: they can be moved in one block.
LEMMA BlockShift ==
  ASSUME NEW sub, NEW super, DescriptorSpace(sub), DescriptorSpace(super),
         Mappable(sub, super), NEW d \in DimIncrement(sub, super) .. NumDim(sub),
         NEW x, Counts(sub, x), NEW k, Counts(sub, k),
         \A j \in d + 1 .. NumDim(sub) : x[j] = 0,
         \A j \in 1 .. d : k[j] = x[j]
  PROVE  \E n \in Nat : /\ Offset(sub, k) = Offset(sub, x) + n
                        /\ MappedOffset(sub, super, k) = MappedOffset(sub, super, x) + n
<1> DEFINE N == NumDim(sub)
           D == DimIncrement(sub, super)
           c == Coefficients(sub)
           c0 == Coefficients(super)
           u == MappedTerms(sub, super, k)
           v == MappedTerms(sub, super, x)
           w == Terms(sub, k)
           n == Sum(w, d + 1 .. N)
<1>1. N \in Nat \ {0} /\ Dims(sub) = 1 .. N /\ Dims(super) = 1 .. N
  BY Described DEF Mappable, Dims
<1>2. D \in 0 .. N /\ d \in D .. N /\ d \in 0 .. N
  BY <1>1, DimIncrementTyped
<1>3. \A i \in 1 .. N : k[i] \in Nat /\ x[i] \in Nat
  BY <1>1 DEF Counts
<1>4. Offset(sub, k) = Sum(w, 1 .. d) + n /\ Sum(w, 1 .. d) \in Nat /\ n \in Nat
  BY <1>2, OffsetSplit
<1>5. Offset(sub, x) = Sum(w, 1 .. d)
  <2>1. Offset(sub, x) = Sum(Terms(sub, x), 1 .. d)
    BY <1>1, <1>2, <1>3, OffsetUpTo
  <2>2. \A i \in 1 .. d : Terms(sub, x)[i] = w[i]
    <3>1. \A i \in 1 .. d : i \in Dims(sub)
      BY <1>1, <1>2
    <3>2. QED
      BY <3>1 DEF Terms
  <2>3. IsFiniteSet(1 .. d)
    BY <1>2, FS_Interval
  <2> HIDE DEF w
  <2>4. QED
    BY <2>1, <2>2, <2>3, SumEqual
<1>6. \A i \in 1 .. N : u[i] \in Nat /\ v[i] \in Nat
  BY <1>1, MappedTermsTyped
<1>7. \A i \in 1 .. d : u[i] = v[i]
  <2>1. \A i \in 1 .. d : i \in Dims(sub)
    BY <1>1, <1>2
  <2>2. QED
    BY <2>1 DEF MappedTerms, MappedIndex
<1>8. ASSUME NEW i \in d + 1 .. N
      PROVE  u[i] = v[i] + w[i] /\ v[i] \in Nat /\ w[i] \in Nat
  <2>1. i \in Dims(sub) /\ i > D /\ i \in 1 .. N
    BY <1>1, <1>2
  <2>2. /\ DimMapping(sub, super, i) = i /\ MapDir(sub, super, i) = 1
        /\ sub.gran[i] = super.gran[i]
    BY <2>1, DimIncrementTyped DEF SameSteps
  <2>3. c0[i] = c[i]
    BY SameCoefficients
  <2>4. x[i] = 0
    OBVIOUS
  <2> DEFINE p == IndexMapping(sub, super, i)
             r == k[i]
             y == c[i]
  <2>5. r \in Nat /\ sub.gran[i] \in Nat
    BY <2>1 DEF Counts, DescriptorSpace, Dims, NumDim
  <2>6. GranMapping(sub, super, i) = 1 /\ GranDivMapping(sub, super, i) = 1
    BY <2>2, <2>5 DEF GranMapping, GranDivMapping
  <2>7. MappedIndex(sub, super, k, i) = p + 1 * ((r * 1) \div 1)
    BY <2>2, <2>6 DEF MappedIndex
  <2>8. MappedIndex(sub, super, x, i) = p + 1 * ((0 * 1) \div 1)
    BY <2>2, <2>4, <2>6 DEF MappedIndex
  <2>9. MappedIndex(sub, super, x, i) \in Nat
    <3>1. x[i] \in Nat /\ x[i] < DimSize(sub, i)
      BY <2>1 DEF Counts
    <3>2. MappedIndex(sub, super, x, i) \in 0 .. DimSize(super, i) - 1
      BY <2>1, <2>2, <3>1, MappedInSuper
    <3>3. DimSize(super, i) \in Nat
      BY <1>1, <2>1, Described
    <3>4. QED
      BY <3>2, <3>3
  <2>10. y \in Nat
    BY <2>1, CoefficientsAre
  <2>11. u[i] = y * MappedIndex(sub, super, k, i) /\ v[i] = y * MappedIndex(sub, super, x, i)
    BY <2>1, <2>2, <2>3 DEF MappedTerms
  <2>12. w[i] = y * r
    BY <2>1 DEF Terms
  <2> DEFINE q == MappedIndex(sub, super, x, i)
             t == MappedIndex(sub, super, k, i)
  <2>13. q \in Nat /\ u[i] = y * t /\ v[i] = y * q
    BY <2>9, <2>11
  <2>14. t = p + 1 * ((r * 1) \div 1) /\ q = p + 1 * ((0 * 1) \div 1)
    BY <2>7, <2>8
  <2> HIDE DEF q, t, p, r, y, u, v, w
  <2>15. (r * 1) \div 1 = r /\ (0 * 1) \div 1 = 0
    BY <2>5
  <2>16. q = p + 0 /\ t = p + 1 * r
    BY <2>14, <2>15
  <2>17. p \in Int
    <3>1. /\ sub.start[i] \in Int /\ super.start[i] \in Int
          /\ super.gran[i] \in Nat \ {0}
      BY <1>1, <2>1 DEF DescriptorSpace, Dims, NumDim
    <3> DEFINE far == Distance(sub.start[i], super.start[i])
    <3>2. far \in Nat
      BY <3>1 DEF Distance
    <3>3. p = far \div super.gran[i]
      BY <2>2 DEF p, IndexMapping
    <3> HIDE DEF far
    <3>4. QED
      BY <3>1, <3>2, <3>3, Quotient
  <2>18. t = q + r
    BY <2>5, <2>16, <2>17
  <2>19. y * (q + r) = y * q + y * r /\ y * q \in Nat /\ y * r \in Nat
    BY <2>5, <2>10, <2>13, SMTT(30)
  <2>20. QED
    BY <2>12, <2>13, <2>18, <2>19
<1> HIDE DEF N, D, u, v, w
<1>9. /\ Sum(u, 1 .. N) = Sum(u, 1 .. d) + Sum(u, d + 1 .. N)
      /\ Sum(v, 1 .. N) = Sum(v, 1 .. d) + Sum(v, d + 1 .. N)
      /\ Sum(v, 1 .. d) \in Nat /\ Sum(v, d + 1 .. N) \in Nat
  <2>1. 1 <= d + 1 /\ d <= N /\ d \in Int /\ N \in Int
    BY <1>1, <1>2
  <2>2. QED
    BY <1>6, <2>1, SumInterval
<1>10. Sum(u, 1 .. d) = Sum(v, 1 .. d)
  <2>1. IsFiniteSet(1 .. d)
    BY <1>2, FS_Interval
  <2>2. QED
    BY <1>7, <2>1, SumEqual
<1>11. Sum(u, d + 1 .. N) = Sum(v, d + 1 .. N) + n
  <2> DEFINE S == d + 1 .. N
  <2>1. IsFiniteSet(S)
    BY <1>1, <1>2, FS_Interval
  <2>2. \A i \in S : u[i] = v[i] + w[i] /\ v[i] \in Nat /\ w[i] \in Nat
    BY <1>8
  <2> HIDE DEF S
  <2>3. Sum(u, S) = Sum(v, S) + Sum(w, S)
    BY <2>1, <2>2, SumAdded
  <2>4. QED
    BY <2>3 DEF S, n
<1> HIDE DEF n
<1>12. /\ MappedOffset(sub, super, k) = Sum(u, 1 .. N)
       /\ MappedOffset(sub, super, x) = Sum(v, 1 .. N)
  BY <1>1, MappedOffsetAdds DEF u, v
<1>13. MappedOffset(sub, super, k) = MappedOffset(sub, super, x) + n
  BY <1>4, <1>9, <1>10, <1>11, <1>12
<1>14. QED
  BY <1>4, <1>5, <1>13

-----------------------------------------------------------------------------
(* The indices stay inside *)

IndexTyped == index \in [Dims(Sub) -> Nat]
IndexBounded == \A i \in Dims(Sub) : index[i] < DimSize(Sub, i)
IInv == job \in Jobs /\ IndexTyped /\ IndexBounded

LEMMA InitIndices == Init => IInv
<1> SUFFICES ASSUME Init PROVE IInv
  OBVIOUS
<1>1. job \in Jobs /\ index = [i \in Dims(Sub) |-> 0]
  BY DEF Init, Origin, Sub
<1>2. DescriptorSpace(Sub)
  BY <1>1, JobsAssumption DEF JobSpace, Sub
<1>3. IndexTyped
  BY <1>1 DEF IndexTyped
<1>4. IndexBounded
  <2> SUFFICES ASSUME NEW i \in Dims(Sub) PROVE index[i] < DimSize(Sub, i)
    BY DEF IndexBounded
  <2>1. index[i] = 0
    BY <1>1
  <2>2. QED
    BY <1>2, <2>1, DimSizePositive
<1>5. QED
  BY <1>1, <1>3, <1>4 DEF IInv

\* Only Copy moves the indices, and it counts them up modulo the sizes.
LEMMA StepIndices == IInv /\ [Next]_vars => IInv'
<1> SUFFICES ASSUME IInv, [Next]_vars PROVE IInv'
  OBVIOUS
<1>1. CASE Copy
  <2>1. job' = job /\ Sub' = Sub /\ index' = Incremented(Sub, index, step)
    BY <1>1 DEF Copy, Sub, Following
  <2>2. DescriptorSpace(Sub)
    BY JobsAssumption DEF IInv, JobSpace, Sub
  <2>3. ASSUME NEW i \in Dims(Sub)
        PROVE  index'[i] \in Nat /\ index'[i] < DimSize(Sub, i)
    <3>1. index[i] \in Nat /\ index[i] < DimSize(Sub, i)
      BY DEF IInv, IndexTyped, IndexBounded
    <3>2. \/ index'[i] = index[i]
          \/ index'[i] = (index[i] + 1) % DimSize(Sub, i)
      BY <2>1 DEF Incremented
    <3>3. DimSize(Sub, i) \in Nat \ {0}
      BY <2>2, DimSizePositive
    <3>4. /\ (index[i] + 1) % DimSize(Sub, i) \in Nat
          /\ (index[i] + 1) % DimSize(Sub, i) < DimSize(Sub, i)
      BY <3>1, <3>3, Remainder
    <3>5. QED
      BY <3>1, <3>2, <3>4
  <2>4. index' = [i \in Dims(Sub) |-> index'[i]]
    BY <2>1 DEF Incremented
  <2>5. IndexTyped'
    BY <2>1, <2>3, <2>4 DEF IndexTyped
  <2>6. IndexBounded'
    BY <2>1, <2>3 DEF IndexBounded
  <2>7. QED
    BY <2>1, <2>5, <2>6 DEF IInv
<1>2. CASE UNCHANGED <<job, index>>
  BY <1>2 DEF IInv, IndexTyped, IndexBounded, Sub
<1>3. Next => Copy \/ UNCHANGED <<job, index>>
  BY DEF Next, FillBuffer, WritePart, WriteWhole, Transfer, RefuseTransfer, EndOfFile, BufferUsed,
         Stop, Enter, Refuse, vars
<1>4. QED
  BY <1>1, <1>2, <1>3 DEF vars

\* However an array is cut into calls and buffers, the indices never leave the
\* sub-array, nor the elements fetched the super-array: ndarr_reorient asks its
\* source for nothing that is not there.
THEOREM FetchesInside == Spec => []InBounds
<1>1. Init => IInv
  BY InitIndices
<1>2. IInv /\ [Next]_vars => IInv'
  BY StepIndices
<1>3. IInv => InBounds
  <2> SUFFICES ASSUME IInv, NEW i \in Dims(Sub)
               PROVE  /\ index[i] < DimSize(Sub, i)
                      /\ MappedIndex(Sub, Super, index, i)
                           \in 0 .. DimSize(Super, DimMapping(Sub, Super, i)) - 1
    BY DEF InBounds
  <2>1. DescriptorSpace(Sub) /\ DescriptorSpace(Super) /\ Mappable(Sub, Super)
    BY JobsAssumption DEF IInv, JobSpace, Sub, Super
  <2>2. index[i] \in Nat /\ index[i] < DimSize(Sub, i)
    BY DEF IInv, IndexTyped, IndexBounded
  <2>3. QED
    BY <2>1, <2>2, MappedInSuper
<1>4. QED
  BY <1>1, <1>2, <1>3, PTL DEF Spec

-----------------------------------------------------------------------------
(* What ndarr_reorient tells its caller                                       *)

\* The dimension that is stepped by, and the indices above it, which rest
Stepping ==
    /\ inc \in 0 .. NumDim(Sub) /\ step \in 0 .. NumDim(Sub)
    /\ job.route # "fileToBuffer" => inc = DimIncrement(Sub, Super)
    /\ pc = "copy" /\ job.route # "bufferToFile" => step = inc
    /\ pc = "copy" => \A j \in step + 1 .. NumDim(Sub) : index[j] = 0
    /\ pc = "idle" => IF job.route = "fileToBuffer"
                      THEN \A j \in inc + 1 .. NumDim(Sub) : index[j] = 0
                      ELSE given = 0 => index = Origin(Sub)

\* The buffer of the call: there is room for the next block, or it holds the
\* elements that the indices point at.
Buffers ==
    /\ room \in Nat /\ moved \in Nat /\ start \in Nat /\ given \in Nat /\ pos \in Nat
    /\ job.route # "bufferToFile" => given = 0
    /\ BufferKept
    /\ pc = "copy" =>
         /\ job.route = "fileToBuffer" => moved + MinBuffSize(step) <= room
         /\ ~ Partial => start = 0
         /\ Partial => /\ step = NumDim(Sub) /\ Sub.elem <= room
                       /\ ~ Necessary(Sub, Super)
                       /\ start <= MappedOffset(Sub, Super, index)

\* What has been written: all up to where the output goes on, nothing after it
Written ==
    /\ DOMAIN image = 0 .. MaxBytes - 1
    /\ Resumes
    /\ pc \in {"idle", "copy"} => \A b \in DOMAIN image : image[b] # Unset <=> b < pos
    /\ pc = "done" => /\ index = Origin(Sub)
                      /\ \A b \in 0 .. TotalSize(Sub) - 1 : image[b] # Unset
    /\ complete <=> pc = "done"
    /\ RefusedOnlyTooSmall

RInv == IInv /\ Stepping /\ Buffers /\ Written

LEMMA JobFacts ==
  ASSUME job \in Jobs
  PROVE  /\ DescriptorSpace(Sub) /\ DescriptorSpace(Super) /\ Mappable(Sub, Super)
         /\ TotalSize(Sub) \in Nat /\ TotalSize(Sub) <= MaxBytes
         /\ job.route \in Routes
         /\ Sub.elem = Super.elem
<1>1. /\ DescriptorSpace(Sub) /\ DescriptorSpace(Super) /\ Mappable(Sub, Super)
      /\ TotalSize(Sub) <= MaxBytes /\ job.route \in Routes
  BY JobsAssumption DEF JobSpace, Sub, Super
<1>2. NumDim(Sub) \in Nat
  BY <1>1, Described
<1>3. 0 \in 0 .. NumDim(Sub)
  BY <1>2
<1>4. TotalSize(Sub) \in Nat
  BY <1>1, <1>3, CoefficientsAre
<1>5. QED
  BY <1>1, <1>4 DEF Mappable

LEMMA InitReports == Init => RInv
<1> SUFFICES ASSUME Init PROVE RInv
  OBVIOUS
<1>1. IInv
  BY InitIndices
<1>2. job \in Jobs /\ index = Origin(Sub) /\ inc = DimIncrement(Sub, Super)
  BY DEF Init, Sub, Super
<1>3. /\ DescriptorSpace(Sub) /\ NumDim(Sub) \in Nat
      /\ Offset(Sub, Origin(Sub)) = 0
  BY <1>2, JobFacts, Described, OffsetOfOrigin
<1>4. inc \in 0 .. NumDim(Sub)
  BY <1>2, <1>3, DimIncrementTyped
<1>5. /\ pc = "idle" /\ step = 0 /\ room = 0 /\ moved = 0 /\ start = 0
      /\ given = 0 /\ pos = 0 /\ complete = FALSE /\ ret = 0
      /\ image = [b \in 0 .. MaxBytes - 1 |-> Unset]
  BY DEF Init
<1>6. \A j \in inc + 1 .. NumDim(Sub) : index[j] = 0
  <2>1. \A j \in inc + 1 .. NumDim(Sub) : j \in Dims(Sub)
    BY <1>3, <1>4 DEF Dims
  <2>2. QED
    BY <1>2, <2>1 DEF Origin
<1>7. Stepping
  BY <1>2, <1>3, <1>4, <1>5, <1>6 DEF Stepping
<1>8. Buffers
  BY <1>5 DEF Buffers, BufferKept
<1>9. Written
  BY <1>2, <1>3, <1>5, MaxBytesAssumption DEF Written, Resumes, RefusedOnlyTooSmall
<1>10. QED
  BY <1>1, <1>7, <1>8, <1>9 DEF RInv

\* A call begins where the last one ended.
LEMMA Entering ==
  ASSUME RInv, pc = "idle", NEW size \in Nat, NEW d \in 0 .. NumDim(Sub), NEW from \in Nat,
         pc' = "copy", room' = size, step' = d, start' = from, moved' = 0,
         complete' = FALSE, pos' = Offset(Sub, index), inc' \in 0 .. NumDim(Sub),
         UNCHANGED <<job, index, given, image, ret>>,
         job.route # "fileToBuffer" => inc' = inc,
         job.route # "bufferToFile" => d = inc',
         \A j \in d + 1 .. NumDim(Sub) : index[j] = 0,
         job.route = "fileToBuffer" => MinBuffSize(d) <= size,
         IF job.route = "bufferToFile" /\ size < TotalSize(Super)
         THEN /\ d = NumDim(Sub) /\ Sub.elem <= size /\ ~ Necessary(Sub, Super)
              /\ from <= MappedOffset(Sub, Super, index)
         ELSE from = 0
  PROVE  RInv'
<1>1. Sub' = Sub /\ Super' = Super
  BY DEF Sub, Super
<1>2. IInv'
  BY <1>1 DEF RInv, IInv, IndexTyped, IndexBounded
<1>3. Stepping'
  BY <1>1 DEF RInv, Stepping
<1>4. Partial' <=> job.route = "bufferToFile" /\ size < TotalSize(Super)
  BY <1>1 DEF Partial
<1>5. MinBuffSize(step)' = MinBuffSize(d)
  BY <1>1 DEF MinBuffSize
<1>6. pos = Offset(Sub, index) /\ pos \in Nat
  BY DEF RInv, Written, Resumes, Buffers
<1>7. job.route = "fileToBuffer" => MinBuffSize(d) \in Nat /\ 0 + MinBuffSize(d) <= size
  <2>1. DescriptorSpace(Sub) /\ NumDim(Sub) \in Nat /\ IsFiniteSet(Dims(Sub))
        /\ \A i \in Dims(Sub) : Sub.sep[i] \in Nat
    BY JobFacts, Described DEF RInv, IInv
  <2>2. IncrementBlock(Sub, d) \in Nat /\ SubSep(Sub) \in Nat
    BY <2>1, BlockIs, CoefficientsAre, SubSepAdds, SumRemove
  <2> DEFINE m == MinBuffSize(d)
  <2>3. m \in Nat
    BY <2>2 DEF MinBuffSize
  <2> HIDE DEF m
  <2>4. m \in Nat => 0 + m = m
    OBVIOUS
  <2>5. QED
    BY <2>3, <2>4 DEF m
<1>8. Buffers'
  BY <1>1, <1>4, <1>5, <1>6, <1>7 DEF RInv, Buffers, BufferKept
<1>9. Written'
  <2>1. (DOMAIN image = 0 .. MaxBytes - 1)' /\ Resumes'
    BY <1>1 DEF RInv, Written, Resumes
  <2>2. \A b \in DOMAIN image' : image'[b] # Unset <=> b < pos'
    BY <1>6 DEF RInv, Written
  <2>3. RefusedOnlyTooSmall'
    BY DEF RefusedOnlyTooSmall
  <2>4. QED
    BY <2>1, <2>2, <2>3 DEF Written
<1>10. QED
  BY <1>2, <1>3, <1>8, <1>9 DEF RInv

\* The dimensions of a buffer that is too small for the whole block
LEMMA FittingHas ==
  ASSUME RInv, NEW size \in Nat, Fitting(size) # {}
  PROVE  Min(Fitting(size)) \in Fitting(size)
<1>1. Fitting(size) \in SUBSET Nat
  <2>1. inc \in Nat /\ NumDim(Sub) \in Nat
    BY JobFacts, Described DEF RInv, IInv, Stepping
  <2>2. QED
    BY <2>1 DEF Fitting
<1>2. \E x \in Fitting(size) : \A y \in Fitting(size) : x <= y
  BY <1>1, Least
<1>3. QED
  BY <1>2 DEF Min

LEMMA BufferFilled ==
  ASSUME RInv, NEW size \in Sizes, FillBuffer(size)
  PROVE  RInv'
<1>1. /\ pc = "idle" /\ job.route = "fileToBuffer" /\ size \in Nat
      /\ DescriptorSpace(Sub) /\ NumDim(Sub) \in Nat /\ inc \in 0 .. NumDim(Sub)
      /\ index \in [Dims(Sub) -> Nat] /\ Dims(Sub) = 1 .. NumDim(Sub)
  BY SizesAssumption, JobFacts, Described DEF FillBuffer, RInv, IInv, IndexTyped, Stepping
<1>2. CASE Fitting(size) # {}
  <2> DEFINE d == Min(Fitting(size))
  <2>1. d \in inc .. NumDim(Sub) /\ MinBuffSize(d) <= size
    BY <1>2, FittingHas, <1>1 DEF Fitting
  <2>2. inc' = d /\ Enter(size, d, 0, pos)
    BY <1>2 DEF FillBuffer, Enter
  <2> HIDE DEF d
  <2>3. d \in 0 .. NumDim(Sub)
    BY <1>1, <2>1
  <2>4. \A j \in d + 1 .. NumDim(Sub) : index[j] = 0
    <3>1. \A j \in inc + 1 .. NumDim(Sub) : index[j] = 0
      BY <1>1 DEF RInv, Stepping
    <3>2. QED
      BY <1>1, <2>1, <3>1
  <2>5. pos = Offset(Sub, index)
    BY <1>1 DEF RInv, Written, Resumes
  <2>6. QED
    BY <1>1, <2>1, <2>2, <2>3, <2>4, <2>5, Entering DEF Enter
<1>3. CASE Fitting(size) = {}
  <2>1. room' = size /\ Refuse
    BY <1>3 DEF FillBuffer
  <2>2. Sub' = Sub /\ Super' = Super
    BY <2>1 DEF Refuse, Sub, Super
  <2>3. size < Sub.elem + SubSep(Sub)
    <3>1. NumDim(Sub) \in inc .. NumDim(Sub) /\ NumDim(Sub) # 0
      BY <1>1, Described
    <3>2. ~ (MinBuffSize(NumDim(Sub)) <= size)
      BY <1>3, <3>1 DEF Fitting
    <3>3. MinBuffSize(NumDim(Sub)) = Sub.elem + SubSep(Sub)
      BY <3>1 DEF MinBuffSize, IncrementBlock
    <3>4. Sub.elem \in Nat /\ SubSep(Sub) \in Nat
      BY <1>1, Described, SubSepAdds, SumRemove
    <3>5. QED
      BY <1>1, <3>2, <3>3, <3>4
  <2>4. IInv' /\ Stepping'
    BY <2>1, <2>2 DEF RInv, IInv, IndexTyped, IndexBounded, Stepping, Refuse
  <2>5. Buffers'
    BY <1>1, <2>1 DEF RInv, Buffers, BufferKept, Refuse
  <2>6. Written'
    BY <1>1, <2>1, <2>2, <2>3 DEF RInv, Written, Resumes, RefusedOnlyTooSmall, Refuse
  <2>7. QED
    BY <2>4, <2>5, <2>6 DEF RInv
<1>4. QED
  BY <1>2, <1>3

LEMMA PartWritten ==
  ASSUME RInv, NEW size \in Sizes, WritePart(size)
  PROVE  RInv'
<1>1. /\ pc = "idle" /\ job.route = "bufferToFile" /\ size \in Nat /\ 0 < size
      /\ size % Super.elem = 0 /\ size < TotalSize(Super)
      /\ DescriptorSpace(Sub) /\ NumDim(Sub) \in Nat /\ inc \in 0 .. NumDim(Sub)
      /\ Sub.elem = Super.elem /\ Sub.elem \in Nat \ {0}
  BY SizesAssumption, JobFacts, Described DEF WritePart, RInv, IInv, Stepping
<1>2. CASE ~ Necessary(Sub, Super)
  <2> DEFINE from == MappedOffset(Sub, Super, index)
  <2>1. /\ inc' = inc
        /\ Enter(size, NumDim(Sub), from, IF job.update THEN Offset(Sub, index) ELSE pos)
    BY <1>2 DEF WritePart
  <2>2. pos = Offset(Sub, index)
    BY <1>1 DEF RInv, Written, Resumes
  <2>3. Counts(Sub, index)
    BY DEF RInv, IInv, IndexTyped, IndexBounded, Counts
  <2>4. from \in Nat
    BY <2>3, JobFacts, MappedOffsetTyped DEF RInv, IInv
  <2>5. Sub.elem <= size
    <3> DEFINE e == Sub.elem
    <3>1. e \in Nat \ {0} /\ size % e = 0
      BY <1>1
    <3> HIDE DEF e
    <3>2. e <= size
      BY <1>1, <3>1, SMTT(30)
    <3>3. QED
      BY <3>2 DEF e
  <2>6. Enter(size, NumDim(Sub), from, Offset(Sub, index))
    BY <2>1, <2>2
  <2> HIDE DEF from
  <2>7. \A j \in NumDim(Sub) + 1 .. NumDim(Sub) : index[j] = 0
    BY <1>1
  <2>8. NumDim(Sub) \in 0 .. NumDim(Sub) /\ from <= from
    BY <1>1, <2>4
  <2>9. QED
    BY <1>1, <1>2, <2>1, <2>4, <2>5, <2>6, <2>7, <2>8, Entering DEF Enter, from
<1>3. CASE Necessary(Sub, Super)
  <2>1. room' = size /\ Refuse
    BY <1>3 DEF WritePart
  <2>2. Sub' = Sub /\ Super' = Super
    BY <2>1 DEF Refuse, Sub, Super
  <2>3. IInv' /\ Stepping'
    BY <2>1, <2>2 DEF RInv, IInv, IndexTyped, IndexBounded, Stepping, Refuse
  <2>4. Buffers'
    BY <1>1, <2>1 DEF RInv, Buffers, BufferKept, Refuse
  <2>5. Written'
    BY <1>1, <1>3, <2>1, <2>2 DEF RInv, Written, Resumes, RefusedOnlyTooSmall, Refuse
  <2>6. QED
    BY <2>3, <2>4, <2>5 DEF RInv
<1>4. QED
  BY <1>2, <1>3

\* Nothing is moved where a buffer does not hold its whole array.
LEMMA TransferRefused ==
  ASSUME RInv, NEW size \in Sizes, RefuseTransfer(size)
  PROVE  RInv'
<1>1. /\ pc = "idle" /\ job.route = "bufferToBuffer" /\ size \in Nat
      /\ size < TotalSize(Super) \/ size < TotalSize(Sub)
      /\ room' = size /\ Refuse
  BY SizesAssumption DEF RefuseTransfer
<1>2. Sub' = Sub /\ Super' = Super
  BY <1>1 DEF Refuse, Sub, Super
<1>3. TotalSize(Super) \in Nat /\ TotalSize(Sub) \in Nat
  <2>1. DescriptorSpace(Sub) /\ DescriptorSpace(Super)
    BY JobFacts DEF RInv, IInv
  <2>2. 0 \in 0 .. NumDim(Sub) /\ 0 \in 0 .. NumDim(Super)
    BY <2>1, Described
  <2>3. QED
    BY <2>1, <2>2, CoefficientsAre
<1>4. IInv' /\ Stepping'
  BY <1>1, <1>2 DEF RInv, IInv, IndexTyped, IndexBounded, Stepping, Refuse
<1>5. Buffers'
  BY <1>1 DEF RInv, Buffers, BufferKept, Refuse
<1>6. RefusedOnlyTooSmall'
  <2>1. TotalSize(Super)' = TotalSize(Super) /\ TotalSize(Sub)' = TotalSize(Sub)
    BY <1>2
  <2>2. job' = job
    BY <1>1 DEF Refuse
  <2>3. ~(TotalSize(Super) <= size /\ TotalSize(Sub) <= size)
    BY <1>1, <1>3
  <2>4. QED
    BY <1>1, <2>1, <2>2, <2>3, Zenon DEF RefusedOnlyTooSmall
<1>7. Written'
  BY <1>1, <1>2, <1>6 DEF RInv, Written, Resumes, Refuse
<1>8. QED
  BY <1>4, <1>5, <1>7 DEF RInv

\* The calls that move the whole array begin at its first element.
LEMMA WholeMoved ==
  ASSUME RInv, WriteWhole \/ Transfer
  PROVE  RInv'
<1>1. /\ pc = "idle" /\ job.route # "fileToBuffer" /\ given = 0
      /\ DescriptorSpace(Sub) /\ DescriptorSpace(Super)
      /\ NumDim(Sub) \in Nat /\ inc \in 0 .. NumDim(Sub)
      /\ Dims(Sub) = 1 .. NumDim(Sub)
  BY JobFacts, Described DEF WriteWhole, Transfer, RInv, IInv, Stepping, Buffers
<1>2. index = Origin(Sub)
  BY <1>1 DEF RInv, Stepping
<1>3. Offset(Sub, index) = 0 /\ pos = 0
  BY <1>1, <1>2, OffsetOfOrigin DEF RInv, Written, Resumes
<1>4. inc' = inc /\ Enter(TotalSize(Super), inc, 0, Offset(Sub, index))
  BY <1>3 DEF WriteWhole, Transfer
<1>5. \A j \in inc + 1 .. NumDim(Sub) : index[j] = 0
  <2>1. \A j \in inc + 1 .. NumDim(Sub) : j \in Dims(Sub)
    BY <1>1
  <2>2. QED
    BY <1>2, <2>1 DEF Origin
<1>6. TotalSize(Super) \in Nat
  <2>1. NumDim(Super) \in Nat
    BY <1>1, Described
  <2>2. 0 \in 0 .. NumDim(Super)
    BY <2>1
  <2>3. QED
    BY <1>1, <2>2, CoefficientsAre
<1>7. ~ (TotalSize(Super) < TotalSize(Super))
  BY <1>6
<1>8. QED
  BY <1>1, <1>4, <1>5, <1>6, <1>7, Entering DEF Enter

\* The block that is moved next, where it comes from and where it goes
LEMMA NextBlock ==
  ASSUME RInv, WholeBlocks, pc = "copy"
  PROVE  /\ DescriptorSpace(Sub) /\ NumDim(Sub) \in Nat /\ Counts(Sub, index)
         /\ Block = Content(Sub, step) /\ Block \in Nat
         /\ Source \in Nat /\ Target = pos /\ pos \in Nat
         /\ SeparationAfter(Sub, index, step) \in Nat
         /\ Block + SeparationAfter(Sub, index, step) <= MinBuffSize(step)
         /\ Following \in [Dims(Sub) -> Nat] /\ Counts(Sub, Following)
         /\ \A j \in step + 1 .. NumDim(Sub) : Following[j] = 0
         /\ pos + Block + SeparationAfter(Sub, index, step)
              = IF Following = Origin(Sub) THEN TotalSize(Sub) ELSE Offset(Sub, Following)
<1>1. /\ DescriptorSpace(Sub) /\ DescriptorSpace(Super) /\ Mappable(Sub, Super)
      /\ NumDim(Sub) \in Nat \ {0} /\ Dims(Sub) = 1 .. NumDim(Sub)
      /\ \A i \in Dims(Sub) : Sub.sep[i] \in Nat
      /\ IsFiniteSet(Dims(Sub)) /\ job.route \in Routes
  BY JobFacts, Described DEF RInv, IInv
<1>2. Counts(Sub, index) /\ step \in 0 .. NumDim(Sub) /\ index \in [Dims(Sub) -> Nat]
  BY DEF RInv, IInv, IndexTyped, IndexBounded, Counts, Stepping
<1>3. \A j \in step + 1 .. NumDim(Sub) : index[j] = 0
  BY DEF RInv, Stepping
<1>4. pos = Offset(Sub, index) /\ pos \in Nat
  BY DEF RInv, Written, Resumes, Buffers
<1>5. Block = Content(Sub, step) /\ Block \in Nat
  <2>1. Content(Sub, step) \in Nat
    BY <1>1, <1>2, CoefficientsAre
  <2>2. CASE Partial
    <3>1. step = NumDim(Sub) /\ Block = Sub.elem
      BY <2>2 DEF RInv, Buffers, Block
    <3>2. QED
      BY <2>1, <3>1 DEF Content
  <2>3. CASE ~ Partial
    BY <1>1, <1>2, <2>1, <2>3, BlockIs DEF Block
  <2>4. QED
    BY <2>2, <2>3
<1>6. Source \in Nat
  <2>1. MappedOffset(Sub, Super, index) \in Nat
    BY <1>1, <1>2, MappedOffsetTyped
  <2>2. start \in Nat /\ start <= MappedOffset(Sub, Super, index)
    BY <2>1 DEF RInv, Buffers
  <2>3. QED
    BY <2>1, <2>2 DEF Source
<1>7. Target = pos
  <2>1. CASE job.route = "bufferToBuffer"
    <3>1. step = 0
      <4>1. inc = DimIncrement(Sub, Super) /\ step = inc
        BY <2>1 DEF RInv, Stepping
      <4>2. DimIncrement(Sub, Super) = 0
        BY <2>1 DEF WholeBlocks, RInv, IInv, Sub, Super
      <4>3. QED
        BY <4>1, <4>2
    <3>2. index = Origin(Sub)
      <4>1. \A j \in Dims(Sub) : index[j] = 0
        BY <1>1, <1>3, <3>1
      <4>2. QED
        BY <1>2, <4>1 DEF Origin
    <3>3. Offset(Sub, index) = 0
      BY <1>1, <3>2, OffsetOfOrigin
    <3>4. QED
      BY <1>4, <3>3 DEF Target
  <2>2. CASE job.route # "bufferToBuffer"
    BY <2>2 DEF Target
  <2>3. QED
    BY <2>1, <2>2
<1>8. /\ Following \in [Dims(Sub) -> Nat] /\ Counts(Sub, Following)
      /\ \A j \in step + 1 .. NumDim(Sub) : Following[j] = 0
      /\ SeparationAfter(Sub, index, step) \in Nat
      /\ SeparationAfter(Sub, index, step) <= SubSep(Sub)
      /\ Offset(Sub, index) + Content(Sub, step) + SeparationAfter(Sub, index, step)
           = IF Following = Origin(Sub) THEN TotalSize(Sub) ELSE Offset(Sub, Following)
  BY <1>1, <1>2, <1>3, Carry DEF Following
<1>9. Block + SeparationAfter(Sub, index, step) <= MinBuffSize(step)
  <2>1. MinBuffSize(step) = Block + SubSep(Sub)
    BY <1>1, <1>2, <1>5, BlockIs DEF MinBuffSize
  <2>2. SubSep(Sub) \in Nat
    BY <1>1, SubSepAdds, SumRemove
  <2>3. QED
    BY <1>5, <1>8, <2>1, <2>2
<1>10. QED
  BY <1>1, <1>2, <1>4, <1>5, <1>6, <1>7, <1>8, <1>9

\* In an array that needs no mapping the next element lies further on.
LEMMA SourceGrows ==
  ASSUME RInv, WholeBlocks, pc = "copy", Partial, Following # Origin(Sub)
  PROVE  /\ SeparationAfter(Super, index, step) \in Nat
         /\ Sub.elem \in Nat /\ MappedOffset(Sub, Super, index) \in Nat
         /\ MappedOffset(Sub, Super, Following)
              = MappedOffset(Sub, Super, index) + Sub.elem + SeparationAfter(Super, index, step)
<1>1. /\ DescriptorSpace(Sub) /\ DescriptorSpace(Super) /\ Mappable(Sub, Super)
      /\ ~ Necessary(Sub, Super) /\ step = NumDim(Sub)
  BY JobFacts DEF RInv, IInv, Buffers
<1>2. Counts(Sub, index) /\ Counts(Sub, Following)
  BY NextBlock
<1>3. /\ Dims(Super) = Dims(Sub) /\ NumDim(Super) = NumDim(Sub)
      /\ \A i \in Dims(Sub) : DimSize(Super, i) = DimSize(Sub, i)
      /\ MappedOffset(Sub, Super, index) = Offset(Super, index)
      /\ MappedOffset(Sub, Super, Following) = Offset(Super, Following)
  BY <1>1, <1>2, SameArrays
<1>4. NumDim(Sub) \in Nat \ {0} /\ Dims(Sub) = 1 .. NumDim(Sub)
  BY <1>1, Described
<1>5. Incremented(Super, index, step) = Following
  <2>1. \A i \in Dims(Sub) : \A j \in i + 1 .. step : j \in Dims(Sub)
    BY <1>1, <1>4
  <2>2. \A i \in Dims(Sub) :
          (\A j \in i + 1 .. step : index[j] + 1 = DimSize(Super, j))
            <=> (\A j \in i + 1 .. step : index[j] + 1 = DimSize(Sub, j))
    BY <1>3, <2>1
  <2>3. QED
    BY <1>3, <2>2 DEF Incremented, Following
<1>6. Counts(Super, index)
  BY <1>2, <1>3 DEF Counts
<1>7. Origin(Super) = Origin(Sub)
  BY <1>3 DEF Origin
<1>8. step \in 0 .. NumDim(Super) /\ \A j \in step + 1 .. NumDim(Super) : index[j] = 0
  BY <1>1, <1>3, <1>4
<1>9. /\ Offset(Super, index) \in Nat /\ SeparationAfter(Super, index, step) \in Nat
      /\ Offset(Super, index) + Content(Super, step) + SeparationAfter(Super, index, step)
           = Offset(Super, Following)
  BY <1>1, <1>5, <1>6, <1>7, <1>8, Carry
<1>10. Content(Super, step) = Sub.elem /\ Sub.elem \in Nat
  BY <1>1, <1>3, JobFacts, Described DEF Content, RInv, IInv
<1>11. QED
  BY <1>3, <1>9, <1>10

\* A step of the loop writes the bytes that follow, and no others.
LEMMA BlockWritten ==
  ASSUME RInv, WholeBlocks, Copy
  PROVE  \A b \in DOMAIN image :
           /\ b < pos => image'[b] = image[b]
           /\ b >= pos /\ b < pos' => image'[b] # Unset
           /\ b >= pos' => image'[b] = Unset
<1> DEFINE sep == SeparationAfter(Sub, index, step)
<1>1. /\ Block \in Nat /\ Source \in Nat /\ Target = pos /\ pos \in Nat /\ sep \in Nat
  BY NextBlock DEF Copy
<1>2. image' = Arrived(Source, Block, sep) /\ pos' = pos + Block + sep /\ given \in Nat
  BY <1>1 DEF Copy, RInv, Buffers
<1>3. /\ DOMAIN image = 0 .. MaxBytes - 1
      /\ \A b \in DOMAIN image : image[b] # Unset <=> b < pos
  BY DEF Copy, RInv, Written
<1> HIDE DEF sep
<1>4. SUFFICES ASSUME NEW b \in DOMAIN image
               PROVE  /\ b < pos => image'[b] = image[b]
                      /\ b >= pos /\ b < pos' => image'[b] # Unset
                      /\ b >= pos' => image'[b] = Unset
  OBVIOUS
<1>5. b \in Int
  BY <1>3, MaxBytesAssumption
<1>6. image'[b] = IF b \in pos .. pos + Block - 1 THEN given + Source + (b - pos)
                  ELSE IF b \in pos + Block .. pos + Block + sep - 1 THEN Gap
                  ELSE image[b]
  BY <1>1, <1>2, <1>4 DEF Arrived
<1> DEFINE B == Block
           S == Source
<1> HIDE DEF B, S
<1>7. B \in Nat /\ S \in Nat
  BY <1>1 DEF B, S
<1>8. image'[b] = IF b \in pos .. pos + B - 1 THEN given + S + (b - pos)
                  ELSE IF b \in pos + B .. pos + B + sep - 1 THEN Gap
                  ELSE image[b]
  BY <1>6 DEF B, S
<1>9. pos' = pos + B + sep
  BY <1>2 DEF B
<1>10. CASE b < pos
  BY <1>1, <1>5, <1>7, <1>8, <1>9, <1>10
<1>11. CASE b \in pos .. pos + B - 1
  <2>1. image'[b] >= 0
    BY <1>1, <1>2, <1>5, <1>7, <1>8, <1>11
  <2>2. QED
    BY <1>1, <1>5, <1>7, <1>9, <1>11, <2>1 DEF Unset
<1>12. CASE b \in pos + B .. pos + B + sep - 1
  <2>1. image'[b] = -1
    BY <1>1, <1>5, <1>7, <1>8, <1>12 DEF Gap
  <2>2. QED
    BY <1>1, <1>5, <1>7, <1>9, <1>12, <2>1 DEF Unset
<1>13. CASE b >= pos + B + sep
  <2>1. image'[b] = image[b] /\ image[b] = Unset
    BY <1>1, <1>3, <1>5, <1>7, <1>8, <1>13
  <2>2. QED
    BY <1>1, <1>5, <1>7, <1>9, <1>13, <2>1
<1>14. QED
  BY <1>1, <1>5, <1>7, <1>10, <1>11, <1>12, <1>13

LEMMA BlockMoved ==
  ASSUME RInv, WholeBlocks, Copy
  PROVE  RInv'
<1> DEFINE sep == SeparationAfter(Sub, index, step)
           total == moved + Block + sep
<1>1. /\ DescriptorSpace(Sub) /\ NumDim(Sub) \in Nat /\ Block \in Nat /\ Source \in Nat
      /\ pos \in Nat /\ sep \in Nat /\ Target = pos
      /\ Block + sep <= MinBuffSize(step)
      /\ Following \in [Dims(Sub) -> Nat] /\ Counts(Sub, Following)
      /\ \A j \in step + 1 .. NumDim(Sub) : Following[j] = 0
      /\ pos + Block + sep
           = IF Following = Origin(Sub) THEN TotalSize(Sub) ELSE Offset(Sub, Following)
  BY NextBlock DEF Copy
<1>2. /\ pc = "copy" /\ index' = Following /\ pos' = pos + Block + sep /\ moved' = total
      /\ UNCHANGED <<job, inc, step, room, start, given>>
      /\ image' = Arrived(Source, Block, sep)
  BY <1>1 DEF Copy
<1>3. Sub' = Sub /\ Super' = Super
  BY <1>2 DEF Sub, Super
<1>4. \/ Following = Origin(Sub) /\ pc' = "done" /\ complete' = TRUE
      \/ /\ Following # Origin(Sub) /\ complete' = complete
         /\ \/ pc' = "copy" /\ (job.route = "fileToBuffer" => MoreRoom(total))
            \/ pc' = "idle" /\ job.route = "fileToBuffer"
  BY DEF Copy, AtOrigin
<1> HIDE DEF sep, total
<1>5. IInv'
  <2>1. IndexTyped'
    BY <1>1, <1>2, <1>3 DEF IndexTyped
  <2>2. IndexBounded'
    BY <1>1, <1>2, <1>3 DEF IndexBounded, Counts
  <2>3. QED
    BY <1>2, <2>1, <2>2 DEF RInv, IInv
<1>6. Stepping'
  BY <1>1, <1>2, <1>3, <1>4 DEF RInv, Stepping
<1>7. Partial' <=> Partial
  BY <1>2, <1>3 DEF Partial
<1>8. MinBuffSize(step)' = MinBuffSize(step) /\ MinBuffSize(step) \in Nat
  <2>1. IncrementBlock(Sub, step) \in Nat /\ SubSep(Sub) \in Nat
    <3>1. step \in 0 .. NumDim(Sub)
      BY DEF RInv, Stepping
    <3>2. IncrementBlock(Sub, step) \in Nat
      BY <1>1, <3>1, BlockIs, CoefficientsAre
    <3>3. SubSep(Sub) \in Nat
      BY <1>1, Described, SubSepAdds, SumRemove
    <3>4. QED
      BY <3>2, <3>3
  <2>2. QED
    BY <1>2, <1>3, <2>1 DEF MinBuffSize
<1>9. Buffers'
  <2>1. /\ room \in Nat /\ moved \in Nat /\ start \in Nat /\ given \in Nat
        /\ job.route # "bufferToFile" => given = 0
        /\ job.route = "fileToBuffer" => moved + MinBuffSize(step) <= room
        /\ ~ Partial => start = 0
        /\ Partial => /\ step = NumDim(Sub) /\ Sub.elem <= room
                      /\ ~ Necessary(Sub, Super)
                      /\ start <= MappedOffset(Sub, Super, index)
    BY <1>2 DEF RInv, Buffers
  <2>2. pos' \in Nat /\ moved' \in Nat
    BY <1>1, <1>2, <2>1 DEF total
  <2>3. job.route = "fileToBuffer" => moved' <= room
    BY <1>1, <1>2, <1>8, <2>1 DEF total
  <2>4. pc' = "copy" /\ job.route = "fileToBuffer" => moved' + MinBuffSize(step) <= room
    <3>1. pc' = "copy" /\ job.route = "fileToBuffer" => room - total >= MinBuffSize(step)
      BY <1>4 DEF MoreRoom
    <3>2. total \in Nat
      BY <1>2, <2>2
    <3> DEFINE m == MinBuffSize(step)
    <3>3. m \in Nat
      BY <1>8
    <3> HIDE DEF m
    <3>4. room - total >= m => total + m <= room
      BY <2>1, <3>2, <3>3
    <3>5. QED
      BY <1>2, <3>1, <3>4 DEF m
  <2>5. pc' = "copy" /\ Partial => start <= MappedOffset(Sub, Super, Following)
    <3>1. SUFFICES ASSUME pc' = "copy", Partial
                   PROVE  start <= MappedOffset(Sub, Super, Following)
      OBVIOUS
    <3>2. MappedOffset(Sub, Super, index) <= MappedOffset(Sub, Super, Following)
      <4>1. /\ SeparationAfter(Super, index, step) \in Nat
            /\ Sub.elem \in Nat /\ MappedOffset(Sub, Super, index) \in Nat
            /\ MappedOffset(Sub, Super, Following)
                 = MappedOffset(Sub, Super, index) + Sub.elem
                     + SeparationAfter(Super, index, step)
        BY <1>2, <1>4, <3>1, SourceGrows
      <4>2. QED
        BY <4>1
    <3>3. /\ MappedOffset(Sub, Super, index) \in Nat
          /\ MappedOffset(Sub, Super, Following) \in Nat
      <4>1. Counts(Sub, index)
        BY <1>2, NextBlock
      <4>2. QED
        BY <1>1, <4>1, JobFacts, MappedOffsetTyped DEF RInv, IInv
    <3>4. QED
      BY <2>1, <3>1, <3>2, <3>3
  <2>6. QED
    BY <1>2, <1>3, <1>7, <1>8, <2>1, <2>2, <2>3, <2>4, <2>5 DEF Buffers, BufferKept
<1>10. Written'
  <2>1. /\ DOMAIN image = 0 .. MaxBytes - 1
        /\ \A b \in DOMAIN image : image[b] # Unset <=> b < pos
        /\ complete = FALSE
    BY <1>2 DEF RInv, Written
  <2>2. DOMAIN image' = DOMAIN image
    BY <1>2 DEF Arrived
  <2>3. \A b \in DOMAIN image : image'[b] # Unset <=> b < pos'
    <3>1. SUFFICES ASSUME NEW b \in DOMAIN image
                   PROVE  image'[b] # Unset <=> b < pos'
      OBVIOUS
    <3>2. b \in Int /\ pos \in Nat /\ pos' \in Nat /\ pos <= pos'
      BY <1>1, <1>2, <2>1, MaxBytesAssumption
    <3>3. /\ b < pos => image'[b] = image[b]
          /\ b >= pos /\ b < pos' => image'[b] # Unset
          /\ b >= pos' => image'[b] = Unset
      BY BlockWritten
    <3>4. b < pos => image[b] # Unset
      BY <2>1
    <3>5. QED
      BY <3>2, <3>3, <3>4
  <2>4. Resumes'
    BY <1>1, <1>2, <1>3, <1>4 DEF Resumes
  <2>5. pc' = "done" => /\ index' = Origin(Sub)
                        /\ \A b \in 0 .. TotalSize(Sub) - 1 : image'[b] # Unset
    <3>1. SUFFICES ASSUME pc' = "done", NEW b \in 0 .. TotalSize(Sub) - 1
                   PROVE  index' = Origin(Sub) /\ image'[b] # Unset
      BY <1>2, <1>4
    <3>2. pos' = TotalSize(Sub) /\ index' = Origin(Sub)
      BY <1>1, <1>2, <1>4, <3>1
    <3>3. TotalSize(Sub) \in Nat /\ TotalSize(Sub) <= MaxBytes
      BY JobFacts DEF RInv, IInv
    <3>4. b \in DOMAIN image /\ b < pos'
      BY <2>1, <3>2, <3>3, MaxBytesAssumption
    <3>5. QED
      BY <2>3, <3>2, <3>4
  <2>6. complete' <=> pc' = "done"
    BY <1>4, <2>1
  <2>7. RefusedOnlyTooSmall'
    BY <1>4 DEF RefusedOnlyTooSmall
  <2>8. QED
    BY <1>3, <2>1, <2>2, <2>3, <2>4, <2>5, <2>6, <2>7 DEF Written
<1>11. QED
  BY <1>5, <1>6, <1>9, <1>10 DEF RInv

\* A buffer that is used up held an element at least: the indices have moved on
\* from the origin, and the array is not taken for complete.
LEMMA BufferLeft ==
  ASSUME RInv, BufferUsed
  PROVE  RInv'
<1>1. /\ pc = "copy" /\ Partial /\ Source + Sub.elem > room /\ pc' = "idle"
      /\ given' = given + room /\ complete' = AtOrigin(index)
      /\ UNCHANGED <<job, index, inc, step, room, moved, start, pos, image>>
  BY DEF BufferUsed
<1>2. Sub' = Sub /\ Super' = Super
  BY <1>1 DEF Sub, Super
<1>3. /\ job.route = "bufferToFile" /\ DescriptorSpace(Sub) /\ DescriptorSpace(Super)
      /\ Mappable(Sub, Super) /\ ~ Necessary(Sub, Super)
      /\ Sub.elem \in Nat \ {0} /\ room \in Nat /\ start \in Nat /\ given \in Nat
      /\ Sub.elem <= room /\ start <= MappedOffset(Sub, Super, index)
  BY <1>1, JobFacts, Described DEF RInv, IInv, Buffers, Partial
<1>4. index # Origin(Sub)
  <2>1. SUFFICES ASSUME index = Origin(Sub) PROVE FALSE
    OBVIOUS
  <2>2. Counts(Sub, index)
    BY <1>3, <2>1, OffsetOfOrigin
  <2>3. Dims(Super) = Dims(Sub) /\ MappedOffset(Sub, Super, index) = Offset(Super, index)
    BY <1>3, <2>2, SameArrays
  <2>4. index = Origin(Super)
    BY <2>1, <2>3 DEF Origin
  <2>5. MappedOffset(Sub, Super, index) = 0
    BY <1>3, <2>3, <2>4, OffsetOfOrigin
  <2>6. Source = 0
    BY <1>3, <2>5 DEF Source
  <2>7. QED
    BY <1>1, <1>3, <2>6
<1>5. IInv' /\ Stepping'
  <2>1. given' # 0
    BY <1>1, <1>3
  <2>2. QED
    BY <1>1, <1>2, <1>3, <2>1 DEF RInv, IInv, IndexTyped, IndexBounded, Stepping
<1>6. Buffers'
  BY <1>1, <1>3 DEF RInv, Buffers, BufferKept
<1>7. Written'
  <2>1. complete' = FALSE
    BY <1>1, <1>4 DEF AtOrigin
  <2>2. QED
    BY <1>1, <1>2, <2>1 DEF RInv, Written, Resumes, RefusedOnlyTooSmall
<1>8. QED
  BY <1>5, <1>6, <1>7 DEF RInv

LEMMA FileEnded ==
  ASSUME RInv, EndOfFile
  PROVE  RInv'
<1>1. /\ pc = "copy" /\ pc' = "failed" /\ ret' = 0
      /\ UNCHANGED <<job, index, inc, step, room, moved, start, given, pos, image, complete>>
  BY DEF EndOfFile
<1>2. Sub' = Sub /\ Super' = Super
  BY <1>1 DEF Sub, Super
<1>3. IInv' /\ Stepping'
  BY <1>1, <1>2 DEF RInv, IInv, IndexTyped, IndexBounded, Stepping
<1>4. Buffers' /\ Written'
  BY <1>1, <1>2 DEF RInv, Buffers, BufferKept, Written, Resumes, RefusedOnlyTooSmall
<1>5. QED
  BY <1>3, <1>4 DEF RInv

LEMMA NothingMoved ==
  ASSUME RInv, UNCHANGED vars
  PROVE  RInv'
<1>1. Sub' = Sub /\ Super' = Super
  BY DEF vars, Sub, Super
<1>2. IInv' /\ Stepping'
  BY <1>1 DEF vars, call, RInv, IInv, IndexTyped, IndexBounded, Stepping
<1>3. Buffers'
  BY <1>1 DEF vars, call, RInv, Buffers, BufferKept, MinBuffSize, Partial
<1>4. Written'
  BY <1>1 DEF vars, call, RInv, Written, Resumes, RefusedOnlyTooSmall
<1>5. QED
  BY <1>2, <1>3, <1>4 DEF RInv

LEMMA StepReports ==
  ASSUME WholeBlocks
  PROVE  RInv /\ [Next]_vars => RInv'
<1> SUFFICES ASSUME RInv, [Next]_vars PROVE RInv'
  OBVIOUS
<1>1. ASSUME NEW size \in Sizes, FillBuffer(size) \/ WritePart(size) \/ RefuseTransfer(size)
      PROVE  RInv'
  BY <1>1, BufferFilled, PartWritten, TransferRefused
<1>2. CASE WriteWhole \/ Transfer
  BY <1>2, WholeMoved
<1>3. CASE EndOfFile
  BY <1>3, FileEnded
<1>4. CASE BufferUsed
  BY <1>4, BufferLeft
<1>5. CASE Copy
  BY <1>5, BlockMoved
<1>6. CASE Stop \/ UNCHANGED vars
  BY <1>6, NothingMoved DEF Stop
<1>7. QED
  BY <1>1, <1>2, <1>3, <1>4, <1>5, <1>6 DEF Next

\* Arrays of any rank, moved through any sequence of buffers: *array_complete is
\* told exactly when every byte of the sub-array is there, no call moves more
\* than its buffer takes, between two calls the output goes on where the indices
\* stand, and a buffer is only refused where not even one element fits, a whole
\* array has to fit and does not, or the mapping cannot be written in parts.
THEOREM ReportsTrue ==
  ASSUME WholeBlocks
  PROVE  Spec => []Honest
<1>1. Init => RInv
  BY InitReports
<1>2. RInv /\ [Next]_vars => RInv'
  BY StepReports
<1>3. RInv => Honest
  BY DEF RInv, Written, Buffers, Honest, CompleteMeansAll
<1>4. QED
  BY <1>1, <1>2, <1>3, PTL DEF Spec

\* No byte of the output is written twice, in whatever pieces it comes.
THEOREM MovedOnce ==
  ASSUME WholeBlocks
  PROVE  Spec => WrittenOnce
<1>1. Init => RInv
  BY InitReports
<1>2. RInv /\ [Next]_vars => RInv'
  BY StepReports
<1> DEFINE Kept == \A b \in DOMAIN image : image[b] # Unset => image'[b] = image[b]
<1>3. RInv /\ [Next]_vars => [Kept]_vars
  <2> SUFFICES ASSUME RInv, Next PROVE Kept
    OBVIOUS
  <2>1. CASE Copy
    <3>1. \A b \in DOMAIN image : image[b] # Unset => b < pos
      BY <2>1 DEF Copy, RInv, Written
    <3>2. QED
      BY <2>1, <3>1, BlockWritten
  <2>2. CASE UNCHANGED image
    BY <2>2
  <2>3. Next => Copy \/ UNCHANGED image
    BY DEF Next, FillBuffer, WritePart, WriteWhole, Transfer, RefuseTransfer, EndOfFile, BufferUsed,
           Stop, Enter, Refuse, vars
  <2>4. QED
    BY <2>1, <2>2, <2>3
<1>4. Spec => [][Kept]_vars
  BY <1>1, <1>2, <1>3, PTL DEF Spec
<1>5. QED
  BY <1>4 DEF WrittenOnce

-----------------------------------------------------------------------------
(* What has arrived                                                           *)

\* The bytes of a block, each the one that its element has in the super-array
LEMMA WantedInBlock ==
  ASSUME NEW sub, NEW super, DescriptorSpace(sub), DescriptorSpace(super),
         Mappable(sub, super), Aligned(sub, super),
         NEW d \in DimIncrement(sub, super) .. NumDim(sub),
         NEW x \in Elements(sub), \A j \in d + 1 .. NumDim(sub) : x[j] = 0,
         NEW b \in Nat, Offset(sub, x) <= b, b < Offset(sub, x) + Content(sub, d)
  PROVE  /\ b < TotalSize(sub)
         /\ WantedOf(sub, super)[b] = MappedOffset(sub, super, x) + (b - Offset(sub, x))
<1> DEFINE in == {l \in Elements(sub) : Place(sub, l) <= b /\ b < Place(sub, l) + sub.elem}
<1>1. NumDim(sub) \in Nat /\ DimIncrement(sub, super) \in 0 .. NumDim(sub)
  BY Described, DimIncrementTyped
<1>2. d \in 0 .. NumDim(sub)
  BY <1>1
<1>3. \A j \in d + 1 .. NumDim(sub) : x[j] = 0 /\ sub.sep[j] = 0
  BY SameCoefficients
<1>4. b < TotalSize(sub) /\ \E k \in Elements(sub) : Holds(sub, k, b) /\ \A i \in 1 .. d : k[i] = x[i]
  BY <1>2, <1>3, BlockHolds
<1>5. PICK k \in Elements(sub) : Holds(sub, k, b) /\ \A i \in 1 .. d : k[i] = x[i]
  BY <1>4
<1>6. \A l \in Elements(sub) : l \in in <=> Holds(sub, l, b)
  BY PlaceIs DEF Holds
<1>7. in = {k}
  <2>1. \A l \in Elements(sub) : Holds(sub, l, b) => l = k
    BY <1>5, OneElement
  <2>2. \A l \in in : l \in Elements(sub)
    OBVIOUS
  <2> HIDE DEF in
  <2>3. QED
    BY <1>5, <1>6, <2>1, <2>2
<1>8. TotalSize(sub) \in Nat /\ b \in 0 .. TotalSize(sub) - 1
  <2>1. 0 \in 0 .. NumDim(sub)
    BY <1>1
  <2>2. TotalSize(sub) \in Nat
    BY <2>1, CoefficientsAre
  <2>3. QED
    BY <1>4, <2>2
<1>9. WantedOf(sub, super)[b]
        = IF in = {} THEN Gap
          ELSE LET l == CHOOSE m \in in : TRUE
               IN  Place(super, Counterpart(sub, super, l)) + b - Place(sub, l)
  BY <1>8 DEF WantedOf
<1>10. (CHOOSE m \in in : TRUE) = k /\ in # {}
  <2> HIDE DEF in
  <2>1. QED
    BY <1>7
<1> HIDE DEF in
<1>11. WantedOf(sub, super)[b] = Place(super, Counterpart(sub, super, k)) + b - Place(sub, k)
  BY <1>9, <1>10
<1>12. /\ Place(sub, k) = Offset(sub, k)
       /\ Place(super, Counterpart(sub, super, k)) = MappedOffset(sub, super, k)
  BY CounterpartIs, PlaceIs
<1>13. Counts(sub, x) /\ Counts(sub, k)
  BY ElementsAre
<1>14. PICK n \in Nat : /\ Offset(sub, k) = Offset(sub, x) + n
                        /\ MappedOffset(sub, super, k) = MappedOffset(sub, super, x) + n
  BY <1>5, <1>13, BlockShift
<1>15. Offset(sub, x) \in Nat /\ MappedOffset(sub, super, x) \in Nat
  BY <1>13, InsideArray, MappedOffsetTyped
<1>16. QED
  BY <1>4, <1>11, <1>12, <1>14, <1>15

\* The bytes after it are separation in the sub-array.
LEMMA WantedInGap ==
  ASSUME NEW sub, NEW super, DescriptorSpace(sub), DescriptorSpace(super),
         Mappable(sub, super), NEW d \in DimIncrement(sub, super) .. NumDim(sub),
         NEW x \in Elements(sub), \A j \in d + 1 .. NumDim(sub) : x[j] = 0,
         NEW b \in Nat, Offset(sub, x) + Content(sub, d) <= b,
         b < Offset(sub, x) + Content(sub, d) + SeparationAfter(sub, x, d)
  PROVE  b < TotalSize(sub) /\ WantedOf(sub, super)[b] = Gap
<1>1. NumDim(sub) \in Nat /\ DimIncrement(sub, super) \in 0 .. NumDim(sub)
  BY Described, DimIncrementTyped
<1>2. d \in 0 .. NumDim(sub)
  BY <1>1
<1>3. \A j \in d + 1 .. NumDim(sub) : x[j] = 0 /\ sub.sep[j] = 0
  BY SameCoefficients
<1>4. b < TotalSize(sub) /\ \A k \in Elements(sub) : ~ Holds(sub, k, b)
  BY <1>2, <1>3, SeparationHoldsNothing
<1>5. {l \in Elements(sub) : Place(sub, l) <= b /\ b < Place(sub, l) + sub.elem} = {}
  BY <1>4, PlaceIs DEF Holds
<1>6. b \in 0 .. TotalSize(sub) - 1
  <2>1. 0 \in 0 .. NumDim(sub)
    BY <1>1
  <2>2. TotalSize(sub) \in Nat
    BY <2>1, CoefficientsAre
  <2>3. QED
    BY <1>4, <2>2
<1>7. QED
  BY <1>4, <1>5, <1>6 DEF WantedOf

\* Where the bytes of the buffer lie in the super-array: the buffer that is
\* written next begins with the element that the indices are mapped to.
Sources ==
    /\ inc \in DimIncrement(Sub, Super) .. NumDim(Sub)
    /\ pc = "copy" => step \in DimIncrement(Sub, Super) .. NumDim(Sub)
    /\ pc = "idle" /\ job.route = "bufferToFile" /\ ~ Necessary(Sub, Super) =>
         given = MappedOffset(Sub, Super, index)
    /\ pc = "copy" => given = start
    /\ pc = "copy" /\ Partial => /\ room % Sub.elem = 0 /\ Source % Sub.elem = 0
                                 /\ Source <= room

LEMMA InitSources == Init => Sources
<1> SUFFICES ASSUME Init PROVE Sources
  OBVIOUS
<1>1. /\ job \in Jobs /\ index = Origin(Sub) /\ inc = DimIncrement(Sub, Super)
      /\ pc = "idle" /\ given = 0
  BY DEF Init, Sub, Super
<1>2. DescriptorSpace(Sub) /\ DescriptorSpace(Super) /\ Mappable(Sub, Super)
  BY <1>1, JobFacts
<1>3. inc \in DimIncrement(Sub, Super) .. NumDim(Sub)
  <2>1. DimIncrement(Sub, Super) \in 0 .. NumDim(Sub) /\ NumDim(Sub) \in Nat
    BY <1>2, DimIncrementTyped, Described
  <2>2. QED
    BY <1>1, <2>1
<1>4. ~ Necessary(Sub, Super) => MappedOffset(Sub, Super, index) = 0
  BY <1>1, <1>2, MappedOrigin
<1>5. QED
  BY <1>1, <1>3, <1>4 DEF Sources

\* A buffer that is entered begins where the last one ended.
LEMMA SourceEntered ==
  ASSUME RInv, Sources, pc = "idle", NEW size \in Nat, NEW d \in 0 .. NumDim(Sub),
         NEW from, NEW to, Enter(size, d, from, to), given = from,
         inc' \in DimIncrement(Sub, Super) .. NumDim(Sub),
         d \in DimIncrement(Sub, Super) .. NumDim(Sub),
         job.route = "bufferToFile" /\ size < TotalSize(Super) =>
             from = MappedOffset(Sub, Super, index) /\ size % Sub.elem = 0
  PROVE  Sources'
<1>1. /\ pc' = "copy" /\ room' = size /\ step' = d /\ start' = from
      /\ UNCHANGED <<job, index, given>>
  BY DEF Enter
<1>2. Sub' = Sub /\ Super' = Super
  BY <1>1 DEF Sub, Super
<1>3. Partial' <=> job.route = "bufferToFile" /\ size < TotalSize(Super)
  BY <1>1, <1>2 DEF Partial
<1>4. Partial' => /\ Source' = 0 /\ room' % Sub.elem = 0 /\ Source' % Sub.elem = 0
                  /\ Source' <= room'
  <2>1. SUFFICES ASSUME Partial'
                 PROVE  /\ Source' = 0 /\ room' % Sub.elem = 0 /\ Source' % Sub.elem = 0
                        /\ Source' <= room'
    OBVIOUS
  <2>2. Sub.elem \in Nat \ {0} /\ Counts(Sub, index)
    BY JobFacts, Described DEF RInv, IInv, IndexTyped, IndexBounded, Counts
  <2>3. MappedOffset(Sub, Super, index) \in Nat
    BY <2>2, JobFacts, MappedOffsetTyped DEF RInv, IInv
  <2>4. from = MappedOffset(Sub, Super, index) /\ size % Sub.elem = 0
    BY <1>3, <2>1
  <2>5. Source' = MappedOffset(Sub, Super, index) - from
    BY <1>1, <1>2 DEF Source
  <2>6. Source' = 0
    BY <2>3, <2>4, <2>5
  <2> DEFINE e == Sub.elem
  <2>7. e \in Nat \ {0}
    BY <2>2
  <2> HIDE DEF e
  <2>8. 0 % e = 0
    BY <2>7, SMTT(30)
  <2>9. QED
    BY <1>1, <2>4, <2>6, <2>8 DEF e
<1>5. QED
  BY <1>1, <1>2, <1>4 DEF Sources

\* The next element of a buffer without separation is the next one in it.
LEMMA SourceMoved ==
  ASSUME RInv, Sources, WholeBlocks, Orderly, Copy
  PROVE  Sources'
<1>1. /\ pc = "copy" /\ index' = Following /\ UNCHANGED <<job, inc, step, room, start, given>>
      /\ Partial => Source + Sub.elem <= room
  BY DEF Copy
<1>2. Sub' = Sub /\ Super' = Super
  BY <1>1 DEF Sub, Super
<1>3. Partial' <=> Partial
  BY <1>1, <1>2 DEF Partial
<1>4. \/ Following = Origin(Sub) /\ pc' = "done"
      \/ Following # Origin(Sub) /\ pc' = "copy"
      \/ pc' = "idle" /\ job.route = "fileToBuffer"
  BY DEF Copy, AtOrigin
<1>5. pc' = "copy" /\ Partial => /\ Source' = Source + Sub.elem
                                 /\ Source' % Sub.elem = 0 /\ Source' <= room
  <2>1. SUFFICES ASSUME pc' = "copy", Partial
                 PROVE  /\ Source' = Source + Sub.elem
                        /\ Source' % Sub.elem = 0 /\ Source' <= room
    OBVIOUS
  <2>2. Following # Origin(Sub)
    BY <1>4, <2>1
  <2> DEFINE sep == SeparationAfter(Super, index, step)
             m == MappedOffset(Sub, Super, index)
  <2>3. Sub.elem \in Nat /\ m \in Nat /\ MappedOffset(Sub, Super, Following) = m + Sub.elem + sep
    BY <1>1, <2>1, <2>2, SourceGrows
  <2>4. /\ job \in Jobs /\ job.route = "bufferToFile" /\ ~ Necessary(Sub, Super)
        /\ step = NumDim(Sub) /\ start \in Nat
    BY <1>1, <2>1 DEF RInv, IInv, Buffers, Partial
  <2>5. \A i \in Dims(Super) : Super.sep[i] = 0
    BY <2>4 DEF Orderly, Sub, Super
  <2>6. sep = 0
    <3>1. DescriptorSpace(Super) /\ NumDim(Super) = NumDim(Sub) /\ DescriptorSpace(Sub)
      BY <2>4, JobFacts DEF Mappable
    <3>2. Dims(Super) = 1 .. step /\ step \in Nat
      BY <2>4, <3>1, Described
    <3> DEFINE C == Carrying(Super, index, step)
    <3>3. C \subseteq 1 .. step /\ IsFiniteSet(1 .. step)
      BY <3>2, FS_Interval DEF Carrying
    <3>4. IsFiniteSet(C) /\ \A i \in C : Super.sep[i] = 0
      BY <2>5, <3>2, <3>3, FS_Subset
    <3> HIDE DEF C
    <3>5. Sum(Super.sep, C) = 0
      BY <3>4, SumZero
    <3>6. QED
      BY <3>5, SeparationAdds DEF C
  <2>7. Source = m - start /\ Source' = MappedOffset(Sub, Super, Following) - start
    BY <1>1, <1>2 DEF Source
  <2>8. Source % Sub.elem = 0 /\ Source \in Nat /\ Sub.elem \in Nat \ {0}
    <3>1. Sub.elem \in Nat \ {0}
      BY <2>4, JobFacts, Described
    <3>2. Source \in Nat
      BY <1>1, NextBlock
    <3>3. QED
      BY <1>1, <2>1, <3>1, <3>2 DEF Sources
  <2> DEFINE S == Source
             e == Sub.elem
             T == Source'
  <2>9. S \in Nat /\ e \in Nat \ {0} /\ S % e = 0
    BY <2>8
  <2>10. T = S + e
    <3> HIDE DEF m, sep
    <3>1. QED
      BY <2>3, <2>4, <2>6, <2>7
  <2>11. S + e <= room
    BY <1>1, <2>1
  <2> HIDE DEF S, e, T
  <2>12. (S + e) % e = 0
    BY <2>9, NextMultiple
  <2>13. QED
    BY <2>10, <2>11, <2>12 DEF S, e, T
<1>6. QED
  BY <1>1, <1>2, <1>3, <1>4, <1>5 DEF Sources

\* A buffer that is left has been used to its last byte.
LEMMA SourceLeft ==
  ASSUME RInv, Sources, BufferUsed
  PROVE  Sources'
<1>1. /\ pc = "copy" /\ Partial /\ Source + Sub.elem > room /\ pc' = "idle"
      /\ given' = given + room
      /\ UNCHANGED <<job, index, inc, step, room, start>>
  BY DEF BufferUsed
<1>2. Sub' = Sub /\ Super' = Super
  BY <1>1 DEF Sub, Super
<1>3. /\ Sub.elem \in Nat \ {0} /\ room \in Nat /\ start \in Nat /\ given = start
      /\ start <= MappedOffset(Sub, Super, index)
      /\ room % Sub.elem = 0 /\ Source % Sub.elem = 0 /\ Source <= room
  BY <1>1, JobFacts, Described DEF RInv, IInv, Buffers, Sources
<1>4. MappedOffset(Sub, Super, index) \in Nat
  <2>1. Counts(Sub, index)
    BY DEF RInv, IInv, IndexTyped, IndexBounded, Counts
  <2>2. QED
    BY <2>1, JobFacts, MappedOffsetTyped DEF RInv, IInv
<1>5. Source = MappedOffset(Sub, Super, index) - start
  BY DEF Source
<1> DEFINE S == Source
           e == Sub.elem
           m == MappedOffset(Sub, Super, index)
<1>6. /\ e \in Nat \ {0} /\ m \in Nat /\ S = m - start /\ S \in Nat /\ S % e = 0
      /\ room % e = 0 /\ S <= room /\ S + e > room
  BY <1>1, <1>3, <1>4, <1>5
<1> HIDE DEF S, e, m
<1>7. S = room
  BY <1>3, <1>6, NothingBetween
<1>8. given' = m
  BY <1>1, <1>3, <1>6, <1>7
<1>9. QED
  BY <1>1, <1>2, <1>8 DEF Sources, m

LEMMA StepSources ==
  ASSUME WholeBlocks, Orderly
  PROVE  RInv /\ Sources /\ [Next]_vars => Sources'
<1> SUFFICES ASSUME RInv, Sources, [Next]_vars PROVE Sources'
  OBVIOUS
<1>1. /\ NumDim(Sub) \in Nat /\ DimIncrement(Sub, Super) \in 0 .. NumDim(Sub)
      /\ inc \in DimIncrement(Sub, Super) .. NumDim(Sub)
      /\ Sub.elem = Super.elem /\ TotalSize(Super) \in Nat
  <2>1. DescriptorSpace(Sub) /\ DescriptorSpace(Super) /\ Sub.elem = Super.elem
    BY JobFacts DEF RInv, IInv
  <2>2. NumDim(Super) \in Nat
    BY <2>1, Described
  <2>3. 0 \in 0 .. NumDim(Super)
    BY <2>2
  <2>4. TotalSize(Super) \in Nat
    BY <2>1, <2>3, CoefficientsAre
  <2>5. QED
    BY <2>1, <2>4, Described, DimIncrementTyped DEF Sources
<1>2. ASSUME NEW size \in Sizes, FillBuffer(size)
      PROVE  Sources'
  <2>1. /\ pc = "idle" /\ job.route = "fileToBuffer" /\ given = 0 /\ size \in Nat
    BY <1>2, SizesAssumption DEF FillBuffer, RInv, Buffers
  <2>2. CASE Fitting(size) # {}
    <3> DEFINE d == Min(Fitting(size))
    <3>1. d \in inc .. NumDim(Sub)
      BY <2>1, <2>2, FittingHas DEF Fitting
    <3>2. inc' = d /\ Enter(size, d, 0, pos)
      BY <1>2, <2>2 DEF FillBuffer, Enter
    <3> HIDE DEF d
    <3>3. d \in 0 .. NumDim(Sub) /\ d \in DimIncrement(Sub, Super) .. NumDim(Sub)
      BY <1>1, <3>1
    <3>4. QED
      BY <2>1, <3>2, <3>3, SourceEntered
  <2>3. CASE Fitting(size) = {}
    <3>1. Refuse
      BY <1>2, <2>3 DEF FillBuffer
    <3>2. Sub' = Sub /\ Super' = Super
      BY <3>1 DEF Refuse, Sub, Super
    <3>3. QED
      BY <3>1, <3>2 DEF Refuse, Sources
  <2>4. QED
    BY <2>2, <2>3
<1>3. ASSUME NEW size \in Sizes, WritePart(size)
      PROVE  Sources'
  <2>1. /\ pc = "idle" /\ job.route = "bufferToFile" /\ size \in Nat
        /\ size % Super.elem = 0
    BY <1>3, SizesAssumption DEF WritePart
  <2>2. CASE ~ Necessary(Sub, Super)
    <3>1. PICK to : Enter(size, NumDim(Sub), MappedOffset(Sub, Super, index), to)
      BY <1>3, <2>2 DEF WritePart
    <3>2. given = MappedOffset(Sub, Super, index)
      BY <2>1, <2>2 DEF Sources
    <3>3. inc' = inc
      BY <1>3, <2>2 DEF WritePart
    <3>4. NumDim(Sub) \in 0 .. NumDim(Sub) /\ NumDim(Sub) \in DimIncrement(Sub, Super) .. NumDim(Sub)
      BY <1>1
    <3>5. QED
      BY <1>1, <2>1, <3>1, <3>2, <3>3, <3>4, SourceEntered
  <2>3. CASE Necessary(Sub, Super)
    <3>1. Refuse
      BY <1>3, <2>3 DEF WritePart
    <3>2. Sub' = Sub /\ Super' = Super
      BY <3>1 DEF Refuse, Sub, Super
    <3>3. QED
      BY <3>1, <3>2 DEF Refuse, Sources
  <2>4. QED
    BY <2>2, <2>3
<1>4. ASSUME NEW size \in Sizes, RefuseTransfer(size)
      PROVE  Sources'
  <2>1. Refuse
    BY <1>4 DEF RefuseTransfer
  <2>2. Sub' = Sub /\ Super' = Super
    BY <2>1 DEF Refuse, Sub, Super
  <2>3. QED
    BY <2>1, <2>2 DEF Refuse, Sources
<1>5. CASE WriteWhole \/ Transfer
  <2>1. /\ pc = "idle" /\ given = 0 /\ inc' = inc
        /\ \E to : Enter(TotalSize(Super), inc, 0, to)
    BY <1>5 DEF WriteWhole, Transfer, RInv, Buffers
  <2>2. PICK to : Enter(TotalSize(Super), inc, 0, to)
    BY <2>1
  <2>3. ~ (TotalSize(Super) < TotalSize(Super)) /\ inc \in 0 .. NumDim(Sub)
    BY <1>1
  <2>4. QED
    BY <1>1, <2>1, <2>2, <2>3, SourceEntered
<1>6. CASE EndOfFile
  <2>1. pc' = "failed" /\ UNCHANGED <<job, inc>>
    BY <1>6 DEF EndOfFile
  <2>2. Sub' = Sub /\ Super' = Super
    BY <2>1 DEF Sub, Super
  <2>3. QED
    BY <2>1, <2>2 DEF Sources
<1>7. CASE BufferUsed
  BY <1>7, SourceLeft
<1>8. CASE Copy
  BY <1>8, SourceMoved
<1>9. CASE Stop \/ UNCHANGED vars
  <2>1. UNCHANGED vars /\ Sub' = Sub /\ Super' = Super
    BY <1>9 DEF Stop, vars, Sub, Super
  <2>2. QED
    BY <2>1 DEF vars, call, Sources, Partial, Source
<1>10. QED
  BY <1>2, <1>3, <1>4, <1>5, <1>6, <1>7, <1>8, <1>9 DEF Next

\* The bytes that a step of the loop writes are the ones that belong there.
LEMMA BlockRight ==
  ASSUME RInv, Sources, Faithful, WholeBlocks, Orderly, Copy
  PROVE  Faithful'
<1> DEFINE sep == SeparationAfter(Sub, index, step)
           W == WantedOf(Sub, Super)
           m == MappedOffset(Sub, Super, index)
<1>1. /\ pc = "copy" /\ image' = Arrived(Source, Block, sep) /\ job' = job
  BY DEF Copy
<1>2. Sub' = Sub /\ Super' = Super
  BY <1>1 DEF Sub, Super
<1>3. /\ job \in Jobs /\ DescriptorSpace(Sub) /\ DescriptorSpace(Super) /\ Mappable(Sub, Super)
      /\ Aligned(Sub, Super)
  BY JobFacts DEF RInv, IInv, Orderly, Sub, Super
<1>4. Wanted[job] = W
  BY <1>3 DEF Wanted, Sub, Super
<1>5. /\ Target = pos /\ pos \in Nat /\ pos = Offset(Sub, index)
      /\ Block = Content(Sub, step) /\ Block \in Nat /\ sep \in Nat /\ Counts(Sub, index)
  BY <1>1, NextBlock DEF RInv, Written, Resumes
<1>6. index \in Elements(Sub)
  BY <1>3, <1>5, ElementsAre DEF RInv, IInv, IndexTyped
<1>7. /\ step \in DimIncrement(Sub, Super) .. NumDim(Sub)
      /\ \A j \in step + 1 .. NumDim(Sub) : index[j] = 0
      /\ given = start /\ start \in Nat
  BY <1>1 DEF RInv, Stepping, Buffers, Sources
<1>8. given + Source = m
  <2>1. m \in Nat
    BY <1>3, <1>5, MappedOffsetTyped
  <2> HIDE DEF m
  <2>2. Source = m - start
    BY DEF m, Source
  <2>3. QED
    BY <1>7, <2>1, <2>2
<1>9. DOMAIN image = 0 .. MaxBytes - 1
  BY DEF RInv, Written
<1>10. SUFFICES ASSUME NEW b \in DOMAIN image, image'[b] # Unset
                PROVE  b < TotalSize(Sub) /\ image'[b] = W[b]
  <2>1. DOMAIN image' = DOMAIN image
    BY <1>1 DEF Arrived
  <2>2. Wanted' = Wanted
    BY DEF Wanted
  <2> HIDE DEF W
  <2>3. QED
    BY <1>1, <1>2, <1>4, <1>10, <2>1, <2>2 DEF Faithful
<1>11. b \in Nat
  BY <1>9, <1>10, MaxBytesAssumption
<1>12. image'[b] = IF b \in pos .. pos + Block - 1 THEN given + Source + (b - pos)
                   ELSE IF b \in pos + Block .. pos + Block + sep - 1 THEN Gap
                   ELSE image[b]
  BY <1>1, <1>5, <1>10 DEF Arrived
<1>13. CASE b \in pos .. pos + Block - 1
  <2>1. pos <= b /\ b < pos + Block
    BY <1>5, <1>11, <1>13
  <2>2. b < TotalSize(Sub) /\ W[b] = m + (b - Offset(Sub, index))
    <3>1. Offset(Sub, index) <= b /\ b < Offset(Sub, index) + Content(Sub, step)
      BY <1>5, <2>1
    <3>2. QED
      BY <1>3, <1>6, <1>7, <1>11, <3>1, WantedInBlock
  <2> HIDE DEF m, W
  <2>3. image'[b] = m + (b - pos)
    BY <1>8, <1>12, <1>13
  <2>4. QED
    BY <1>5, <2>2, <2>3
<1>14. CASE b \in pos + Block .. pos + Block + sep - 1
  <2>1. pos + Block <= b /\ b < pos + Block + sep
    BY <1>5, <1>11, <1>14
  <2>2. b < TotalSize(Sub) /\ W[b] = Gap
    <3>1. /\ Offset(Sub, index) + Content(Sub, step) <= b
          /\ b < Offset(Sub, index) + Content(Sub, step) + SeparationAfter(Sub, index, step)
      BY <1>5, <2>1
    <3>2. QED
      BY <1>3, <1>6, <1>7, <1>11, <3>1, WantedInGap
  <2>3. ~ (b \in pos .. pos + Block - 1)
    BY <1>5, <1>11, <2>1
  <2>4. QED
    BY <1>12, <1>14, <2>2, <2>3
<1>15. CASE ~ (b \in pos .. pos + Block - 1) /\ ~ (b \in pos + Block .. pos + Block + sep - 1)
  <2>1. image'[b] = image[b]
    BY <1>12, <1>15
  <2>2. QED
    BY <1>4, <1>10, <2>1 DEF Faithful
<1>16. QED
  BY <1>13, <1>14, <1>15

\* Arrays of any rank, with dimensions permuted, flipped, cut, thinned or
\* replicated, with separation or without, moved through any sequence of buffers:
\* every byte of the output is the byte of the element that stands at the same
\* user index of the super-array, and separation is where the sub-array has it.
THEOREM MovedFaithfully ==
  ASSUME WholeBlocks, Orderly
  PROVE  Spec => []Faithful
<1>1. Init => RInv /\ Sources /\ Faithful
  <2>1. Init => Faithful
    BY DEF Init, Faithful
  <2>2. QED
    BY <2>1, InitReports, InitSources
<1>2. RInv /\ [Next]_vars => RInv'
  BY StepReports
<1>3. RInv /\ Sources /\ [Next]_vars => Sources'
  BY StepSources
<1>4. RInv /\ Sources /\ Faithful /\ [Next]_vars => Faithful'
  <2> SUFFICES ASSUME RInv, Sources, Faithful, [Next]_vars PROVE Faithful'
    OBVIOUS
  <2>1. CASE Copy
    BY <2>1, BlockRight
  <2>2. CASE UNCHANGED <<job, image>>
    <3>1. Sub' = Sub /\ Wanted' = Wanted
      BY <2>2 DEF Sub, Wanted
    <3>2. QED
      BY <2>2, <3>1 DEF Faithful
  <2>3. Next => Copy \/ UNCHANGED <<job, image>>
    BY DEF Next, FillBuffer, WritePart, WriteWhole, Transfer, RefuseTransfer, EndOfFile, BufferUsed,
           Stop, Enter, Refuse, vars
  <2>4. QED
    BY <2>1, <2>2, <2>3 DEF vars
<1>5. QED
  BY <1>1, <1>2, <1>3, <1>4, PTL DEF Spec
=============================================================================
