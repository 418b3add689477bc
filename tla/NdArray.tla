------------------------------- MODULE NdArray -------------------------------
(* Array descriptors, indices and mappings: the arithmetic of                 *)
(* src/FFND/ndarray.c.                                                        *)
(*                                                                            *)
(* A descriptor says of each dimension its name, its first and last user      *)
(* index, the granularity (the distance of two user indices) and the bytes    *)
(* of separation after each of its elements; elem is element_size.  Real      *)
(* indices count from 0 in the descriptor's own order.  A mapping tells where *)
(* the elements of one array (the sub-array) lie in another one (the super-   *)
(* array): its dimensions are matched by name and may be permuted, flipped,   *)
(* cut, thinned or replicated.                                                *)
(*                                                                            *)
(* Dimensions count from 1, so that a dimincrement of -1 is 0 here.  Arrays   *)
(* are contiguous: grouping, which spreads an array over several files, is    *)
(* left out.  A granularity is positive: ndarr_do_calculations negates a      *)
(* negative one, and the formats that are checked here have none of 0.        *)
EXTENDS Integers, Sequences, FiniteSetsExt

DescriptorSpace(a) ==
    /\ Len(a.start) \in Nat \ {0}
    /\ \A f \in {"name", "end", "gran", "sep"} : Len(a[f]) = Len(a.start)
    /\ \A i \in 1 .. Len(a.start) :
         /\ a.start[i] \in Int /\ a.end[i] \in Int
         /\ a.gran[i] \in Nat \ {0} /\ a.sep[i] \in Nat
    /\ a.elem \in Nat \ {0}

-----------------------------------------------------------------------------
(* ndarr_do_calculations *)

NumDim(a) == Len(a.start)
Dims(a) == 1 .. NumDim(a)
Distance(m, n) == IF m < n THEN n - m ELSE m - n

IndexDir(a, i) == IF a.end[i] < a.start[i] THEN -1 ELSE 1
DimSize(a, i) == Distance(a.start[i], a.end[i]) \div a.gran[i] + 1

\* Bytes from one element of a dimension to the next
Coefficients(a) ==
    LET c[i \in Dims(a)] ==
          a.sep[i] + IF i = NumDim(a) THEN a.elem
                     ELSE c[i + 1] * DimSize(a, i + 1)
    IN  c

TotalSize(a) == Coefficients(a)[1] * DimSize(a, 1)

-----------------------------------------------------------------------------
(* Indices *)

\* ndarr_create_indices
Origin(a) == [i \in Dims(a) |-> 0]

\* ndarr_get_offset
Offset(a, k) ==
    LET c == Coefficients(a)
    IN  MapThenSumSet(LAMBDA i : c[i] * k[i], Dims(a))

\* ndarr_increment_indices (inc the last dimension) and ndarr_increment_mapping
\* (inc the mapping's dimincrement): count up, carrying into lower dimensions.
\* The call returns NULL when the result is the origin.
Incremented(a, k, inc) ==
    LET Carried(i) == \A j \in i + 1 .. inc : k[j] + 1 = DimSize(a, j)
    IN  [i \in Dims(a) |->
           IF i <= inc /\ Carried(i) THEN (k[i] + 1) % DimSize(a, i) ELSE k[i]]

\* NDARR_GET_SEPARATION and NDARR_GET_MAP_SEPARATION: the separation of inc and
\* of each lower dimension that ends here
SeparationAfter_InnerOnly(a, k, inc) == IF inc = 0 THEN 0 ELSE a.sep[inc]
SeparationAfter(a, k, inc) ==
    MapThenSumSet(LAMBDA i : a.sep[i],
                  {i \in 1 .. inc : \A j \in i + 1 .. inc : k[j] + 1 = DimSize(a, j)})

-----------------------------------------------------------------------------
(* ndarr_create_mapping *)

\* dim_mapping: the dimension of the super-array with the same name
DimMapping(sub, super, i) ==
    CHOOSE j \in Dims(super) :
        /\ sub.name[i] = super.name[j]
        /\ \A h \in 1 .. j - 1 : sub.name[i] # super.name[h]

Between(n, a, b) == (a <= n /\ n <= b) \/ (b <= n /\ n <= a)

\* The mappings that are not refused
Mappable(sub, super) ==
    /\ NumDim(sub) = NumDim(super)
    /\ sub.elem = super.elem
    /\ \A i \in Dims(sub) :
         /\ \E j \in Dims(super) : sub.name[i] = super.name[j]
         /\ LET j == DimMapping(sub, super, i) IN
            /\ Between(sub.start[i], super.start[j], super.end[j])
            /\ Between(sub.end[i], super.start[j], super.end[j])
            /\ \/ sub.gran[i] % super.gran[j] = 0
               \/ super.gran[j] % sub.gran[i] = 0

IndexMapping(sub, super, i) ==
    LET j == DimMapping(sub, super, i)
    IN  Distance(sub.start[i], super.start[j]) \div super.gran[j]
GranMapping(sub, super, i) ==
    LET j == DimMapping(sub, super, i)
    IN  IF sub.gran[i] > super.gran[j] THEN sub.gran[i] \div super.gran[j] ELSE 1
GranDivMapping(sub, super, i) ==
    LET j == DimMapping(sub, super, i)
    IN  IF sub.gran[i] < super.gran[j] THEN super.gran[j] \div sub.gran[i] ELSE 1
MapDir(sub, super, i) ==
    IndexDir(sub, i) * IndexDir(super, DimMapping(sub, super, i))

SubSep(sub) == MapThenSumSet(LAMBDA i : sub.sep[i], Dims(sub))

\* Dimension i has the same steps in both arrays
SameSteps(sub, super, i) ==
    /\ DimMapping(sub, super, i) = i
    /\ MapDir(sub, super, i) = 1
    /\ sub.gran[i] = super.gran[i]

\* dimincrement: up to here dimensions have to be stepped through; what lies
\* above is in one piece in both arrays.  0: the whole sub-array is.
DimIncrement_AnySize(sub, super) ==
    Max({0} \cup {i \in Dims(sub) : \/ ~SameSteps(sub, super, i)
                                    \/ sub.sep[i] + super.sep[i] > 0})
DimIncrement(sub, super) ==
    Max({0} \cup {i \in Dims(sub) :
          \/ ~SameSteps(sub, super, i)
          \/ sub.sep[i] + super.sep[i] > 0
          \/ i < NumDim(sub) /\ DimSize(sub, i + 1) # DimSize(super, i + 1)})

\* increment_block, the bytes that are moved at a time
IncrementBlock(sub, inc) ==
    IF inc = 0 THEN TotalSize(sub)
    ELSE IF inc = NumDim(sub) THEN sub.elem
    ELSE Coefficients(sub)[inc] - sub.sep[inc]

Necessary(sub, super) ==
    \E i \in Dims(sub) : \/ ~SameSteps(sub, super, i)
                         \/ sub.start[i] # super.start[i]
                         \/ sub.end[i] # super.end[i]

\* ndarr_get_mapped_offset: where in the super-array element k of the sub-array
\* is.  C divides towards 0.
MappedIndex_DirForgotten(sub, super, k, i) ==
    IndexMapping(sub, super, i)
      + (k[i] * GranMapping(sub, super, i)) \div GranDivMapping(sub, super, i)
MappedIndex(sub, super, k, i) ==
    IndexMapping(sub, super, i)
      + MapDir(sub, super, i)
        * ((k[i] * GranMapping(sub, super, i)) \div GranDivMapping(sub, super, i))
MappedOffset(sub, super, k) ==
    LET c == Coefficients(super)
    IN  MapThenSumSet(LAMBDA i : c[DimMapping(sub, super, i)]
                                   * MappedIndex(sub, super, k, i), Dims(sub))

-----------------------------------------------------------------------------
(* What the elements of an array are, by definition                           *)

\* The order of the elements in a file: the last dimension varies first
Precedes(a, k, l) ==
    \E i \in Dims(a) : k[i] < l[i] /\ \A h \in 1 .. i - 1 : k[h] = l[h]

\* The dimensions that element k is the last one of
Ended(a, k) ==
    {i \in Dims(a) : \A j \in Dims(a) : j > i => k[j] + 1 = DimSize(a, j)}

\* Each element takes its own bytes and the separation of what it ends
Elements(a) ==
    LET longest == Max({DimSize(a, i) : i \in Dims(a)})
    IN  {k \in [Dims(a) -> 0 .. longest - 1] :
           \A i \in Dims(a) : k[i] < DimSize(a, i)}
Place(a, k) ==
    MapThenSumSet(LAMBDA l : a.elem + MapThenSumSet(LAMBDA i : a.sep[i], Ended(a, l)),
                  {l \in Elements(a) : Precedes(a, l, k)})

\* The element of the super-array that stands at the user index of k: the last
\* one at or before it, counted from the super-array's start
Counterpart(sub, super, k) ==
    CHOOSE l \in Elements(super) :
        \A i \in Dims(sub), j \in Dims(super) :
            sub.name[i] = super.name[j] =>
                LET user == sub.start[i] + IndexDir(sub, i) * sub.gran[i] * k[i]
                    away == Distance(super.start[j], user) - super.gran[j] * l[j]
                IN  0 <= away /\ away < super.gran[j]

\* The arrays for which the mapping finds it: no dimension has the name of
\* another one, and one whose steps are finer than those of the super-array is
\* not flipped and starts on one of them.
Aligned(sub, super) ==
    \A i \in Dims(sub) :
        /\ \A h \in Dims(sub) : sub.name[h] = sub.name[i] => h = i
        /\ LET j == DimMapping(sub, super, i) IN
           \/ sub.gran[i] % super.gran[j] = 0
           \/ /\ MapDir(sub, super, i) = 1
              /\ Distance(sub.start[i], super.start[j]) % super.gran[j] = 0
=============================================================================
