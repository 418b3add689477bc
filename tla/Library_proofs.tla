--------------------------- MODULE Library_proofs ---------------------------
(* Proofs about the parts that everything else is built from.                 *)
(*                                                                            *)
(* FreeForm's list of messages: whatever is pushed, popped and pulled, it can *)
(* be counted, popped back to the state of an earlier moment and described;   *)
(* and err_disp shows what there was.                                         *)
(*                                                                            *)
(* The doubly linked lists: whatever is called, they are sequences of items.  *)
(* The pointers of a list are described by the sequence of its nodes (Ringed, *)
(* Whole); an operation on pointers is an operation on these sequences        *)
(* (Created, Inserted, Removed, Dropped), and that one is an operation of     *)
(* ItemLists on the items they carry (the lemmas ...Refines).                 *)
EXTENDS Errors, Lists, Sums_proofs

-----------------------------------------------------------------------------
(* err_bin_search *)

TableSize == 69
Table == 1 .. TableSize

LEMMA TableIs ==
  /\ Len(ErrorNumbers) = TableSize /\ DOMAIN ErrorNumbers = Table
  /\ \A k \in Table : ErrorNumbers[k] \in Nat
<1>1. ErrorNumbers \in Seq(Nat) /\ Len(ErrorNumbers) = 69
  BY DEF ErrorNumbers
<1>2. DOMAIN ErrorNumbers = 1 .. 69
  BY DEF ErrorNumbers
<1>3. \A k \in 1 .. 69 : ErrorNumbers[k] \in Nat
  BY DEF ErrorNumbers
<1>4. QED
  BY <1>1, <1>2, <1>3 DEF TableSize, Table

\* local_errlist is sorted, as the binary search needs it.
LEMMA TableSorted == \A i, j \in Table : i < j => ErrorNumbers[i] < ErrorNumbers[j]
<1>1. \A i \in 1 .. 68 : ErrorNumbers[i] < ErrorNumbers[i + 1]
  BY DEF ErrorNumbers
<1>2. \A i \in Table : ErrorNumbers[i] \in Nat
  BY TableIs
<1> DEFINE T == {n \in Nat : \A i \in Table :
                    i + n + 1 \in Table => ErrorNumbers[i] < ErrorNumbers[i + n + 1]}
<1>3. 0 \in T
  BY <1>1 DEF Table, TableSize
<1>4. ASSUME NEW n \in Nat, n \in T PROVE n + 1 \in T
  <2> SUFFICES ASSUME NEW i \in Table, i + (n + 1) + 1 \in Table
               PROVE  ErrorNumbers[i] < ErrorNumbers[i + (n + 1) + 1]
    OBVIOUS
  <2> DEFINE j == i + n + 1
  <2>1. j \in Table /\ j \in 1 .. 68 /\ j + 1 = i + (n + 1) + 1 /\ j + 1 \in Table
    BY DEF Table, TableSize
  <2>2. ErrorNumbers[i] < ErrorNumbers[j]
    BY <1>4, <2>1
  <2>3. ErrorNumbers[j] < ErrorNumbers[j + 1]
    BY <1>1, <2>1
  <2> HIDE DEF j
  <2>4. ErrorNumbers[i] \in Nat /\ ErrorNumbers[j] \in Nat /\ ErrorNumbers[j + 1] \in Nat
    BY <1>2, <2>1
  <2>5. QED
    BY <2>1, <2>2, <2>3, <2>4
<1>5. Nat \subseteq T
  <2> HIDE DEF T
  <2>1. QED
    BY <1>3, <1>4, FromZero
<1>6. ASSUME NEW i \in Table, NEW j \in Table, i < j PROVE ErrorNumbers[i] < ErrorNumbers[j]
  <2>1. j - i - 1 \in Nat /\ i + (j - i - 1) + 1 = j
    BY <1>6 DEF Table
  <2>2. QED
    BY <1>5, <2>1
<1>7. QED
  BY <1>6

\* Where the code is between two places, or 0
LiesBetween(code, low, high) ==
    \E k \in Table : low <= k /\ k <= high /\ ErrorNumbers[k] = code
Place(code, low, high) ==
    IF LiesBetween(code, low, high) THEN CHOOSE k \in Table : ErrorNumbers[k] = code ELSE 0

LEMMA PlaceIs ==
  ASSUME NEW code \in Int, NEW k \in Table, ErrorNumbers[k] = code
  PROVE  (CHOOSE l \in Table : ErrorNumbers[l] = code) = k
<1> DEFINE c == CHOOSE l \in Table : ErrorNumbers[l] = code
<1>1. c \in Table /\ ErrorNumbers[c] = code
  OBVIOUS
<1>2. \A l \in Table : ErrorNumbers[l] \in Nat
  BY TableIs
<1> HIDE DEF c
<1>3. c = k
  BY <1>1, <1>2, TableSorted DEF Table
<1>4. QED
  BY <1>3 DEF c

\* One step of the search, from a middle between low and high
Lows == 1 .. TableSize + 1
Highs == 0 .. TableSize
Halved(f, code, r) ==
    LET mid == (r[1] + r[2]) \div 2 IN
    IF r[1] > r[2] THEN 0
    ELSE IF code < ErrorNumbers[mid] THEN f[<<r[1], mid - 1>>]
    ELSE IF code > ErrorNumbers[mid] THEN f[<<mid + 1, r[2]>>]
    ELSE mid
Searches(f, code) == f = [r \in Ranges |-> Halved(f, code, r)]

LEMMA RangesAre == Ranges = Lows \X Highs
BY TableIs DEF Ranges, Lows, Highs

LEMMA Middle ==
  ASSUME NEW low \in Lows, NEW high \in Highs, low <= high
  PROVE  LET mid == (low + high) \div 2 IN
         /\ mid \in Table /\ low <= mid /\ mid <= high
         /\ mid - 1 \in Highs /\ mid + 1 \in Lows
BY DEF Lows, Highs, Table, TableSize

\* The place between two places lies on one side of the middle.
LEMMA PlaceHalved ==
  ASSUME NEW code \in Int, NEW low \in Lows, NEW high \in Highs, NEW mid \in Table,
         low <= mid, mid <= high
  PROVE  /\ code < ErrorNumbers[mid] => Place(code, low, high) = Place(code, low, mid - 1)
         /\ code > ErrorNumbers[mid] => Place(code, low, high) = Place(code, mid + 1, high)
         /\ code = ErrorNumbers[mid] => Place(code, low, high) = mid
<1>1. /\ \A k \in Table : ErrorNumbers[k] \in Nat
      /\ \A k, l \in Table : k < l => ErrorNumbers[k] < ErrorNumbers[l]
  BY TableIs, TableSorted
<1>0. low \in Int /\ high \in Int /\ mid \in Int /\ \A k \in Table : k \in Int
  BY DEF Table, Lows, Highs, TableSize
<1>2. ASSUME code < ErrorNumbers[mid]
      PROVE  Place(code, low, high) = Place(code, low, mid - 1)
  <2>1. ASSUME NEW k \in Table, ErrorNumbers[k] = code PROVE k < mid
    <3>1. ~ (mid < k) /\ mid # k
      BY <1>1, <1>2, <2>1
    <3>2. QED
      BY <1>0, <3>1
  <2>2. \A k \in Table : low <= k /\ k <= high /\ ErrorNumbers[k] = code
          <=> low <= k /\ k <= mid - 1 /\ ErrorNumbers[k] = code
    BY <1>0, <2>1
  <2>3. LiesBetween(code, low, high) <=> LiesBetween(code, low, mid - 1)
    BY <2>2 DEF LiesBetween
  <2>4. QED
    BY <2>3 DEF Place
<1>3. ASSUME code > ErrorNumbers[mid]
      PROVE  Place(code, low, high) = Place(code, mid + 1, high)
  <2>1. ASSUME NEW k \in Table, ErrorNumbers[k] = code PROVE mid < k
    <3>1. ~ (k < mid) /\ mid # k
      BY <1>1, <1>3, <2>1
    <3>2. QED
      BY <1>0, <3>1
  <2>2. \A k \in Table : low <= k /\ k <= high /\ ErrorNumbers[k] = code
          <=> mid + 1 <= k /\ k <= high /\ ErrorNumbers[k] = code
    BY <1>0, <2>1
  <2>3. LiesBetween(code, low, high) <=> LiesBetween(code, mid + 1, high)
    BY <2>2 DEF LiesBetween
  <2>4. QED
    BY <2>3 DEF Place
<1>4. ASSUME code = ErrorNumbers[mid] PROVE Place(code, low, high) = mid
  BY <1>4, PlaceIs DEF Place, LiesBetween
<1>5. QED
  BY <1>2, <1>3, <1>4

LEMMA NoPlace ==
  ASSUME NEW code \in Int, NEW low \in Lows, NEW high \in Highs, low > high
  PROVE  Place(code, low, high) = 0
BY DEF Place, LiesBetween, Table, Lows, Highs, TableSize

\* The search exists, as the place is one, and is the place.
LEMMA SearchExists ==
  ASSUME NEW code \in Int
  PROVE  \E f : Searches(f, code)
<1> DEFINE f == [r \in Ranges |-> Place(code, r[1], r[2])]
<1>1. ASSUME NEW r \in Ranges
      PROVE  Place(code, r[1], r[2]) = Halved(f, code, r)
  <2> DEFINE low == r[1]
             high == r[2]
             mid == (low + high) \div 2
  <2>0. low \in Lows /\ high \in Highs
    BY RangesAre
  <2>1. CASE low > high
    BY <2>0, <2>1, NoPlace DEF Halved
  <2>2. CASE low <= high
    <3>1. /\ mid \in Table /\ low <= mid /\ mid <= high
          /\ mid - 1 \in Highs /\ mid + 1 \in Lows
      <4> HIDE DEF low, high
      <4>1. QED
        BY <2>0, <2>2, Middle
    <3>2. /\ f[<<low, mid - 1>>] = Place(code, low, mid - 1)
          /\ f[<<mid + 1, high>>] = Place(code, mid + 1, high)
      <4> HIDE DEF low, high, mid
      <4>1. QED
        BY <2>0, <3>1, RangesAre
    <3>3. ErrorNumbers[mid] \in Nat
      BY <3>1, TableIs
    <3>4. ~ (low > high)
      BY <2>0, <2>2 DEF Lows, Highs
    <3>5. Halved(f, code, r) =
            IF code < ErrorNumbers[mid] THEN f[<<low, mid - 1>>]
            ELSE IF code > ErrorNumbers[mid] THEN f[<<mid + 1, high>>] ELSE mid
      <4> HIDE DEF f
      <4>1. QED
        BY <3>4 DEF Halved
    <3> HIDE DEF f, mid, low, high
    <3>6. /\ code < ErrorNumbers[mid] => Place(code, low, high) = Place(code, low, mid - 1)
          /\ code > ErrorNumbers[mid] => Place(code, low, high) = Place(code, mid + 1, high)
          /\ code = ErrorNumbers[mid] => Place(code, low, high) = mid
      BY <2>0, <3>1, PlaceHalved
    <3>7. Place(code, low, high) = Halved(f, code, r)
      BY <3>2, <3>3, <3>5, <3>6
    <3>8. QED
      BY <3>7 DEF low, high
  <2>3. QED
    BY <2>0, <2>1, <2>2 DEF Lows, Highs
<1>2. f = [r \in Ranges |-> Halved(f, code, r)]
  BY <1>1
<1>3. Searches(f, code)
  BY <1>2 DEF Searches
<1>4. QED
  BY <1>3

LEMMA SearchIs ==
  ASSUME NEW code \in Int, NEW f, Searches(f, code),
         NEW low \in Lows, NEW high \in Highs
  PROVE  f[<<low, high>>] = Place(code, low, high)
<1> DEFINE T == {n \in Nat : \A l \in Lows, h \in Highs :
                    h - l < n => f[<<l, h>>] = Place(code, l, h)}
<1>1. \A l \in Lows, h \in Highs : f[<<l, h>>] = Halved(f, code, <<l, h>>)
  BY RangesAre DEF Searches
<1>2. ASSUME NEW l \in Lows, NEW h \in Highs, l > h
      PROVE  f[<<l, h>>] = Place(code, l, h)
  <2>1. Halved(f, code, <<l, h>>) = 0
    BY <1>2 DEF Halved
  <2>2. QED
    BY <1>1, <1>2, <2>1, NoPlace
<1>3. 0 \in T
  BY <1>2 DEF Lows, Highs
<1>4. ASSUME NEW n \in Nat, n \in T PROVE n + 1 \in T
  <2> SUFFICES ASSUME NEW l \in Lows, NEW h \in Highs, h - l < n + 1
               PROVE  f[<<l, h>>] = Place(code, l, h)
    OBVIOUS
  <2>1. CASE l > h
    BY <1>2, <2>1
  <2>2. CASE l <= h
    <3> DEFINE mid == (l + h) \div 2
    <3>1. /\ mid \in Table /\ l <= mid /\ mid <= h
          /\ mid - 1 \in Highs /\ mid + 1 \in Lows
      BY <2>2, Middle
    <3>2. (mid - 1) - l < n /\ h - (mid + 1) < n
      <4> HIDE DEF mid
      <4>1. QED
        BY <3>1 DEF Table, Lows, Highs
    <3>3. ~ (l > h)
      BY <2>2 DEF Lows, Highs
    <3>4. f[<<l, h>>] =
            IF code < ErrorNumbers[mid] THEN f[<<l, mid - 1>>]
            ELSE IF code > ErrorNumbers[mid] THEN f[<<mid + 1, h>>] ELSE mid
      BY <1>1, <3>3 DEF Halved
    <3>5. ErrorNumbers[mid] \in Nat
      BY <3>1, TableIs
    <3> HIDE DEF mid
    <3>6. f[<<l, mid - 1>>] = Place(code, l, mid - 1) /\ f[<<mid + 1, h>>] = Place(code, mid + 1, h)
      BY <1>4, <3>1, <3>2
    <3>7. /\ code < ErrorNumbers[mid] => Place(code, l, h) = Place(code, l, mid - 1)
          /\ code > ErrorNumbers[mid] => Place(code, l, h) = Place(code, mid + 1, h)
          /\ code = ErrorNumbers[mid] => Place(code, l, h) = mid
      BY <3>1, PlaceHalved
    <3>8. QED
      BY <3>4, <3>5, <3>6, <3>7
  <2>3. QED
    BY <2>1, <2>2 DEF Lows, Highs
<1>5. Nat \subseteq T
  <2> HIDE DEF T
  <2>1. QED
    BY <1>3, <1>4, FromZero
<1>6. 200 \in T /\ high - low < 200
  <2>1. high - low < 200
    BY DEF Lows, Highs, TableSize
  <2> HIDE DEF T
  <2>2. QED
    BY <1>5, <2>1
<1>7. QED
  BY <1>6

\* A code's own line of local_errlist, or 0
LEMMA BinSearchIs ==
  ASSUME NEW code \in Int
  PROVE  BinSearch(code) = Place(code, 1, TableSize)
<1> DEFINE f == CHOOSE g : Searches(g, code)
<1>1. Searches(f, code)
  BY SearchExists
<1>2. BinSearch(code) = f[<<1, TableSize>>]
  BY TableIs, Zenon DEF BinSearch, f, Searches, Halved
<1> HIDE DEF f
<1>3. f[<<1, TableSize>>] = Place(code, 1, TableSize)
  <2>1. 1 \in Lows /\ TableSize \in Highs
    BY DEF Lows, Highs, TableSize
  <2>2. QED
    BY <1>1, <2>1, SearchIs
<1>4. QED
  BY <1>2, <1>3
\* err_get_msg finds the line of local_errlist that the code has, if it has one.
LEMMA ProblemIs ==
  ASSUME NEW c \in Int
  PROVE  LET known == {k \in DOMAIN ErrorNumbers : ErrorNumbers[k] = c} IN
         Problem(c) = IF c < 400 THEN <<"system", c>>
                      ELSE IF known = {} THEN <<"own", 0>>
                      ELSE <<"own", CHOOSE k \in known : TRUE>>
<1> DEFINE known == {k \in DOMAIN ErrorNumbers : ErrorNumbers[k] = c}
           place == BinSearch(c)
<1>1. place = IF known = {} THEN 0 ELSE CHOOSE k \in known : TRUE
  <2>1. place = Place(c, 1, TableSize)
    BY BinSearchIs
  <2>2. known = {k \in Table : ErrorNumbers[k] = c}
    BY TableIs
  <2>3. LiesBetween(c, 1, TableSize) <=> known # {}
    BY <2>2 DEF LiesBetween, Table, TableSize
  <2>4. ASSUME NEW k \in known PROVE k = CHOOSE l \in Table : ErrorNumbers[l] = c
    BY <2>2, PlaceIs
  <2>5. known # {} => (CHOOSE k \in known : TRUE) \in known
    OBVIOUS
  <2> HIDE DEF known, place
  <2>6. QED
    BY <2>1, <2>3, <2>4, <2>5 DEF Place
<1>2. Problem(c) = IF c < 400 THEN <<"system", c>> ELSE <<"own", place>>
  BY DEF Problem
<1> HIDE DEF place
<1>3. QED
  BY <1>1, <1>2

LEMMA ProblemTyped ==
  ASSUME NEW c \in Nat
  PROVE  Problem(c) \in {"system", "own"} \X Nat
<1>1. BinSearch(c) \in Nat
  <2>1. Place(c, 1, TableSize) \in Nat
    BY DEF Place, LiesBetween, Table, TableSize
  <2>2. QED
    BY <2>1, BinSearchIs
<1>2. QED
  BY <1>1 DEF Problem

-----------------------------------------------------------------------------
(* The list *)

MessageSpace == [code : Nat, problem : {"system", "own"} \X Nat,
                 errorOrd : Nat, warningOrd : Nat]
OwnCode(code) == IF IsWarning(code) THEN code - WarningOnly ELSE code
Total(m) == m.errorOrd + m.warningOrd
Follows(a, b) ==
    IF IsWarning(b.code) THEN b.warningOrd = a.warningOrd + 1 /\ b.errorOrd = a.errorOrd
    ELSE b.errorOrd = a.errorOrd + 1 /\ b.warningOrd = a.warningOrd

\* Messages are numbered on from the first one that is left, wherever its
\* numbers begin, and told by the lines of their codes.
InOrder(l) ==
    /\ l \in Seq(MessageSpace)
    /\ l # <<>> => Total(l[1]) >= 1
    /\ \A i \in DOMAIN l : Total(l[i]) = Total(l[1]) + i - 1
    /\ \A i \in 1 .. Len(l) - 1 : Follows(l[i], l[i + 1])
    /\ \A i \in DOMAIN l : l[i].problem = Problem(OwnCode(l[i].code))

LEMMA OwnCodeTyped ==
  ASSUME NEW code \in Nat
  PROVE  OwnCode(code) \in Nat
BY DEF OwnCode, IsWarning, WarningOnly

LEMMA TotalTyped ==
  ASSUME NEW m \in MessageSpace
  PROVE  Total(m) \in Nat
BY DEF MessageSpace, Total

LEMMA InOrderCut ==
  ASSUME NEW l, InOrder(l), NEW k \in 0 .. Len(l)
  PROVE  /\ InOrder(SubSeq(l, 1, k)) /\ Len(SubSeq(l, 1, k)) = k
         /\ \A i \in 1 .. k : SubSeq(l, 1, k)[i] = l[i]
<1> DEFINE s == SubSeq(l, 1, k)
<1>1. l \in Seq(MessageSpace)
  BY DEF InOrder
<1>2. s \in Seq(MessageSpace) /\ Len(s) = k /\ DOMAIN s = 1 .. k
      /\ \A i \in 1 .. k : s[i] = l[i]
  BY <1>1
<1>3. DOMAIN l = 1 .. Len(l) /\ Len(l) \in Nat
  BY <1>1
<1> HIDE DEF s
<1>4. s # <<>> => k >= 1 /\ s[1] = l[1] /\ l # <<>>
  BY <1>1, <1>2, <1>3
<1>5. \A i \in DOMAIN s : i \in DOMAIN l /\ s[i] = l[i] /\ s[1] = l[1]
  BY <1>2, <1>3
<1>6. \A i \in 1 .. Len(s) - 1 : i \in 1 .. Len(l) - 1 /\ s[i] = l[i] /\ s[i + 1] = l[i + 1]
  BY <1>2, <1>3
<1>7. InOrder(s)
  BY <1>2, <1>4, <1>5, <1>6 DEF InOrder
<1>8. QED
  BY <1>2, <1>7 DEF s

LEMMA InOrderTail ==
  ASSUME NEW l, InOrder(l), l # <<>>
  PROVE  /\ InOrder(Tail(l)) /\ Len(Tail(l)) = Len(l) - 1
         /\ \A i \in 1 .. Len(l) - 1 : Tail(l)[i] = l[i + 1]
<1> DEFINE s == Tail(l)
<1>1. l \in Seq(MessageSpace) /\ Len(l) \in Nat /\ Len(l) >= 1 /\ DOMAIN l = 1 .. Len(l)
  BY DEF InOrder
<1>2. s \in Seq(MessageSpace) /\ Len(s) = Len(l) - 1 /\ DOMAIN s = 1 .. Len(l) - 1
      /\ \A i \in 1 .. Len(l) - 1 : s[i] = l[i + 1]
  BY <1>1
<1> HIDE DEF s
<1>3. \A i \in DOMAIN l : l[i] \in MessageSpace /\ Total(l[i]) \in Nat
  <2>1. \A i \in DOMAIN l : l[i] \in MessageSpace
    BY <1>1
  <2>2. QED
    BY <2>1, TotalTyped
<1>4. \A i \in DOMAIN l : Total(l[i]) = Total(l[1]) + i - 1
  BY DEF InOrder
<1>5. s # <<>> => Total(s[1]) >= 1
  <2> SUFFICES ASSUME s # <<>> PROVE Total(s[1]) >= 1
    OBVIOUS
  <2>1. 1 \in DOMAIN s /\ 2 \in DOMAIN l /\ s[1] = l[2] /\ 1 \in DOMAIN l
    BY <1>1, <1>2
  <2>2. Total(l[2]) = Total(l[1]) + 1
    BY <1>3, <1>4, <2>1
  <2>3. QED
    BY <1>3, <2>1, <2>2
<1>6. ASSUME NEW i \in DOMAIN s PROVE Total(s[i]) = Total(s[1]) + i - 1
  <2>1. /\ i \in 1 .. Len(l) - 1 /\ i + 1 \in DOMAIN l /\ 2 \in DOMAIN l /\ 1 \in DOMAIN l
        /\ s[i] = l[i + 1] /\ s[1] = l[2]
    BY <1>1, <1>2
  <2>2. Total(l[i + 1]) = Total(l[1]) + (i + 1) - 1 /\ Total(l[2]) = Total(l[1]) + 2 - 1
    BY <1>4, <2>1
  <2>3. QED
    BY <1>3, <2>1, <2>2
<1>7. ASSUME NEW i \in 1 .. Len(s) - 1 PROVE Follows(s[i], s[i + 1])
  <2>1. i + 1 \in 1 .. Len(l) - 1 /\ s[i] = l[i + 1] /\ s[i + 1] = l[(i + 1) + 1]
    BY <1>1, <1>2
  <2>2. QED
    BY <2>1 DEF InOrder
<1>8. \A i \in DOMAIN s : s[i].problem = Problem(OwnCode(s[i].code))
  <2>1. \A i \in DOMAIN s : i + 1 \in DOMAIN l /\ s[i] = l[i + 1]
    BY <1>1, <1>2
  <2>2. QED
    BY <2>1 DEF InOrder
<1>9. InOrder(s)
  BY <1>2, <1>5, <1>6, <1>7, <1>8 DEF InOrder
<1>10. QED
  BY <1>2, <1>9 DEF s

LEMMA NumberedIs ==
  ASSUME InOrder(list), NEW code \in Nat
  PROVE  /\ Numbered(code) \in MessageSpace
         /\ Numbered(code).problem = Problem(OwnCode(Numbered(code).code))
         /\ list = <<>> => Total(Numbered(code)) = 1
         /\ list # <<>> => /\ Follows(list[Len(list)], Numbered(code))
                           /\ Total(Numbered(code)) = Total(list[Len(list)]) + 1
<1> DEFINE m == Numbered(code)
           last == IF list = <<>> THEN [errorOrd |-> 0, warningOrd |-> 0] ELSE Last(list)
           e == last.errorOrd + IF IsWarning(code) THEN 0 ELSE 1
           w == last.warningOrd + IF IsWarning(code) THEN 1 ELSE 0
           p == Problem(OwnCode(code))
<1>1. list \in Seq(MessageSpace)
  BY DEF InOrder
<1>2. list # <<>> => Last(list) = list[Len(list)] /\ list[Len(list)] \in MessageSpace
  BY <1>1 DEF Last
<1>3. last.errorOrd \in Nat /\ last.warningOrd \in Nat
  BY <1>2 DEF MessageSpace
<1>4. m = [code |-> code, problem |-> p, errorOrd |-> e, warningOrd |-> w]
  BY DEF Numbered, OwnCode
<1>5. p \in {"system", "own"} \X Nat
  BY OwnCodeTyped, ProblemTyped
<1>6. list = <<>> => last.errorOrd = 0 /\ last.warningOrd = 0
  OBVIOUS
<1>7. list # <<>> => last = list[Len(list)]
  BY <1>2
<1>8. e \in Nat /\ w \in Nat /\ e + w = last.errorOrd + last.warningOrd + 1
      /\ (IsWarning(code) => w = last.warningOrd + 1 /\ e = last.errorOrd)
      /\ (~ IsWarning(code) => e = last.errorOrd + 1 /\ w = last.warningOrd)
  <2> HIDE DEF last
  <2>1. QED
    BY <1>3
<1> HIDE DEF m, last, p, e, w
<1>9. m \in MessageSpace
  BY <1>4, <1>5, <1>8 DEF MessageSpace
<1>10. m.problem = Problem(OwnCode(m.code))
  BY <1>4 DEF p
<1>11. Total(m) = last.errorOrd + last.warningOrd + 1
  BY <1>4, <1>8 DEF Total
<1>12. list # <<>> => Follows(list[Len(list)], m)
  BY <1>4, <1>7, <1>8 DEF Follows
<1>13. QED
  BY <1>6, <1>7, <1>9, <1>10, <1>11, <1>12 DEF m, Total

LEMMA InOrderPushed ==
  ASSUME InOrder(list), NEW code \in Nat
  PROVE  InOrder(Append(list, Numbered(code)))
<1> DEFINE m == Numbered(code)
           s == Append(list, m)
           n == Len(list)
<1>1. list \in Seq(MessageSpace) /\ n \in Nat /\ DOMAIN list = 1 .. n
  BY DEF InOrder
<1>2. /\ m \in MessageSpace
      /\ m.problem = Problem(OwnCode(m.code))
      /\ list = <<>> => Total(m) = 1
      /\ list # <<>> => Follows(list[n], m) /\ Total(m) = Total(list[n]) + 1
  BY NumberedIs
<1> HIDE DEF m
<1>3. s \in Seq(MessageSpace) /\ Len(s) = n + 1 /\ DOMAIN s = 1 .. n + 1 /\ s[n + 1] = m
      /\ \A i \in 1 .. n : s[i] = list[i]
  BY <1>1, <1>2
<1> HIDE DEF s, n
<1>4. \A i \in 1 .. n : Total(list[i]) \in Nat
  <2>1. \A i \in 1 .. n : list[i] \in MessageSpace
    BY <1>1
  <2>2. QED
    BY <2>1, TotalTyped
<1>5. list = <<>> <=> n = 0
  BY <1>1 DEF n
<1>6. \A i \in 1 .. n : Total(list[i]) = Total(list[1]) + i - 1
  BY <1>1 DEF InOrder
<1>7. Total(s[1]) >= 1
  <2>1. CASE n = 0
    BY <1>2, <1>3, <1>5, <2>1
  <2>2. CASE n # 0
    BY <1>1, <1>3, <1>5, <2>2 DEF InOrder
  <2>3. QED
    BY <2>1, <2>2
<1>8. ASSUME NEW i \in DOMAIN s PROVE Total(s[i]) = Total(s[1]) + i - 1
  <2>1. CASE n = 0
    BY <1>2, <1>3, <1>5, <2>1
  <2>2. CASE n # 0 /\ i <= n
    <3>1. i \in 1 .. n /\ 1 \in 1 .. n
      BY <1>1, <1>3, <2>2
    <3>2. QED
      BY <1>3, <1>6, <3>1
  <2>3. CASE n # 0 /\ i = n + 1
    <3>1. n \in 1 .. n /\ 1 \in 1 .. n
      BY <1>1, <2>3
    <3>2. Total(m) = Total(list[1]) + n - 1 + 1
      BY <1>2, <1>5, <1>6, <2>3, <3>1
    <3>3. QED
      BY <1>1, <1>3, <1>4, <2>3, <3>1, <3>2
  <2>4. QED
    BY <1>1, <1>3, <2>1, <2>2, <2>3
<1>9. ASSUME NEW i \in 1 .. Len(s) - 1 PROVE Follows(s[i], s[i + 1])
  <2>1. CASE i < n
    <3>1. i \in 1 .. n - 1 /\ i \in 1 .. n /\ i + 1 \in 1 .. n
      BY <1>1, <1>3, <2>1
    <3>2. Follows(list[i], list[i + 1])
      BY <3>1 DEF InOrder, n
    <3>3. QED
      BY <1>3, <3>1, <3>2
  <2>2. CASE i = n
    BY <1>1, <1>2, <1>3, <1>5, <2>2
  <2>3. QED
    BY <1>1, <1>3, <2>1, <2>2
<1>10. ASSUME NEW i \in DOMAIN s PROVE s[i].problem = Problem(OwnCode(s[i].code))
  <2>1. CASE i \in 1 .. n
    BY <1>1, <1>3, <2>1 DEF InOrder
  <2>2. CASE i = n + 1
    BY <1>2, <1>3, <2>2
  <2>3. QED
    BY <1>1, <1>3, <2>1, <2>2
<1>11. InOrder(s)
  BY <1>3, <1>7, <1>8, <1>9, <1>10 DEF InOrder
<1>12. QED
  BY <1>11 DEF s, m
\* The count of the first messages
LEMMA CountIs ==
  ASSUME NEW l, InOrder(l), NEW k \in 0 .. Len(l)
  PROVE  CountOf(SubSeq(l, 1, k)) = IF k = 0 THEN 0 ELSE Total(l[1]) + k - 1
<1> DEFINE s == SubSeq(l, 1, k)
<1>1. l \in Seq(MessageSpace) /\ Len(l) \in Nat /\ DOMAIN l = 1 .. Len(l)
  BY DEF InOrder
<1>2. InOrder(s) /\ Len(s) = k /\ \A i \in 1 .. k : s[i] = l[i]
  BY InOrderCut
<1> HIDE DEF s
<1>3. s \in Seq(MessageSpace)
  BY <1>2 DEF InOrder
<1>4. s = <<>> <=> k = 0
  BY <1>2, <1>3
<1>5. CASE k = 0
  BY <1>4, <1>5 DEF CountOf, s
<1>6. CASE k # 0
  <2>1. k \in 1 .. k /\ k \in DOMAIN l
    BY <1>1, <1>6
  <2>2. CountOf(s) = Total(l[k])
    BY <1>2, <1>4, <1>6, <2>1 DEF CountOf, Last, Total
  <2>3. QED
    BY <1>6, <2>1, <2>2 DEF InOrder, s
<1>7. QED
  BY <1>5, <1>6

\* Popping back: as many messages as there were when the count was n, or all of
\* them, or none of those that are left.
Back(l, n) ==
    CHOOSE k \in 0 .. Len(l) :
        /\ CountOf(SubSeq(l, 1, k)) <= n
        /\ \A j \in k + 1 .. Len(l) : CountOf(SubSeq(l, 1, j)) > n

LEMMA BackIs ==
  ASSUME NEW l, InOrder(l), NEW n \in Nat
  PROVE  /\ Back(l, n) \in 0 .. Len(l)
         /\ \A k \in 0 .. Len(l) : CountOf(SubSeq(l, 1, k)) = n => Back(l, n) = k
<1>1. l \in Seq(MessageSpace) /\ Len(l) \in Nat /\ DOMAIN l = 1 .. Len(l)
  BY DEF InOrder
<1> DEFINE N == Len(l)
           c(k) == CountOf(SubSeq(l, 1, k))
           t == Total(l[1])
           b == Back(l, n)
<1>2. \A k \in 0 .. N : c(k) = IF k = 0 THEN 0 ELSE t + k - 1
  BY CountIs
<1>3. N # 0 => t \in Nat /\ t >= 1
  <2>1. N # 0 => l # <<>> /\ l[1] \in MessageSpace
    BY <1>1
  <2>2. QED
    BY <2>1, TotalTyped DEF InOrder
<1> DEFINE Fits(k) == c(k) <= n /\ \A j \in k + 1 .. N : c(j) > n
<1>4. b = CHOOSE k \in 0 .. N : Fits(k)
  BY DEF Back
<1> HIDE DEF b, c, t, N
<1>5. \E k \in 0 .. N : Fits(k)
  <2>0. N \in Nat
    BY <1>1 DEF N
  <2>1. CASE N = 0 \/ n < t
    <3>1. Fits(0)
      <4>1. c(0) = 0
        BY <1>2, <2>0
      <4>2. \A j \in 0 + 1 .. N : c(j) > n
        BY <1>2, <1>3, <2>0, <2>1
      <4>3. QED
        BY <4>1, <4>2
    <3>2. QED
      BY <2>0, <3>1
  <2>2. CASE N # 0 /\ t <= n /\ n - t + 1 < N
    <3> DEFINE k == n - t + 1
    <3>1. k \in 0 .. N /\ k # 0 /\ c(k) = n
      BY <1>2, <1>3, <2>0, <2>2
    <3>2. \A j \in k + 1 .. N : c(j) > n
      BY <1>2, <1>3, <2>0, <2>2
    <3> HIDE DEF k
    <3>3. Fits(k)
      BY <3>1, <3>2
    <3>4. QED
      BY <3>1, <3>3
  <2>3. CASE N # 0 /\ t <= n /\ n - t + 1 >= N
    <3>1. N \in 0 .. N /\ c(N) <= n
      BY <1>2, <1>3, <2>0, <2>3
    <3>2. Fits(N)
      BY <2>0, <3>1
    <3>3. QED
      BY <3>1, <3>2
  <2>4. QED
    BY <1>3, <2>0, <2>1, <2>2, <2>3
<1>6. b \in 0 .. N /\ Fits(b)
  <2> HIDE DEF Fits
  <2>1. QED
    BY <1>4, <1>5
<1>7. ASSUME NEW k \in 0 .. N, c(k) = n PROVE b = k
  <2>0. N \in Nat
    BY <1>1 DEF N
  <2>1. ~ (b < k)
    BY <1>6, <1>7, <2>0
  <2>2. ~ (k < b)
    <3> SUFFICES ASSUME k < b PROVE FALSE
      OBVIOUS
    <3>1. b \in Nat /\ k \in Nat /\ N # 0 /\ b # 0 /\ c(b) = t + b - 1
      BY <1>2, <1>6, <2>0
    <3>2. c(k) < c(b)
      <4>1. c(k) = IF k = 0 THEN 0 ELSE t + k - 1
        BY <1>2
      <4>2. t \in Nat /\ t >= 1
        BY <1>3, <3>1
      <4>3. QED
        BY <3>1, <4>1, <4>2
    <3>3. QED
      BY <1>2, <1>3, <1>6, <1>7, <2>0, <3>1, <3>2
  <2>3. QED
    BY <1>6, <2>0, <2>1, <2>2
<1>8. QED
  BY <1>6, <1>7 DEF b, c, N

LEMMA PoppedBackIs ==
  ASSUME NEW n
  PROVE  PoppedBack(n) = SubSeq(list, 1, Back(list, n))
BY DEF PoppedBack, Back

\* A list in order can be counted, popped back and described.
LEMMA KeptInOrder ==
  ASSUME InOrder(list)
  PROVE  MessagesKept
<1>1. list \in Seq(MessageSpace) /\ Len(list) \in Nat /\ DOMAIN list = 1 .. Len(list)
  BY DEF InOrder
<1>2. \A i \in DOMAIN list : list[i] \in MessageSpace /\ Total(list[i]) \in Nat
  <2>1. \A i \in DOMAIN list : list[i] \in MessageSpace
    BY <1>1
  <2>2. QED
    BY <2>1, TotalTyped
<1>3. list = SubSeq(list, 1, Len(list)) /\ Len(list) \in 0 .. Len(list)
  BY <1>1
<1>4. list = <<>> <=> Len(list) = 0
  BY <1>1
<1>5. CountFits
  <2>1. Count = IF Len(list) = 0 THEN 0 ELSE Total(list[1]) + Len(list) - 1
    BY <1>3, CountIs DEF Count
  <2>2. Len(list) # 0 => Total(list[1]) \in Nat /\ Total(list[1]) >= 1
    BY <1>1, <1>2, <1>4 DEF InOrder
  <2>3. Count >= Len(list) /\ (Count = 0 <=> Len(list) = 0)
    BY <1>1, <2>1, <2>2
  <2>4. QED
    BY <1>4, <2>3 DEF CountFits, State
<1>6. MarksHold
  <2> SUFFICES ASSUME NEW k \in 0 .. Len(list)
               PROVE  PoppedBack(CountOf(SubSeq(list, 1, k))) = SubSeq(list, 1, k)
    BY DEF MarksHold
  <2> DEFINE n == CountOf(SubSeq(list, 1, k))
  <2>1. n \in Nat
    <3>1. n = IF k = 0 THEN 0 ELSE Total(list[1]) + k - 1
      BY CountIs
    <3>2. k # 0 => Total(list[1]) \in Nat
      BY <1>1, <1>2
    <3>3. QED
      BY <3>1, <3>2
  <2>2. n = CountOf(SubSeq(list, 1, k))
    OBVIOUS
  <2> HIDE DEF n
  <2>3. Back(list, n) = k
    BY <2>1, <2>2, BackIs
  <2>4. QED
    BY <2>2, <2>3, PoppedBackIs
<1>7. NumbersFollow
  BY DEF NumbersFollow, InOrder, Follows
<1>8. Described
  <2> SUFFICES ASSUME NEW i \in DOMAIN list
               PROVE  LET c == list[i].code - IF IsWarning(list[i].code) THEN WarningOnly ELSE 0
                          known == {k \in DOMAIN ErrorNumbers : ErrorNumbers[k] = c}
                      IN  list[i].problem = IF c < 400 THEN <<"system", c>>
                                            ELSE IF known = {} THEN <<"own", 0>>
                                            ELSE <<"own", CHOOSE k \in known : TRUE>>
    BY DEF Described
  <2> DEFINE c == list[i].code - IF IsWarning(list[i].code) THEN WarningOnly ELSE 0
  <2>1. list[i].code \in Nat
    BY <1>2 DEF MessageSpace
  <2>2. c \in Int /\ OwnCode(list[i].code) = c
    BY <2>1 DEF OwnCode, WarningOnly
  <2>3. list[i].problem = Problem(c)
    BY <2>2 DEF InOrder
  <2> HIDE DEF c
  <2>4. LET known == {k \in DOMAIN ErrorNumbers : ErrorNumbers[k] = c}
        IN  list[i].problem = IF c < 400 THEN <<"system", c>>
                              ELSE IF known = {} THEN <<"own", 0>>
                              ELSE <<"own", CHOOSE k \in known : TRUE>>
    BY <2>2, <2>3, ProblemIs
  <2>5. QED
    BY <2>4, Zenon DEF c
<1>9. QED
  BY <1>5, <1>6, <1>7, <1>8 DEF MessagesKept

\* Whatever is called leaves a list in order.
LEMMA StepInOrder ==
  ASSUME InOrder(list), [Next]_vars
  PROVE  InOrder(list')
<1>1. list \in Seq(MessageSpace) /\ Len(list) \in Nat
  BY DEF InOrder
<1>2. list # <<>> => InOrder(Tail(list))
  BY InOrderTail
<1>3. ASSUME NEW code \in Codes, Push(code) PROVE InOrder(list')
  BY <1>3, InOrderPushed, CodesAssumption DEF Push
<1>4. CASE Pop
  <2>1. Len(list) - 1 \in 0 .. Len(list)
    BY <1>1, <1>4 DEF Pop
  <2>2. QED
    BY <1>4, <2>1, InOrderCut DEF Pop, Front
<1>5. CASE Pull
  BY <1>2, <1>5 DEF Pull, Rest
<1>6. CASE Clear
  <2>1. 0 \in 0 .. Len(list) /\ SubSeq(list, 1, 0) = <<>>
    BY <1>1
  <2>2. InOrder(<<>>)
    BY <2>1, InOrderCut
  <2>3. QED
    BY <1>6, <2>2 DEF Clear
<1>7. ASSUME NEW n \in 0 .. MaxCount, PopBack(n) PROVE InOrder(list')
  <2>1. n \in Nat
    BY CodesAssumption
  <2>2. Back(list, n) \in 0 .. Len(list)
    BY <2>1, BackIs
  <2>3. InOrder(SubSeq(list, 1, Back(list, n)))
    BY <2>2, InOrderCut
  <2>4. QED
    BY <1>7, <2>3, PoppedBackIs DEF PopBack
<1>8. ASSUME NEW log \in BOOLEAN, NEW screen \in BOOLEAN, NEW asks \in BOOLEAN,
             BeginDisp(log, screen, asks)
      PROVE  InOrder(list')
  BY <1>2, <1>8 DEF BeginDisp, Rest
<1>9. CASE Show
  BY <1>2, <1>9 DEF Show, Rest
<1>10. CASE EndDisp \/ UNCHANGED vars
  BY <1>10 DEF EndDisp, vars
<1>11. QED
  BY <1>3, <1>4, <1>5, <1>6, <1>7, <1>8, <1>9, <1>10 DEF Next, Calls

\* Whatever is pushed, popped and pulled, with whatever codes, the list of
\* messages can be counted, popped back to the state of any earlier moment, and
\* described: read_ff fails exactly when there is a message, and db_init forgives
\* just the stage that failed.
THEOREM MessagesAreKept == Spec => []MessagesKept
<1>1. Init => InOrder(list)
  <2> SUFFICES ASSUME list = <<>> PROVE InOrder(list)
    BY DEF Init
  <2>1. QED
    BY DEF InOrder
<1>2. InOrder(list) /\ [Next]_vars => InOrder(list)'
  BY StepInOrder
<1>3. InOrder(list) => MessagesKept
  BY KeptInOrder
<1>4. QED
  BY <1>1, <1>2, <1>3, PTL DEF Spec
-----------------------------------------------------------------------------
(* err_disp *)

DispSpace == [on : BOOLEAN, log : BOOLEAN, screen : BOOLEAN, asks : BOOLEAN,
              error : Seq(MessageSpace), lowest : Nat,
              logged : Seq(Nat), shown : Seq(Nat), all : Seq(Nat)]

\* How many messages have been printed, and how many pulled
Done == Len(disp.all) - Len(disp.error) - Len(list)
Seen == Done + Len(disp.error)

\* The message in hand and the list are the rest of what there was; the log has
\* what was printed, the screen a part of it, and the lowest code is one of those seen.
InHand(d, l, k) ==
    /\ Len(d.error) \in {0, 1}
    /\ Len(d.error) = 0 => l = <<>>
    /\ Len(d.error) = 1 => d.error[1].code = d.all[k + 1]
Left(d, l, s) == \A i \in 1 .. Len(l) : l[i].code = d.all[s + i]
Logged(d, k) == d.logged = IF d.log THEN SubSeq(d.all, 1, k) ELSE <<>>
Shown(d, k) ==
    /\ Len(d.shown) <= k /\ d.shown = SubSeq(d.all, 1, Len(d.shown))
    /\ d.screen => Len(d.shown) = k
LowestSeen(d, s) ==
    /\ \E i \in 1 .. s : d.lowest = d.all[i]
    /\ \A i \in 1 .. s : d.lowest <= d.all[i]
Halfway ==
    /\ Done \in Nat /\ Seen \in Nat /\ Seen >= 1
    /\ InHand(disp, list, Done) /\ Left(disp, list, Seen)
    /\ Logged(disp, Done) /\ Shown(disp, Done) /\ LowestSeen(disp, Seen)
DInv == InOrder(list) /\ disp \in DispSpace /\ (disp.on => Halfway)

LEMMA NotShowingTyped == NotShowing \in DispSpace /\ NotShowing.on = FALSE
BY DEF NotShowing, DispSpace

LEMMA MessagesAre ==
  ASSUME NEW l \in Seq(MessageSpace)
  PROVE  Messages(l) \in Seq(Nat) /\ Len(Messages(l)) = Len(l)
         /\ \A i \in 1 .. Len(l) : Messages(l)[i] = l[i].code
<1>1. \A i \in 1 .. Len(l) : l[i].code \in Nat
  <2>1. \A i \in 1 .. Len(l) : l[i] \in MessageSpace
    OBVIOUS
  <2>2. QED
    BY <2>1 DEF MessageSpace
<1>2. Messages(l) = [i \in 1 .. Len(l) |-> l[i].code]
  BY DEF Messages
<1> DEFINE n == Len(l)
           s == [i \in 1 .. n |-> l[i].code]
<1>3. n \in Nat
  OBVIOUS
<1>4. s \in Seq(Nat) /\ Len(s) = n
  <2> HIDE DEF n
  <2>1. QED
    BY <1>1, <1>3 DEF n
<1>5. QED
  BY <1>2, <1>4

LEMMA BeginHalfway ==
  ASSUME DInv, NEW log \in BOOLEAN, NEW screen \in BOOLEAN, NEW asks \in BOOLEAN,
         BeginDisp(log, screen, asks)
  PROVE  disp' \in DispSpace /\ Halfway'
<1> DEFINE m == Messages(list)
           n == Len(list)
           d == [on |-> TRUE, log |-> log, screen |-> screen, asks |-> asks,
                 error |-> <<list[1]>>, lowest |-> list[1].code,
                 logged |-> <<>>, shown |-> <<>>, all |-> m]
<1>1. list \in Seq(MessageSpace) /\ list # <<>>
  BY DEF DInv, InOrder, BeginDisp
<1>2. m \in Seq(Nat) /\ Len(m) = n /\ n \in Nat /\ n >= 1 /\ \A i \in 1 .. n : m[i] = list[i].code
  BY <1>1, MessagesAre
<1>3. Head(list) = list[1] /\ list[1] \in MessageSpace /\ list[1].code \in Nat /\ list[1].code = m[1]
  <2>1. Head(list) = list[1] /\ list[1] \in MessageSpace
    BY <1>1
  <2>2. QED
    BY <1>2, <2>1 DEF MessageSpace
<1>4. /\ list' \in Seq(MessageSpace) /\ Len(list') = n - 1
      /\ \A i \in 1 .. n - 1 : list'[i] = list[i + 1]
  <2>1. list' = Tail(list)
    BY DEF BeginDisp, Rest
  <2>2. QED
    BY <1>1, <2>1, InOrderTail DEF DInv, InOrder
<1>5. disp' = d
  BY <1>3, Zenon DEF BeginDisp, NotShowing
<1> HIDE DEF m
<1>6. /\ disp'.on = TRUE /\ disp'.log = log /\ disp'.screen = screen /\ disp'.error = <<list[1]>>
      /\ disp'.lowest = m[1] /\ disp'.logged = <<>> /\ disp'.shown = <<>> /\ disp'.all = m
  BY <1>3, <1>5
<1>7. disp' \in DispSpace
  BY <1>2, <1>3, <1>5 DEF DispSpace
<1>8. Len(<<list[1]>>) = 1 /\ <<list[1]>>[1] = list[1] /\ Len(<<>>) = 0
  OBVIOUS
<1>9. Done' = 0 /\ Seen' = 1
  BY <1>2, <1>4, <1>6, <1>8 DEF Done, Seen
<1>10. SubSeq(m, 1, 0) = <<>>
  BY <1>2
<1>11. ASSUME NEW i \in 1 .. Len(list') PROVE list'[i].code = m[1 + i]
  <2>1. i \in 1 .. n - 1 /\ i + 1 \in 1 .. n /\ i + 1 = 1 + i
    BY <1>2, <1>4
  <2>2. QED
    BY <1>2, <1>4, <2>1
<1>12. m[1] \in Nat /\ 1 \in 1 .. 1
  BY <1>2
<1>13. InHand(disp', list', 0) /\ Left(disp', list', 1)
  <2>1. InHand(disp', list', 0)
    BY <1>3, <1>6, <1>8 DEF InHand
  <2>2. Left(disp', list', 1)
    BY <1>6, <1>11 DEF Left
  <2>3. QED
    BY <2>1, <2>2
<1>14. Logged(disp', 0)
  BY <1>6, <1>10 DEF Logged
<1>15. Shown(disp', 0)
  BY <1>6, <1>8, <1>10 DEF Shown
<1>16. LowestSeen(disp', 1)
  BY <1>6, <1>12 DEF LowestSeen
<1>17. Halfway'
  BY <1>9, <1>13, <1>14, <1>15, <1>16 DEF Halfway
<1>18. QED
  BY <1>7, <1>17
\* A message is printed: what that leaves as it was, and what it adds to
LEMMA PrintedIs ==
  ASSUME DInv, disp.error # <<>>
  PROVE  LET c == disp.error[1].code
             d == Printed(disp)
         IN  /\ c \in Nat
             /\ d \in DispSpace
             /\ d.on = disp.on /\ d.log = disp.log /\ d.screen = disp.screen
             /\ d.error = disp.error /\ d.lowest = disp.lowest /\ d.all = disp.all
             /\ d.logged = IF disp.log THEN Append(disp.logged, c) ELSE disp.logged
             /\ d.shown = IF disp.screen THEN Append(disp.shown, c) ELSE disp.shown
<1> DEFINE c == disp.error[1].code
           g == IF disp.log THEN Append(disp.logged, c) ELSE disp.logged
           s == IF disp.screen THEN Append(disp.shown, c) ELSE disp.shown
<1>1. disp \in DispSpace
  BY DEF DInv
<1>2. disp.error \in Seq(MessageSpace) /\ disp.logged \in Seq(Nat) /\ disp.shown \in Seq(Nat)
  BY <1>1 DEF DispSpace
<1>3. c \in Nat
  <2>1. disp.error[1] \in MessageSpace
    BY <1>2
  <2>2. QED
    BY <2>1 DEF MessageSpace
<1>4. g \in Seq(Nat) /\ s \in Seq(Nat)
  <2> HIDE DEF c
  <2>1. QED
    BY <1>2, <1>3
<1>5. Printed(disp) = [disp EXCEPT !.logged = g, !.shown = s]
  BY DEF Printed
<1> HIDE DEF g, s, c
<1>6. QED
  BY <1>1, <1>3, <1>4, <1>5 DEF DispSpace, g, s, c

\* What is printed is what there was up to the message in hand.
LEMMA PrintedHalfway ==
  ASSUME DInv, disp.on, disp.error # <<>>
  PROVE  LET all == disp.all
             d == Printed(disp)
         IN  /\ Len(disp.error) = 1 /\ Done \in Nat /\ Seen = Done + 1
             /\ all \in Seq(Nat) /\ Len(all) = Done + 1 + Len(list)
             /\ d.logged = IF disp.log THEN SubSeq(all, 1, Done + 1) ELSE <<>>
             /\ Len(d.shown) <= Done + 1 /\ d.shown = SubSeq(all, 1, Len(d.shown))
             /\ disp.screen => Len(d.shown) = Done + 1
<1> DEFINE c == disp.error[1].code
           all == disp.all
           n == Len(all)
           k == Done
           d == Printed(disp)
<1>1. Halfway /\ disp \in DispSpace /\ list \in Seq(MessageSpace)
  BY DEF DInv, InOrder
<1>2. disp.error \in Seq(MessageSpace) /\ disp.logged \in Seq(Nat) /\ disp.shown \in Seq(Nat)
      /\ all \in Seq(Nat)
  BY <1>1 DEF DispSpace
<1>3. Len(disp.error) = 1 /\ Len(list) \in Nat
  BY <1>1, <1>2 DEF Halfway, InHand
<1>4. k \in Nat /\ n \in Nat /\ Seen = k + 1 /\ n = k + 1 + Len(list) /\ c = all[k + 1]
  <2>1. c = all[k + 1] /\ k \in Nat
    BY <1>1, <1>3 DEF Halfway, InHand
  <2>2. n \in Nat
    BY <1>2
  <2>3. QED
    BY <1>3, <2>1, <2>2 DEF Done, Seen
<1>5. /\ d.logged = IF disp.log THEN Append(disp.logged, c) ELSE disp.logged
      /\ d.shown = IF disp.screen THEN Append(disp.shown, c) ELSE disp.shown
  BY PrintedIs DEF DInv
<1>6. /\ disp.logged = IF disp.log THEN SubSeq(all, 1, k) ELSE <<>>
      /\ Len(disp.shown) <= k /\ disp.shown = SubSeq(all, 1, Len(disp.shown))
      /\ disp.screen => Len(disp.shown) = k
  BY <1>1 DEF Halfway, Logged, Shown
<1> HIDE DEF c, all, n, k, d
<1>7. Append(SubSeq(all, 1, k), all[k + 1]) = SubSeq(all, 1, k + 1)
      /\ Len(SubSeq(all, 1, k + 1)) = k + 1
  BY <1>2, <1>3, <1>4 DEF n
<1>8. d.logged = IF disp.log THEN SubSeq(all, 1, k + 1) ELSE <<>>
  BY <1>4, <1>5, <1>6, <1>7
<1>9. /\ Len(d.shown) <= k + 1 /\ d.shown = SubSeq(all, 1, Len(d.shown))
      /\ disp.screen => Len(d.shown) = k + 1
  <2>1. CASE disp.screen
    <3>1. d.shown = SubSeq(all, 1, k + 1)
      BY <1>4, <1>5, <1>6, <1>7, <2>1
    <3>2. QED
      BY <1>4, <1>7, <3>1
  <2>2. CASE ~ disp.screen
    <3>1. d.shown = disp.shown /\ Len(disp.shown) \in Nat
      BY <1>2, <1>5, <2>2
    <3>2. QED
      BY <1>4, <1>6, <2>2, <3>1
  <2>3. QED
    BY <2>1, <2>2
<1>10. QED
  BY <1>2, <1>3, <1>4, <1>8, <1>9 DEF all, n, k, d

\* The last message: nothing is left to pull.
LEMMA LastHalfway ==
  ASSUME DInv, disp.on, disp.error # <<>>, list = <<>>, list' = list,
         disp' = [Printed(disp) EXCEPT !.error = <<>>]
  PROVE  disp' \in DispSpace /\ Halfway'
<1> DEFINE all == disp.all
           k == Done
           d == Printed(disp)
<1>1. /\ Len(list) = 0 /\ k \in Nat /\ Seen = k + 1 /\ all \in Seq(Nat) /\ Len(all) = k + 1
      /\ d.logged = IF disp.log THEN SubSeq(all, 1, k + 1) ELSE <<>>
      /\ Len(d.shown) <= k + 1 /\ d.shown = SubSeq(all, 1, Len(d.shown))
      /\ disp.screen => Len(d.shown) = k + 1
  BY PrintedHalfway
<1>2. /\ d \in DispSpace /\ d.log = disp.log /\ d.screen = disp.screen
      /\ d.lowest = disp.lowest /\ d.all = all
  BY PrintedIs
<1>3. <<>> \in Seq(MessageSpace) /\ Len(<<>>) = 0
  OBVIOUS
<1>4. disp' = [d EXCEPT !.error = <<>>]
  OBVIOUS
<1>5. /\ \E i \in 1 .. k + 1 : disp.lowest = all[i]
      /\ \A i \in 1 .. k + 1 : disp.lowest <= all[i]
  BY <1>1 DEF DInv, Halfway, LowestSeen
<1> HIDE DEF d, all, k
<1>6. /\ disp' \in DispSpace /\ disp'.log = disp.log /\ disp'.screen = disp.screen
      /\ disp'.error = <<>> /\ disp'.lowest = disp.lowest /\ disp'.all = all
      /\ disp'.logged = d.logged /\ disp'.shown = d.shown
  BY <1>2, <1>3, <1>4 DEF DispSpace
<1>7. Done' = k + 1 /\ Seen' = k + 1
  BY <1>1, <1>3, <1>6 DEF Done, Seen
<1>8. InHand(disp', list', k + 1)
  BY <1>3, <1>6 DEF InHand
<1>9. Left(disp', list', k + 1)
  BY <1>1 DEF Left
<1>10. Logged(disp', k + 1)
  BY <1>1, <1>6 DEF Logged
<1>11. Shown(disp', k + 1)
  BY <1>1, <1>6 DEF Shown
<1>12. LowestSeen(disp', k + 1)
  BY <1>5, <1>6 DEF LowestSeen
<1>13. k + 1 \in Nat /\ k + 1 >= 1
  BY <1>1
<1>14. Halfway'
  BY <1>7, <1>8, <1>9, <1>10, <1>11, <1>12, <1>13 DEF Halfway
<1>15. QED
  BY <1>6, <1>14

\* The next one is pulled, whether its user wants to see it or not.
LEMMA NextHalfway ==
  ASSUME DInv, disp.on, disp.error # <<>>, list # <<>>, list' = Rest,
         NEW d \in {Printed(disp), StopsAt(Printed(disp))},
         disp' = [d EXCEPT !.error = <<Head(list)>>, !.lowest = LowestSoFar(d, Head(list))]
  PROVE  disp' \in DispSpace /\ Halfway'
<1> DEFINE all == disp.all
           k == Done
           n == Len(list)
           h == list[1]
           low == LowestSoFar(d, h)
<1>1. /\ list \in Seq(MessageSpace) /\ n \in Nat /\ n >= 1 /\ disp \in DispSpace /\ Halfway
  BY DEF DInv, InOrder
<1>2. /\ k \in Nat /\ Seen = k + 1 /\ all \in Seq(Nat) /\ Len(all) = k + 1 + n
      /\ Printed(disp).logged = IF disp.log THEN SubSeq(all, 1, k + 1) ELSE <<>>
      /\ Len(Printed(disp).shown) <= k + 1
      /\ Printed(disp).shown = SubSeq(all, 1, Len(Printed(disp).shown))
      /\ disp.screen => Len(Printed(disp).shown) = k + 1
  BY PrintedHalfway
<1>3. /\ Printed(disp) \in DispSpace
      /\ Printed(disp).log = disp.log /\ Printed(disp).screen = disp.screen
      /\ Printed(disp).lowest = disp.lowest /\ Printed(disp).all = all
  BY PrintedIs
<1>4. /\ d \in DispSpace /\ d.log = disp.log /\ d.screen \in {disp.screen, FALSE}
      /\ d.lowest = disp.lowest /\ d.all = all
      /\ d.logged = Printed(disp).logged /\ d.shown = Printed(disp).shown
  <2> DEFINE q == Printed(disp)
  <2>1. q \in DispSpace /\ (d = q \/ d = [q EXCEPT !.asks = FALSE, !.screen = FALSE])
    BY <1>3 DEF StopsAt
  <2> HIDE DEF q
  <2>2. /\ d \in DispSpace /\ d.log = q.log /\ d.screen \in {q.screen, FALSE}
        /\ d.lowest = q.lowest /\ d.all = q.all
        /\ d.logged = q.logged /\ d.shown = q.shown
    BY <2>1 DEF DispSpace
  <2>3. QED
    BY <1>3, <2>2 DEF q
<1>5. h \in MessageSpace /\ Head(list) = h /\ h.code \in Nat /\ h.code = all[k + 2]
  <2>1. h \in MessageSpace /\ Head(list) = h
    BY <1>1
  <2>2. h.code = all[Seen + 1]
    <3>1. Left(disp, list, Seen) /\ 1 \in 1 .. n
      BY <1>1 DEF Halfway
    <3> QED BY <3>1 DEF Left
  <2>3. Seen + 1 = k + 2
    BY <1>2
  <2>4. h.code \in Nat
    BY <2>1 DEF MessageSpace
  <2>5. QED
    BY <2>1, <2>2, <2>3, <2>4
<1>6. /\ list' \in Seq(MessageSpace) /\ Len(list') = n - 1
      /\ \A i \in 1 .. n - 1 : list'[i] = list[i + 1]
  BY <1>1, InOrderTail DEF DInv, InOrder, Rest
<1>7. disp.lowest \in Nat
  BY <1>1 DEF DispSpace
<1>8. low \in Nat /\ low <= disp.lowest /\ low <= h.code /\ low \in {disp.lowest, h.code}
  BY <1>4, <1>5, <1>7 DEF LowestSoFar, Lowest
<1>9. disp' = [d EXCEPT !.error = <<h>>, !.lowest = low]
  BY <1>5
<1>10. /\ \E i \in 1 .. k + 1 : disp.lowest = all[i]
       /\ \A i \in 1 .. k + 1 : disp.lowest <= all[i]
  BY <1>1, <1>2 DEF Halfway, LowestSeen
<1>11. \A i \in 1 .. n : list[i].code = all[k + 1 + i]
  BY <1>1, <1>2 DEF Halfway, Left
<1>12. <<h>> \in Seq(MessageSpace) /\ Len(<<h>>) = 1 /\ <<h>>[1] = h
  BY <1>5
<1> HIDE DEF all, k, n, h, low
<1>13. /\ disp' \in DispSpace /\ disp'.log = disp.log /\ disp'.screen \in {disp.screen, FALSE}
       /\ disp'.error = <<h>> /\ disp'.lowest = low /\ disp'.all = all
       /\ disp'.logged = d.logged /\ disp'.shown = d.shown
  BY <1>4, <1>8, <1>9, <1>12 DEF DispSpace
<1>14. Done' = k + 1 /\ Seen' = k + 2
  <2>1. Len(disp'.all) = k + 1 + n /\ Len(disp'.error) = 1 /\ Len(list') = n - 1
    BY <1>2, <1>6, <1>12, <1>13
  <2>2. n \in Nat /\ k \in Nat
    BY <1>1, <1>2
  <2>3. Done' = k + 1
    BY <2>1, <2>2 DEF Done
  <2>4. QED
    BY <2>1, <2>2, <2>3 DEF Seen
<1>15. \A i \in 1 .. k + 2 : low <= all[i]
  <2> TAKE i \in 1 .. k + 2
  <2>1. CASE i = k + 2
    BY <1>5, <1>8, <2>1
  <2>2. CASE i # k + 2
    <3>1. i \in 1 .. k + 1 /\ k + 1 <= Len(all)
      <4>1. k \in Nat /\ n \in Nat /\ Len(all) = k + 1 + n
        BY <1>1, <1>2
      <4> QED BY <4>1, <2>2
    <3>2. all[i] \in Nat
      BY <1>2, <3>1
    <3>3. disp.lowest <= all[i]
      BY <1>10, <3>1
    <3>4. QED
      BY <1>7, <1>8, <3>2, <3>3
  <2>3. QED
    BY <2>1, <2>2
<1>16. \E i \in 1 .. k + 2 : low = all[i]
  <2>1. k + 2 \in 1 .. k + 2 /\ \A i \in 1 .. k + 1 : i \in 1 .. k + 2
    BY <1>2
  <2>2. QED
    BY <1>5, <1>8, <1>10, <2>1
<1>17. ASSUME NEW i \in 1 .. Len(list') PROVE list'[i].code = all[(k + 2) + i]
  <2>1. i \in 1 .. n - 1
    BY <1>6
  <2>2. n \in Nat /\ k \in Nat
    BY <1>1, <1>2
  <2>3. i + 1 \in 1 .. n /\ (k + 2) + i = k + 1 + (i + 1)
    BY <2>1, <2>2
  <2>4. QED
    BY <1>6, <1>11, <2>1, <2>3
<1>18. disp'.logged = IF disp'.log THEN SubSeq(all, 1, k + 1) ELSE <<>>
  BY <1>2, <1>4, <1>13
<1>19. /\ Len(disp'.shown) <= k + 1 /\ disp'.shown = SubSeq(all, 1, Len(disp'.shown))
       /\ disp'.screen => Len(disp'.shown) = k + 1
  BY <1>2, <1>4, <1>13
<1>20. (k + 1) + 1 = k + 2 /\ k + 1 \in Nat /\ k + 2 \in Nat /\ k + 2 >= 1
  BY <1>2
<1>21. InHand(disp', list', k + 1)
  BY <1>5, <1>12, <1>13, <1>20 DEF InHand
<1>22. Left(disp', list', k + 2)
  BY <1>13, <1>17 DEF Left
<1>23. Logged(disp', k + 1)
  BY <1>13, <1>18 DEF Logged
<1>24. Shown(disp', k + 1)
  BY <1>13, <1>19 DEF Shown
<1>25. LowestSeen(disp', k + 2)
  BY <1>13, <1>15, <1>16 DEF LowestSeen
<1>26. Halfway'
  BY <1>14, <1>20, <1>21, <1>22, <1>23, <1>24, <1>25 DEF Halfway
<1>27. QED
  BY <1>13, <1>26

LEMMA DInvInit == Init => DInv
<1> SUFFICES ASSUME Init PROVE DInv
  OBVIOUS
<1>1. list = <<>> /\ disp = NotShowing
  BY DEF Init
<1>2. InOrder(list)
  BY <1>1 DEF InOrder
<1>3. QED
  BY <1>1, <1>2, NotShowingTyped DEF DInv

LEMMA DInvStep ==
  ASSUME DInv, [Next]_vars
  PROVE  DInv'
<1>1. InOrder(list')
  BY StepInOrder DEF DInv
<1>2. CASE ~ disp.on /\ UNCHANGED disp
  BY <1>1, <1>2 DEF DInv
<1>3. CASE UNCHANGED vars
  BY <1>3 DEF vars, DInv, Halfway, Done, Seen
<1>4. ASSUME NEW log \in BOOLEAN, NEW screen \in BOOLEAN, NEW asks \in BOOLEAN,
             BeginDisp(log, screen, asks)
      PROVE  DInv'
  BY <1>1, <1>4, BeginHalfway DEF DInv
<1>5. CASE Show
  <2>1. disp.on /\ disp.error # <<>>
    BY <1>5 DEF Show
  <2>2. CASE list = <<>>
    <3>1. disp' = [Printed(disp) EXCEPT !.error = <<>>] /\ list' = list
      BY <1>5, <2>2, Zenon DEF Show
    <3>2. QED
      BY <1>1, <2>1, <2>2, <3>1, LastHalfway DEF DInv
  <2>3. CASE list # <<>>
    <3>1. list' = Rest /\ \E d \in {Printed(disp), StopsAt(Printed(disp))} :
            disp' = [d EXCEPT !.error = <<Head(list)>>, !.lowest = LowestSoFar(d, Head(list))]
      BY <1>5, <2>3, Zenon DEF Show
    <3>2. disp' \in DispSpace /\ Halfway'
      BY <2>1, <2>3, <3>1, NextHalfway, Zenon
    <3>3. QED
      BY <1>1, <3>2 DEF DInv
  <2>4. QED
    BY <2>2, <2>3
<1>6. CASE EndDisp
  BY <1>1, <1>6, NotShowingTyped DEF EndDisp, DInv
<1>7. QED
  BY <1>2, <1>3, <1>4, <1>5, <1>6
     DEF Next, Calls, Push, Pop, Pull, Clear, PopBack

\* err_disp ends with an empty list and returns the lowest code of all, the log
\* has every message if there is one, and the screen the first ones, whenever
\* its user has seen enough.
THEOREM AllIsShown == Spec => DispComplete
<1> DEFINE Complete ==
             disp.on /\ ~ disp'.on =>
               /\ list' = <<>>
               /\ \A i \in DOMAIN disp.all : result' <= disp.all[i]
               /\ result' \in Range(disp.all)
               /\ disp.logged \in {<<>>, disp.all} /\ (disp.log => disp.logged # <<>>)
               /\ IsPrefix(disp.shown, disp.all)
<1>1. DInv /\ [Next]_vars => [Complete]_vars
  <2> SUFFICES ASSUME DInv, Next, disp.on, ~ disp'.on
               PROVE  /\ list' = <<>>
                      /\ \A i \in DOMAIN disp.all : result' <= disp.all[i]
                      /\ result' \in Range(disp.all)
                      /\ disp.logged \in {<<>>, disp.all} /\ (disp.log => disp.logged # <<>>)
                      /\ IsPrefix(disp.shown, disp.all)
    OBVIOUS
  <2> DEFINE all == disp.all
             n == Len(all)
  <2>1. disp \in DispSpace /\ Halfway
    BY DEF DInv
  <2>2. EndDisp
    <3>1. ASSUME Show PROVE FALSE
      <4>1. disp.error # <<>>
        BY <3>1 DEF Show
      <4>2. disp'.on = disp.on
        <5>1. Printed(disp).on = disp.on /\ Printed(disp) \in DispSpace
          BY <4>1, PrintedIs
        <5> DEFINE q == Printed(disp)
        <5>2. ASSUME disp' = [q EXCEPT !.error = <<>>] PROVE disp'.on = disp.on
          <6>1. q.on = disp.on /\ q \in DispSpace
            BY <5>1
          <6> HIDE DEF q
          <6>2. QED
            BY <5>2, <6>1 DEF DispSpace
        <5>3. ASSUME NEW d \in {q, StopsAt(q)}, NEW e, NEW w,
                     disp' = [d EXCEPT !.error = e, !.lowest = w]
              PROVE  disp'.on = disp.on
          <6>1. q.on = disp.on /\ q \in DispSpace
            BY <5>1
          <6>2. d = q \/ d = [q EXCEPT !.asks = FALSE, !.screen = FALSE]
            BY DEF StopsAt
          <6> HIDE DEF q
          <6>3. d.on = disp.on /\ d \in DispSpace
            BY <6>1, <6>2 DEF DispSpace
          <6>4. QED
            BY <5>3, <6>3 DEF DispSpace
        <5>4. \/ disp' = [q EXCEPT !.error = <<>>]
              \/ \E d \in {q, StopsAt(q)} :
                   disp' = [d EXCEPT !.error = <<Head(list)>>,
                                     !.lowest = LowestSoFar(d, Head(list))]
          BY <3>1, Zenon DEF Show
        <5>5. QED
          BY <5>2, <5>3, <5>4, Zenon
      <4>3. QED
        BY <4>2
    <3>2. QED
      BY <3>1 DEF Next, Calls, Push, Pop, Pull, Clear, PopBack, BeginDisp
  <2>3. disp.error = <<>> /\ list' = list /\ result' = disp.lowest
    BY <2>2 DEF EndDisp
  <2>4. all \in Seq(Nat) /\ n \in Nat /\ DOMAIN all = 1 .. n /\ disp.shown \in Seq(Nat)
    BY <2>1 DEF DispSpace
  <2>5. Len(disp.error) = 0 /\ list = <<>> /\ Len(list) = 0
    BY <2>1, <2>3 DEF Halfway, InHand
  <2>6. Done = n /\ Seen = n /\ n >= 1
    BY <2>1, <2>4, <2>5 DEF Done, Seen, Halfway
  <2>7. SubSeq(all, 1, n) = all /\ all # <<>>
    BY <2>4, <2>6
  <2>8. /\ disp.logged = IF disp.log THEN all ELSE <<>>
        /\ Len(disp.shown) <= n /\ disp.shown = SubSeq(all, 1, Len(disp.shown))
        /\ \E i \in 1 .. n : disp.lowest = all[i]
        /\ \A i \in 1 .. n : disp.lowest <= all[i]
    BY <2>1, <2>6, <2>7 DEF Halfway, Logged, Shown, LowestSeen
  <2>9. IsPrefix(disp.shown, all)
    <3>1. SubSeq(disp.shown, 1, Len(disp.shown)) = disp.shown
      BY <2>4
    <3>2. QED
      BY <2>8, <3>1 DEF IsPrefix
  <2>10. result' \in Range(all)
    BY <2>3, <2>4, <2>8 DEF Range
  <2>11. QED
    BY <2>3, <2>4, <2>5, <2>7, <2>8, <2>9, <2>10
<1>2. Init => DInv
  BY DInvInit
<1>3. DInv /\ [Next]_vars => DInv'
  BY DInvStep
<1>4. Spec => [][Complete]_vars
  BY <1>1, <1>2, <1>3, PTL DEF Spec
<1>5. QED
  BY <1>4 DEF DispComplete

-----------------------------------------------------------------------------
(* The doubly linked lists: rings of nodes *)

NodeKinds == {"free", "head", "none", "data"}
HeadsOf(kd) == {n \in Nodes : kd[n] = "head"}
InList(kd, n) == kd[n] \in {"none", "data"}

\* A node of a ring by its number; the head is both 0 and the last
RingAt(h, s, i) == IF i \in 1 .. Len(s) THEN s[i] ELSE h
Ringed(nx, pv, h, s) ==
    \A i \in 0 .. Len(s) : /\ nx[RingAt(h, s, i)] = RingAt(h, s, i + 1)
                           /\ pv[RingAt(h, s, i + 1)] = RingAt(h, s, i)

\* The rings r: each closed, no node twice, no node without a ring
Whole(kd, nx, pv, r) ==
    /\ r \in [HeadsOf(kd) -> Seq(Nodes)]
    /\ \A h \in HeadsOf(kd) : Ringed(nx, pv, h, r[h])
    /\ \A h \in HeadsOf(kd) : \A i \in 1 .. Len(r[h]) : InList(kd, r[h][i])
    /\ \A g, h \in HeadsOf(kd) : \A i \in 1 .. Len(r[g]), j \in 1 .. Len(r[h]) :
          r[g][i] = r[h][j] => g = h /\ i = j
    /\ \A n \in Nodes : InList(kd, n) => \E h \in HeadsOf(kd) : \E i \in 1 .. Len(r[h]) : r[h][i] = n
Pointers(kd, nx, pv) ==
    /\ kd \in [Nodes -> NodeKinds]
    /\ nx \in [Nodes -> Nodes \cup {Nil}] /\ pv \in [Nodes -> Nodes \cup {Nil}]

\* dll_rewind and a walk around the ring go by the same recursion.
AfterFrom(nx, n) ==
    LET after[i \in 0 .. Cardinality(Nodes)] == IF i = 0 THEN n ELSE nx[after[i - 1]]
    IN  after
RewindOf(kd, nx, n) ==
    LET after == AfterFrom(nx, n)
    IN  after[CHOOSE i \in DOMAIN after :
                  /\ kd[after[i]] = "head"
                  /\ \A j \in 0 .. i - 1 : kd[after[j]] # "head"]
RingOf(nx, h) ==
    LET after == AfterFrom(nx, nx[h])
        size == CHOOSE i \in DOMAIN after : after[i] = h /\ \A j \in 0 .. i - 1 : after[j] # h
    IN  [i \in 1 .. size |-> after[i - 1]]

\* The walk as a function exists.
LEMMA AfterIs ==
  ASSUME NEW nx, NEW n
  PROVE  /\ AfterFrom(nx, n) = [i \in 0 .. Cardinality(Nodes) |->
                                   IF i = 0 THEN n ELSE nx[AfterFrom(nx, n)[i - 1]]]
         /\ Cardinality(Nodes) \in Nat
<1> DEFINE Walk(f, k) == f = [i \in 0 .. k |-> IF i = 0 THEN n ELSE nx[f[i - 1]]]
           T == {k \in Nat : \E f : Walk(f, k)}
           C == Cardinality(Nodes)
<1>1. C \in Nat
  BY FS_CardinalityType, NodesAssumption
<1>2. 0 \in T
  <2> DEFINE f == [i \in 0 .. 0 |-> n]
  <2>1. Walk(f, 0)
    OBVIOUS
  <2> QED BY <2>1
<1>3. \A k \in Nat : k \in T => k + 1 \in T
  <2> SUFFICES ASSUME NEW k \in Nat, k \in T
               PROVE  k + 1 \in T
    OBVIOUS
  <2> PICK f : Walk(f, k)
    OBVIOUS
  <2> DEFINE g == [i \in 0 .. k + 1 |-> IF i = 0 THEN n ELSE nx[f[i - 1]]]
  <2>1. \A i \in 0 .. k : g[i] = f[i]
    OBVIOUS
  <2>2. \A i \in 0 .. k + 1 : i # 0 => i - 1 \in 0 .. k
    OBVIOUS
  <2>3. Walk(g, k + 1)
    BY <2>1, <2>2
  <2> HIDE DEF g
  <2> QED BY <2>3
<1>4. C \in T
  <2> HIDE DEF T, C
  <2> QED BY <1>1, <1>2, <1>3, FromZero
<1>5. PICK f : Walk(f, C)
  BY <1>4
<1> QED BY <1>1, <1>5 DEF AfterFrom

\* The definitions of the model are these.
LEMMA RingDef == \A h : Ring(h) = RingOf(next, h)
BY DEF Ring, RingOf, AfterFrom

\* Rewind is RewindOf.
LEMMA RewindDef == \A n : Rewind(n) = RewindOf(kind, next, n)
BY DEF Rewind, RewindOf, AfterFrom

\* Whoever walks behind a node of a ring comes to the nodes behind it, in order.
LEMMA Walked ==
  ASSUME NEW nx, NEW pv, NEW h, NEW s \in Seq(Nodes), Ringed(nx, pv, h, s), NEW p \in 0 .. Len(s) + 1
  PROVE  \A j \in 0 .. Cardinality(Nodes) :
             p + j <= Len(s) + 1 => AfterFrom(nx, RingAt(h, s, p))[j] = RingAt(h, s, p + j)
<1> DEFINE C == Cardinality(Nodes)
           f == AfterFrom(nx, RingAt(h, s, p))
           T == {j \in Nat : j <= C /\ p + j <= Len(s) + 1 => f[j] = RingAt(h, s, p + j)}
<1>1. /\ f = [i \in 0 .. C |-> IF i = 0 THEN RingAt(h, s, p) ELSE nx[f[i - 1]]]
      /\ C \in Nat /\ Len(s) \in Nat
  BY AfterIs
<1>2. 0 \in T
  <2> HIDE DEF f, C
  <2>1. f[0] = RingAt(h, s, p) /\ p + 0 = p
    BY <1>1
  <2> QED BY <2>1
<1>3. \A j \in Nat : j \in T => j + 1 \in T
  <2> HIDE DEF f, C
  <2> SUFFICES ASSUME NEW j \in Nat, j \in T, j + 1 <= C, p + (j + 1) <= Len(s) + 1
               PROVE  f[j + 1] = RingAt(h, s, p + (j + 1))
    OBVIOUS
  <2>1. f[j] = RingAt(h, s, p + j)
    BY <1>1
  <2>2. p + j \in 0 .. Len(s) /\ p + j + 1 = p + (j + 1)
    BY <1>1
  <2>3. nx[RingAt(h, s, p + j)] = RingAt(h, s, p + (j + 1))
    BY <2>2 DEF Ringed
  <2>4. f[j + 1] = nx[f[j]]
    BY <1>1
  <2> QED BY <2>1, <2>3, <2>4
<1>4. Nat \subseteq T
  <2> HIDE DEF T
  <2> QED BY <1>2, <1>3, FromZero
<1>5. \A j \in 0 .. C : p + j <= Len(s) + 1 => f[j] = RingAt(h, s, p + j)
  <2> HIDE DEF f, C
  <2> SUFFICES ASSUME NEW j \in 0 .. C, p + j <= Len(s) + 1
               PROVE  f[j] = RingAt(h, s, p + j)
    OBVIOUS
  <2>1. j \in Nat /\ j <= C
    BY <1>1
  <2>2. j \in T
    <3> HIDE DEF T
    <3> QED BY <1>4, <2>1
  <2> QED BY <2>1, <2>2
<1> QED BY <1>5

\* No ring is longer than there are nodes, as no node is in it twice, and the head not at all.
LEMMA RingFits ==
  ASSUME NEW s \in Seq(Nodes), \A i, j \in 1 .. Len(s) : s[i] = s[j] => i = j,
         NEW h \in Nodes, \A i \in 1 .. Len(s) : s[i] # h
  PROVE  Len(s) + 1 <= Cardinality(Nodes) /\ Cardinality(Nodes) \in Nat
<1> DEFINE f == [i \in 1 .. Len(s) + 1 |-> RingAt(h, s, i)]
<1>0. Len(s) \in Nat
  OBVIOUS
<1>1. f \in Injection(1 .. Len(s) + 1, Nodes)
  BY DEF Injection, RingAt, IsInjective
<1>2. IsFiniteSet(1 .. Len(s) + 1) /\ Cardinality(1 .. Len(s) + 1) = Len(s) + 1
  BY <1>0, FS_Interval
<1>3. Cardinality(1 .. Len(s) + 1) <= Cardinality(Nodes)
  <2> HIDE DEF f
  <2> QED BY <1>1, FS_Injection, NodesAssumption
<1> QED BY <1>2, <1>3, FS_CardinalityType, NodesAssumption

\* What a ring is: apart from the head, each node once.
SoundRing(nx, pv, h, s) ==
    /\ h \in Nodes /\ s \in Seq(Nodes) /\ Ringed(nx, pv, h, s)
    /\ \A i, j \in 1 .. Len(s) : s[i] = s[j] => i = j
    /\ \A i \in 1 .. Len(s) : s[i] # h

\* Ring finds it.
LEMMA RingIs ==
  ASSUME NEW nx, NEW pv, NEW h, NEW s, SoundRing(nx, pv, h, s)
  PROVE  RingOf(nx, h) = s
<1> DEFINE f == AfterFrom(nx, nx[h])
           C == Cardinality(Nodes)
           Size(i) == f[i] = h /\ \A j \in 0 .. i - 1 : f[j] # h
           size == CHOOSE i \in DOMAIN f : Size(i)
<1>1. /\ Len(s) + 1 <= C /\ C \in Nat /\ Len(s) \in Nat /\ s \in Seq(Nodes)
      /\ \A i \in 1 .. Len(s) : s[i] # h
  BY RingFits DEF SoundRing
<1>2. DOMAIN f = 0 .. C
  BY AfterIs
<1>3. RingAt(h, s, 1) = nx[h]
  <2>1. nx[RingAt(h, s, 0)] = RingAt(h, s, 0 + 1)
    BY <1>1 DEF SoundRing, Ringed
  <2> QED BY <2>1, <1>1 DEF RingAt
<1>4. \A j \in 0 .. Len(s) : f[j] = RingAt(h, s, 1 + j)
  BY <1>1, <1>3, Walked DEF SoundRing
<1> HIDE DEF f, C
<1>5. Size(Len(s))
  BY <1>1, <1>4 DEF RingAt
<1>6. \A i \in 0 .. C : Size(i) => i = Len(s)
  <2> SUFFICES ASSUME NEW i \in 0 .. C, Size(i), i # Len(s)
               PROVE  FALSE
    OBVIOUS
  <2>1. CASE i < Len(s)
    <3>1. f[i] = s[i + 1]
      BY <1>1, <1>4, <2>1 DEF RingAt
    <3> QED BY <3>1, <2>1, <1>1
  <2>2. CASE i > Len(s)
    BY <2>2, <1>1, <1>5
  <2> QED BY <1>1, <2>1, <2>2
<1>7. size = Len(s)
  <2> HIDE DEF Size
  <2> QED BY <1>1, <1>2, <1>5, <1>6
<1>8. [i \in 1 .. Len(s) |-> f[i - 1]] = s
  <2>1. \A i \in 1 .. Len(s) : f[i - 1] = s[i]
    BY <1>1, <1>4 DEF RingAt
  <2> QED BY <2>1, <1>1
<1>9. RingOf(nx, h) = [i \in 1 .. size |-> f[i - 1]]
  BY DEF RingOf, f
<1> HIDE DEF size
<1> QED BY <1>7, <1>8, <1>9

\* From any node of a ring dll_rewind finds the head.
HeadFor(kd, h, s, n) ==
    /\ kd[h] = "head" /\ \A i \in 1 .. Len(s) : kd[s[i]] # "head"
    /\ \E p \in 1 .. Len(s) + 1 : RingAt(h, s, p) = n
\* dll_rewind ends at the head.
LEMMA RewindIs ==
  ASSUME NEW kd, NEW nx, NEW pv, NEW h, NEW s, SoundRing(nx, pv, h, s),
         NEW n, HeadFor(kd, h, s, n)
  PROVE  RewindOf(kd, nx, n) = h
<1>0. kd[h] = "head" /\ \A i \in 1 .. Len(s) : kd[s[i]] # "head"
  BY DEF HeadFor
<1> PICK p \in 1 .. Len(s) + 1 : RingAt(h, s, p) = n
  BY DEF HeadFor
<1> DEFINE f == AfterFrom(nx, n)
           C == Cardinality(Nodes)
           Found(i) == kd[f[i]] = "head" /\ \A j \in 0 .. i - 1 : kd[f[j]] # "head"
           way == CHOOSE i \in DOMAIN f : Found(i)
           L == Len(s) + 1 - p
<1>1. /\ Len(s) + 1 <= C /\ C \in Nat /\ Len(s) \in Nat /\ s \in Seq(Nodes) /\ L \in 0 .. C
  BY RingFits DEF SoundRing
<1>2. DOMAIN f = 0 .. C
  BY AfterIs
<1>4. \A j \in 0 .. L : f[j] = RingAt(h, s, p + j)
  BY <1>1, Walked DEF SoundRing
<1> HIDE DEF f, C
<1>a. \A j \in 0 .. L - 1 : f[j] = s[p + j] /\ p + j \in 1 .. Len(s)
  <2> TAKE j \in 0 .. L - 1
  <2>1. p + j \in 1 .. Len(s) /\ j \in 0 .. L
    BY <1>1
  <2> QED BY <2>1, <1>4 DEF RingAt
<1>b. f[L] = h
  <2>1. p + L = Len(s) + 1 /\ L \in 0 .. L
    BY <1>1
  <2>2. p + L \notin 1 .. Len(s)
    BY <1>1, <2>1
  <2> HIDE DEF L
  <2> QED BY <2>1, <2>2, <1>4 DEF RingAt
<1>5. Found(L)
  <2> HIDE DEF L
  <2> QED BY <1>0, <1>a, <1>b
<1>6. \A i \in 0 .. C : Found(i) => i = L
  <2> SUFFICES ASSUME NEW i \in 0 .. C, Found(i), i # L
               PROVE  FALSE
    OBVIOUS
  <2>1. CASE i < L
    <3>0. i \in 0 .. L - 1
      BY <1>1, <2>1
    <3> HIDE DEF L
    <3>1. f[i] = s[p + i] /\ p + i \in 1 .. Len(s)
      BY <1>a, <3>0
    <3> QED BY <3>1, <2>1, <1>0, <1>1
  <2>2. CASE i > L
    <3>1. L \in 0 .. i - 1
      BY <1>1, <2>2
    <3> QED BY <3>1, <1>0, <1>b
  <2> QED BY <1>1, <2>1, <2>2
<1>7. way = L
  <2> HIDE DEF Found, L
  <2> QED BY <1>1, <1>2, <1>5, <1>6
<1>9. RewindOf(kd, nx, n) = f[way]
  BY DEF RewindOf, f
<1> HIDE DEF way
<1> QED BY <1>b, <1>7, <1>9

\* Of whole rings each is sound, and Ring finds it.
LEMMA RingsSound ==
  ASSUME NEW kd, NEW nx, NEW pv, NEW r, Whole(kd, nx, pv, r), NEW h \in HeadsOf(kd)
  PROVE  /\ SoundRing(nx, pv, h, r[h]) /\ RingOf(nx, h) = r[h]
         /\ \A i \in 1 .. Len(r[h]) : kd[r[h][i]] # "head" /\ r[h][i] \in Nodes
         /\ kd[h] = "head" /\ h \in Nodes /\ r[h] \in Seq(Nodes) /\ Len(r[h]) \in Nat
<1>1. h \in Nodes /\ kd[h] = "head" /\ r[h] \in Seq(Nodes)
  BY DEF HeadsOf, Whole
<1>2. \A i \in 1 .. Len(r[h]) : kd[r[h][i]] # "head" /\ r[h][i] # h /\ r[h][i] \in Nodes
  BY <1>1 DEF Whole, InList
<1>3. SoundRing(nx, pv, h, r[h])
  BY <1>1, <1>2 DEF Whole, SoundRing
<1> QED BY <1>1, <1>2, <1>3, RingIs

\* A node is at one place of one ring.
LEMMA OnePlace ==
  ASSUME NEW kd, NEW nx, NEW pv, NEW r, Whole(kd, nx, pv, r),
         NEW g \in HeadsOf(kd), NEW h \in HeadsOf(kd),
         NEW i \in 0 .. Len(r[g]), NEW j \in 0 .. Len(r[h]),
         RingAt(g, r[g], i) = RingAt(h, r[h], j)
  PROVE  g = h /\ i = j
<1>1. /\ Len(r[g]) \in Nat /\ Len(r[h]) \in Nat /\ kd[g] = "head" /\ kd[h] = "head"
      /\ \A k \in 1 .. Len(r[g]) : kd[r[g][k]] # "head"
      /\ \A k \in 1 .. Len(r[h]) : kd[r[h][k]] # "head"
  BY RingsSound
<1>2. CASE i = 0
  <2>1. j = 0
    BY <1>1, <1>2 DEF RingAt
  <2> QED BY <1>1, <1>2, <2>1 DEF RingAt
<1>3. CASE i # 0
  <2>1. i \in 1 .. Len(r[g]) /\ RingAt(g, r[g], i) = r[g][i]
    BY <1>1, <1>3 DEF RingAt
  <2>2. j # 0
    BY <1>1, <2>1 DEF RingAt
  <2>3. j \in 1 .. Len(r[h]) /\ RingAt(h, r[h], j) = r[h][j]
    BY <1>1, <2>2 DEF RingAt
  <2>4. r[g][i] = r[h][j]
    BY <2>1, <2>3
  <2>5. \A a \in 1 .. Len(r[g]), b \in 1 .. Len(r[h]) : r[g][a] = r[h][b] => g = h /\ a = b
    BY DEF Whole
  <2> QED BY <2>1, <2>3, <2>4, <2>5
<1> QED BY <1>2, <1>3

\* Each node in use is at a place, a head behind its own ring.
LEMMA HasPlace ==
  ASSUME NEW kd, NEW nx, NEW pv, NEW r, Whole(kd, nx, pv, r), Pointers(kd, nx, pv),
         NEW n \in Nodes, kd[n] # "free"
  PROVE  \E h \in HeadsOf(kd) : \E p \in 1 .. Len(r[h]) + 1 :
            /\ RingAt(h, r[h], p) = n
            /\ InList(kd, n) => p \in 1 .. Len(r[h]) /\ r[h][p] = n
            /\ kd[n] = "head" => h = n /\ p = Len(r[h]) + 1
<1>1. CASE kd[n] = "head"
  <2>1. n \in HeadsOf(kd) /\ Len(r[n]) \in Nat
    BY <1>1, RingsSound DEF HeadsOf
  <2>2. RingAt(n, r[n], Len(r[n]) + 1) = n /\ Len(r[n]) + 1 \in 1 .. Len(r[n]) + 1 /\ ~InList(kd, n)
    BY <1>1, <2>1 DEF RingAt, InList
  <2> QED BY <2>1, <2>2
<1>2. CASE kd[n] # "head"
  <2>1. InList(kd, n)
    BY <1>2 DEF Pointers, NodeKinds, InList
  <2>2. PICK h \in HeadsOf(kd) : \E i \in 1 .. Len(r[h]) : r[h][i] = n
    BY <2>1 DEF Whole
  <2>3. PICK i \in 1 .. Len(r[h]) : r[h][i] = n
    BY <2>2
  <2>4. Len(r[h]) \in Nat
    BY RingsSound
  <2>5. i \in 1 .. Len(r[h]) + 1 /\ RingAt(h, r[h], i) = n
    BY <2>3, <2>4 DEF RingAt
  <2> QED BY <2>3, <2>5, <1>2
<1> QED BY <1>1, <1>2

\* The pointers at a place lead to the places beside it.
LEMMA Beside ==
  ASSUME NEW kd, NEW nx, NEW pv, NEW r, Whole(kd, nx, pv, r),
         NEW h \in HeadsOf(kd), NEW p \in 1 .. Len(r[h]) + 1
  PROVE  /\ pv[RingAt(h, r[h], p)] = RingAt(h, r[h], p - 1)
         /\ p <= Len(r[h]) => nx[RingAt(h, r[h], p)] = RingAt(h, r[h], p + 1)
         /\ \A i \in 0 .. Len(r[h]) + 1 : RingAt(h, r[h], i) \in Nodes /\ kd[RingAt(h, r[h], i)] # "free"
<1>0. Len(r[h]) \in Nat /\ kd[h] = "head" /\ h \in Nodes /\ \A i \in 1 .. Len(r[h]) : r[h][i] \in Nodes
  BY RingsSound
<1>1. Len(r[h]) \in Nat /\ Ringed(nx, pv, h, r[h]) /\ kd[h] = "head" /\ h \in Nodes
  BY <1>0 DEF Whole
<1>2. p - 1 \in 0 .. Len(r[h]) /\ (p - 1) + 1 = p
  BY <1>1
<1>3. \A i \in 1 .. Len(r[h]) : InList(kd, r[h][i]) /\ r[h][i] \in Nodes
  BY <1>0 DEF Whole
<1>4. pv[RingAt(h, r[h], p)] = RingAt(h, r[h], p - 1)
  BY <1>1, <1>2 DEF Ringed
<1>5. p <= Len(r[h]) => nx[RingAt(h, r[h], p)] = RingAt(h, r[h], p + 1)
  BY <1>1 DEF Ringed
<1> QED BY <1>1, <1>3, <1>4, <1>5 DEF RingAt, InList

\* dll_init: a ring of its own
Creates(kd, nx, pv, n, kd2, nx2, pv2) ==
    /\ kd2 = [kd EXCEPT ![n] = "head"]
    /\ nx2 = [nx EXCEPT ![n] = n] /\ pv2 = [pv EXCEPT ![n] = n]
Grown(kd, r, n) == [h \in HeadsOf(kd) \cup {n} |-> IF h = n THEN <<>> ELSE r[h]]
\* A list without nodes leaves the others whole.
LEMMA Created ==
  ASSUME NEW kd, NEW nx, NEW pv, NEW r, Whole(kd, nx, pv, r), Pointers(kd, nx, pv),
         NEW n \in Nodes, kd[n] = "free", NEW kd2, NEW nx2, NEW pv2, Creates(kd, nx, pv, n, kd2, nx2, pv2)
  PROVE  /\ Whole(kd2, nx2, pv2, Grown(kd, r, n))
         /\ Pointers(kd2, nx2, pv2)
         /\ HeadsOf(kd2) = HeadsOf(kd) \cup {n} /\ n \notin HeadsOf(kd)
<1> DEFINE r2 == [h \in HeadsOf(kd) \cup {n} |-> IF h = n THEN <<>> ELSE r[h]]
<1>b. r2 = Grown(kd, r, n)
  BY DEF Grown
<1>1. Pointers(kd2, nx2, pv2)
  BY DEF Pointers, NodeKinds, Creates
<1>2. /\ HeadsOf(kd2) = HeadsOf(kd) \cup {n} /\ n \notin HeadsOf(kd)
      /\ kd2[n] = "head" /\ nx2[n] = n /\ pv2[n] = n
      /\ \A m \in Nodes : m # n => kd2[m] = kd[m] /\ nx2[m] = nx[m] /\ pv2[m] = pv[m]
  BY DEF Pointers, HeadsOf, Creates
<1>3. \A h \in HeadsOf(kd) : r2[h] = r[h]
  BY <1>2
<1>4. r2[n] = <<>> /\ <<>> \in Seq(Nodes) /\ Len(<<>>) = 0
  OBVIOUS
<1>5. DOMAIN r2 = HeadsOf(kd2) /\ r2 = [h \in HeadsOf(kd2) |-> r2[h]]
  BY <1>2
<1> HIDE DEF r2
<1>6. r2 \in [HeadsOf(kd2) -> Seq(Nodes)]
  <2>1. \A h \in HeadsOf(kd2) : r2[h] \in Seq(Nodes)
    <3> TAKE h \in HeadsOf(kd2)
    <3>1. CASE h = n
      BY <3>1, <1>4
    <3>2. CASE h # n
      BY <3>2, <1>2, <1>3, RingsSound
    <3> QED BY <3>1, <3>2
  <2> QED BY <2>1, <1>5
<1>7. \A h \in HeadsOf(kd2) : Ringed(nx2, pv2, h, r2[h])
  <2> TAKE h \in HeadsOf(kd2)
  <2>1. CASE h = n
    BY <2>1, <1>2, <1>4 DEF Ringed, RingAt
  <2>2. CASE h # n
    <3>1. h \in HeadsOf(kd) /\ r2[h] = r[h]
      BY <1>2, <1>3, <2>2
    <3>2. Len(r[h]) \in Nat
      BY <3>1, RingsSound
    <3>3. \A i \in 0 .. Len(r[h]) : i + 1 \in 1 .. Len(r[h]) + 1 /\ i \in 0 .. Len(r[h]) + 1
                                    /\ i + 1 \in 0 .. Len(r[h]) + 1
      BY <3>2
    <3>4. \A i \in 0 .. Len(r[h]) + 1 : RingAt(h, r[h], i) \in Nodes /\ RingAt(h, r[h], i) # n
      <4>1. Len(r[h]) + 1 \in 1 .. Len(r[h]) + 1
        BY <3>2
      <4> QED BY <3>1, <4>1, Beside
    <3>5. Ringed(nx, pv, h, r[h])
      BY <3>1 DEF Whole
    <3> QED BY <3>1, <3>3, <3>4, <3>5, <1>2 DEF Ringed
  <2> QED BY <2>1, <2>2
<1>8. \A h \in HeadsOf(kd2) : \A i \in 1 .. Len(r2[h]) : h # n /\ h \in HeadsOf(kd) /\ r2[h] = r[h]
  BY <1>2, <1>3, <1>4
<1>a. \A h \in HeadsOf(kd) : \A i \in 1 .. Len(r[h]) : r[h][i] \in Nodes
  BY RingsSound
<1>9. \A h \in HeadsOf(kd2) : \A i \in 1 .. Len(r2[h]) : InList(kd2, r2[h][i])
  BY <1>2, <1>8, <1>a DEF Whole, InList
<1>10. \A g, h \in HeadsOf(kd2) : \A i \in 1 .. Len(r2[g]), j \in 1 .. Len(r2[h]) :
          r2[g][i] = r2[h][j] => g = h /\ i = j
  BY <1>8 DEF Whole
<1>11. \A m \in Nodes : InList(kd2, m) => \E h \in HeadsOf(kd2) : \E i \in 1 .. Len(r2[h]) : r2[h][i] = m
  <2> TAKE m \in Nodes
  <2> HAVE InList(kd2, m)
  <2>1. m # n /\ InList(kd, m)
    BY <1>2 DEF InList
  <2>2. PICK h \in HeadsOf(kd) : \E i \in 1 .. Len(r[h]) : r[h][i] = m
    BY <2>1 DEF Whole
  <2> QED BY <2>2, <1>2, <1>3
<1>12. Whole(kd2, nx2, pv2, r2)
  BY <1>6, <1>7, <1>9, <1>10, <1>11 DEF Whole
<1> QED BY <1>1, <1>2, <1>12, <1>b

\* Two sequences behind one another
LEMMA ConcatIs ==
  ASSUME NEW S, NEW a \in Seq(S), NEW b \in Seq(S)
  PROVE  /\ (a \o b) \in Seq(S) /\ Len(a \o b) = Len(a) + Len(b)
         /\ Len(a) \in Nat /\ Len(b) \in Nat
         /\ \A i \in 1 .. Len(a) + Len(b) : (a \o b)[i] = IF i <= Len(a) THEN a[i] ELSE b[i - Len(a)]
OBVIOUS

\* InsertAt and RemoveAt, place by place
MayGo(S, s, p, e) == s \in Seq(S) /\ p \in 1 .. Len(s) + 1 /\ e \in S
LEMMA InsertAtIs ==
  ASSUME NEW S, NEW s, NEW p, NEW e, MayGo(S, s, p, e)
  PROVE  /\ InsertAt(s, p, e) \in Seq(S) /\ Len(InsertAt(s, p, e)) = Len(s) + 1
         /\ \A i \in 1 .. Len(s) + 1 : InsertAt(s, p, e)[i] =
                IF i < p THEN s[i] ELSE IF i = p THEN e ELSE s[i - 1]
<1> DEFINE a == SubSeq(s, 1, p - 1)
           b == SubSeq(s, p, Len(s))
<1>0. Len(s) \in Nat /\ p \in Nat /\ p - 1 <= Len(s) /\ p >= 1 /\ p \in 1 .. Len(s) + 1 /\ s \in Seq(S) /\ e \in S
  BY DEF MayGo
<1>1. a \in Seq(S) /\ Len(a) = p - 1 /\ \A i \in 1 .. p - 1 : a[i] = s[i]
  BY <1>0
<1>2. b \in Seq(S) /\ Len(b) = Len(s) + 1 - p /\ \A i \in 1 .. Len(s) + 1 - p : b[i] = s[p + i - 1]
  BY <1>0
<1>3. InsertAt(s, p, e) = a \o <<e>> \o b
  BY DEF InsertAt
<1> HIDE DEF a, b
<1> DEFINE c == a \o <<e>>
           d == c \o b
<1>4. <<e>> \in Seq(S) /\ Len(<<e>>) = 1 /\ <<e>>[1] = e
  BY <1>0
<1>5. c \in Seq(S) /\ Len(c) = p /\ \A i \in 1 .. p : c[i] = IF i < p THEN s[i] ELSE e
  <2>1. /\ c \in Seq(S) /\ Len(c) = Len(a) + 1
        /\ \A i \in 1 .. Len(a) + 1 : c[i] = IF i <= Len(a) THEN a[i] ELSE <<e>>[i - Len(a)]
    BY <1>1, <1>4, ConcatIs
  <2> HIDE DEF c
  <2> QED BY <2>1, <1>0, <1>1, <1>4
<1>6. /\ d \in Seq(S) /\ Len(d) = Len(c) + Len(b)
      /\ \A i \in 1 .. Len(c) + Len(b) : d[i] = IF i <= Len(c) THEN c[i] ELSE b[i - Len(c)]
  <2> HIDE DEF c
  <2> QED BY <1>2, <1>5, ConcatIs
<1> HIDE DEF c, d
<1>7. \A i \in 1 .. Len(s) + 1 : d[i] = IF i < p THEN s[i] ELSE IF i = p THEN e ELSE s[i - 1]
  <2> TAKE i \in 1 .. Len(s) + 1
  <2>0. d[i] = IF i <= p THEN c[i] ELSE b[i - p]
    BY <1>0, <1>2, <1>5, <1>6
  <2>1. CASE i <= p
    BY <2>0, <2>1, <1>0, <1>5
  <2>2. CASE i > p
    <3>1. d[i] = b[i - p] /\ i - p \in 1 .. Len(s) + 1 - p
      BY <2>0, <2>2, <1>0
    <3>2. b[i - p] = s[p + (i - p) - 1] /\ p + (i - p) - 1 = i - 1
      BY <3>1, <1>0, <1>2
    <3> QED BY <3>1, <3>2, <2>2, <1>0
  <2> QED BY <2>1, <2>2, <1>0
<1>8. d \in Seq(S) /\ Len(d) = Len(s) + 1
  BY <1>0, <1>2, <1>5, <1>6
<1>9. InsertAt(s, p, e) = d
  BY <1>3 DEF c, d
<1> QED BY <1>7, <1>8, <1>9

\* What is behind the place moves up.
LEMMA RemoveAtIs ==
  ASSUME NEW S, NEW s \in Seq(S), NEW p \in 1 .. Len(s)
  PROVE  /\ RemoveAt(s, p) \in Seq(S) /\ Len(RemoveAt(s, p)) = Len(s) - 1
         /\ \A i \in 1 .. Len(s) - 1 : RemoveAt(s, p)[i] = IF i < p THEN s[i] ELSE s[i + 1]
<1> DEFINE a == SubSeq(s, 1, p - 1)
           b == SubSeq(s, p + 1, Len(s))
<1>0. Len(s) \in Nat /\ p \in Nat /\ p <= Len(s) /\ p >= 1
  OBVIOUS
<1>1. a \in Seq(S) /\ Len(a) = p - 1 /\ \A i \in 1 .. p - 1 : a[i] = s[i]
  BY <1>0
<1>2. b \in Seq(S) /\ Len(b) = Len(s) - p /\ \A i \in 1 .. Len(s) - p : b[i] = s[p + i]
  BY <1>0
<1>3. RemoveAt(s, p) = a \o b
  BY DEF RemoveAt
<1> HIDE DEF a, b
<1> DEFINE d == a \o b
<1>6. /\ d \in Seq(S) /\ Len(d) = Len(a) + Len(b)
      /\ \A i \in 1 .. Len(a) + Len(b) : d[i] = IF i <= Len(a) THEN a[i] ELSE b[i - Len(a)]
  BY <1>1, <1>2, ConcatIs
<1> HIDE DEF d
<1>4. d \in Seq(S) /\ Len(d) = Len(s) - 1
  BY <1>0, <1>1, <1>2, <1>6
<1>5. \A i \in 1 .. Len(s) - 1 : d[i] = IF i < p THEN s[i] ELSE s[i + 1]
  <2> TAKE i \in 1 .. Len(s) - 1
  <2>0. d[i] = IF i <= p - 1 THEN a[i] ELSE b[i - (p - 1)]
    BY <1>0, <1>1, <1>2, <1>6
  <2>1. CASE i < p
    BY <2>0, <2>1, <1>0, <1>1
  <2>2. CASE i >= p
    <3>1. d[i] = b[i - (p - 1)] /\ i - (p - 1) \in 1 .. Len(s) - p
      BY <2>0, <2>2, <1>0
    <3>2. b[i - (p - 1)] = s[p + (i - (p - 1))] /\ p + (i - (p - 1)) = i + 1
      BY <3>1, <1>0, <1>2
    <3> QED BY <3>1, <3>2, <2>2, <1>0
  <2> QED BY <2>1, <2>2, <1>0
<1> QED BY <1>3, <1>4, <1>5 DEF d

\* The same, with the head counted last
LEMMA OnePlaceLast ==
  ASSUME NEW kd, NEW nx, NEW pv, NEW r, Whole(kd, nx, pv, r),
         NEW g \in HeadsOf(kd), NEW h \in HeadsOf(kd),
         NEW i \in 1 .. Len(r[g]) + 1, NEW j \in 1 .. Len(r[h]) + 1,
         RingAt(g, r[g], i) = RingAt(h, r[h], j)
  PROVE  g = h /\ i = j
<1> DEFINE a == IF i = Len(r[g]) + 1 THEN 0 ELSE i
           b == IF j = Len(r[h]) + 1 THEN 0 ELSE j
<1>1. Len(r[g]) \in Nat /\ Len(r[h]) \in Nat
  BY RingsSound
<1>2. a \in 0 .. Len(r[g]) /\ b \in 0 .. Len(r[h])
  BY <1>1
<1>3. RingAt(g, r[g], a) = RingAt(g, r[g], i) /\ RingAt(h, r[h], b) = RingAt(h, r[h], j)
  BY <1>1 DEF RingAt
<1>4. g = h /\ a = b
  <2> HIDE DEF a, b
  <2> QED BY <1>2, <1>3, OnePlace
<1> QED BY <1>1, <1>4

\* dll_insert: a node more, at the place of the one it is put before
Inserts(kd, nx, pv, h, s, p, n, kd2, nx2, pv2) ==
    LET q == RingAt(h, s, p) IN
    /\ kd2 = [kd EXCEPT ![n] = "none"]
    /\ nx2 = [nx EXCEPT ![n] = q, ![pv[q]] = n]
    /\ pv2 = [pv EXCEPT ![n] = pv[q], ![q] = n]
\* The ring is whole with the node, and the other rings are what they were.
LEMMA Inserted ==
  ASSUME NEW kd, NEW nx, NEW pv, NEW r, Whole(kd, nx, pv, r), Pointers(kd, nx, pv),
         NEW n \in Nodes, kd[n] = "free", NEW h \in HeadsOf(kd), NEW p \in 1 .. Len(r[h]) + 1,
         NEW kd2, NEW nx2, NEW pv2, Inserts(kd, nx, pv, h, r[h], p, n, kd2, nx2, pv2)
  PROVE  /\ Whole(kd2, nx2, pv2, [r EXCEPT ![h] = InsertAt(r[h], p, n)])
         /\ Pointers(kd2, nx2, pv2)
         /\ HeadsOf(kd2) = HeadsOf(kd)
<1> DEFINE s == r[h]
           t == InsertAt(s, p, n)
           r2 == [r EXCEPT ![h] = t]
           q == RingAt(h, s, p)
           o == RingAt(h, s, p - 1)
<1>1. /\ s \in Seq(Nodes) /\ Len(s) \in Nat /\ p \in Nat /\ h \in Nodes /\ kd[h] = "head"
      /\ p - 1 \in 0 .. Len(s)
  BY RingsSound
<1>2. /\ pv[q] = o /\ q \in Nodes /\ o \in Nodes /\ q # n /\ o # n
      /\ \A i \in 0 .. Len(s) + 1 : RingAt(h, s, i) # n
  <2>1. \A i \in 0 .. Len(s) + 1 : RingAt(h, s, i) \in Nodes /\ kd[RingAt(h, s, i)] # "free"
    BY Beside
  <2>2. pv[q] = o
    BY Beside
  <2>3. p \in 0 .. Len(s) + 1 /\ p - 1 \in 0 .. Len(s) + 1
    BY <1>1
  <2> HIDE DEF s
  <2> QED BY <2>1, <2>2, <2>3
<1>3. /\ kd2 = [kd EXCEPT ![n] = "none"]
      /\ nx2 = [nx EXCEPT ![n] = q, ![o] = n]
      /\ pv2 = [pv EXCEPT ![n] = o, ![q] = n]
  BY <1>2 DEF Inserts
<1>4. /\ t \in Seq(Nodes) /\ Len(t) = Len(s) + 1
      /\ \A i \in 1 .. Len(s) + 1 : t[i] = IF i < p THEN s[i] ELSE IF i = p THEN n ELSE s[i - 1]
  <2> HIDE DEF s
  <2>1. s \in Seq(Nodes) /\ Len(s) \in Nat /\ p \in Nat /\ p - 1 \in 0 .. Len(s) /\ n \in Nodes
    BY <1>1
  <2>2. MayGo(Nodes, s, p, n)
    BY <2>1 DEF MayGo
  <2> QED BY <2>2, InsertAtIs
<1>5. /\ \A i \in 0 .. p - 1 : RingAt(h, t, i) = RingAt(h, s, i)
      /\ \A i \in p .. p : RingAt(h, t, i) = n
      /\ \A i \in p .. Len(s) + 1 : RingAt(h, t, i + 1) = RingAt(h, s, i)
  <2>1. p >= 1 /\ p <= Len(s) + 1
    OBVIOUS
  <2> HIDE DEF s, t
  <2>2. \A i \in 0 .. p - 1 : RingAt(h, t, i) = RingAt(h, s, i)
    BY <1>1, <1>4, <2>1 DEF RingAt
  <2>3. \A i \in p .. p : RingAt(h, t, i) = n
    BY <1>1, <1>4, <2>1 DEF RingAt
  <2>4. \A i \in p .. Len(s) + 1 : RingAt(h, t, i + 1) = RingAt(h, s, i)
    <3> TAKE i \in p .. Len(s) + 1
    <3>1. CASE i = Len(s) + 1
      BY <3>1, <2>1, <1>1, <1>4 DEF RingAt
    <3>2. CASE i # Len(s) + 1
      <4>1. i \in 1 .. Len(s) /\ i + 1 \in 1 .. Len(s) + 1 /\ t[i + 1] = s[i]
        BY <3>2, <2>1, <1>1, <1>4
      <4> QED BY <4>1, <1>1, <1>4 DEF RingAt
    <3> QED BY <3>1, <3>2
  <2> QED BY <2>2, <2>3, <2>4
<1>6. r2[h] = t /\ \A g \in HeadsOf(kd) : g # h => r2[g] = r[g]
  BY DEF Whole
<1>7. DOMAIN r2 = HeadsOf(kd) /\ r2 = [g \in HeadsOf(kd) |-> r2[g]]
  BY DEF Whole
<1> HIDE DEF t, r2, q, o
<1>8. Pointers(kd2, nx2, pv2)
  BY <1>2, <1>3 DEF Pointers, NodeKinds
<1>9. /\ HeadsOf(kd2) = HeadsOf(kd) /\ kd2[n] = "none"
      /\ \A m \in Nodes : m # n => kd2[m] = kd[m]
  BY <1>3 DEF Pointers, HeadsOf
<1>10. /\ nx2[n] = q /\ nx2[o] = n /\ \A m \in Nodes : m # n /\ m # o => nx2[m] = nx[m]
       /\ pv2[n] = o /\ pv2[q] = n /\ \A m \in Nodes : m # n /\ m # q => pv2[m] = pv[m]
  BY <1>2, <1>3 DEF Pointers
<1>11. r2 \in [HeadsOf(kd2) -> Seq(Nodes)]
  <2>1. \A g \in HeadsOf(kd) : r2[g] \in Seq(Nodes)
    BY <1>4, <1>6, RingsSound
  <2> QED BY <2>1, <1>7, <1>9
<1>12. \A g \in HeadsOf(kd) : g # h => Ringed(nx2, pv2, g, r2[g])
  <2> SUFFICES ASSUME NEW g \in HeadsOf(kd), g # h
               PROVE  Ringed(nx2, pv2, g, r[g])
    BY <1>6
  <2>1. Len(r[g]) \in Nat
    BY RingsSound
  <2>2. \A i \in 0 .. Len(r[g]) + 1 : RingAt(g, r[g], i) \in Nodes /\ RingAt(g, r[g], i) # n
    <3>1. Len(r[g]) + 1 \in 1 .. Len(r[g]) + 1
      BY <2>1
    <3> QED BY <3>1, Beside
  <2>3. \A i \in 0 .. Len(r[g]) : RingAt(g, r[g], i) # o
    BY <1>1, OnePlace DEF o
  <2>4. \A i \in 1 .. Len(r[g]) + 1 : RingAt(g, r[g], i) # q
    BY <1>1, OnePlaceLast DEF q
  <2>5. Ringed(nx, pv, g, r[g])
    BY DEF Whole
  <2> QED BY <2>1, <2>2, <2>3, <2>4, <2>5, <1>10 DEF Ringed
<1>13. Ringed(nx2, pv2, h, t)
  <2> SUFFICES ASSUME NEW i \in 0 .. Len(s) + 1
               PROVE  /\ nx2[RingAt(h, t, i)] = RingAt(h, t, i + 1)
                      /\ pv2[RingAt(h, t, i + 1)] = RingAt(h, t, i)
    BY <1>4 DEF Ringed
  <2>1. \A j \in 0 .. Len(s) + 1 : RingAt(h, s, j) \in Nodes /\ RingAt(h, s, j) # n
    BY <1>2, Beside
  <2>2. \A j \in 0 .. Len(s) : RingAt(h, s, j) = o => j = p - 1
    BY <1>1, OnePlace DEF o
  <2>3. \A j \in 1 .. Len(s) + 1 : RingAt(h, s, j) = q => j = p
    BY <1>1, OnePlaceLast DEF q
  <2>4. Ringed(nx, pv, h, s)
    BY DEF Whole
  <2>5. \A j \in 0 .. Len(s) : j # p - 1 => /\ nx2[RingAt(h, s, j)] = RingAt(h, s, j + 1)
                                            /\ pv2[RingAt(h, s, j + 1)] = RingAt(h, s, j)
    <3> SUFFICES ASSUME NEW j \in 0 .. Len(s), j # p - 1
                 PROVE  /\ nx2[RingAt(h, s, j)] = RingAt(h, s, j + 1)
                        /\ pv2[RingAt(h, s, j + 1)] = RingAt(h, s, j)
      OBVIOUS
    <3>1. RingAt(h, s, j) # o /\ RingAt(h, s, j) # n /\ RingAt(h, s, j) \in Nodes
      BY <1>1, <2>1, <2>2
    <3>2. RingAt(h, s, j + 1) # q /\ RingAt(h, s, j + 1) # n /\ RingAt(h, s, j + 1) \in Nodes
      BY <1>1, <2>1, <2>3
    <3> QED BY <3>1, <3>2, <2>4, <1>10 DEF Ringed
  <2>6. CASE i < p - 1
    <3>1. i \in 0 .. Len(s) /\ i + 1 \in 0 .. p - 1 /\ i \in 0 .. p - 1 /\ i # p - 1
      BY <2>6, <1>1
    <3> QED BY <3>1, <2>5, <1>5
  <2>7. CASE i = p - 1
    <3>1. RingAt(h, t, i) = o /\ i + 1 = p
      BY <2>7, <1>1, <1>5 DEF o
    <3> QED BY <3>1, <1>5, <1>10
  <2>8. CASE i = p
    <3>1. RingAt(h, t, i + 1) = q
      BY <2>8, <1>1, <1>5 DEF q
    <3> QED BY <3>1, <2>8, <1>5, <1>10
  <2>9. CASE i > p
    <3> DEFINE j == i - 1
    <3>1. j \in 0 .. Len(s) /\ j \in p .. Len(s) + 1 /\ j + 1 \in p .. Len(s) + 1 /\ j # p - 1 /\ i = j + 1
      BY <2>9, <1>1
    <3> HIDE DEF j
    <3>2. RingAt(h, t, i) = RingAt(h, s, j) /\ RingAt(h, t, i + 1) = RingAt(h, s, j + 1)
      BY <3>1, <1>5
    <3> QED BY <3>1, <3>2, <2>5
  <2> QED BY <2>6, <2>7, <2>8, <2>9, <1>1
<1>14. \A g \in HeadsOf(kd) : \A i \in 1 .. Len(r2[g]) :
          r2[g][i] # n => \E j \in 1 .. Len(r[g]) : r[g][j] = r2[g][i] /\ InList(kd, r2[g][i])
  <2> SUFFICES ASSUME NEW g \in HeadsOf(kd), NEW i \in 1 .. Len(r2[g]), r2[g][i] # n
               PROVE  \E j \in 1 .. Len(r[g]) : r[g][j] = r2[g][i]
    BY DEF Whole
  <2>1. CASE g # h
    BY <2>1, <1>6
  <2>2. CASE g = h
    <3>1. i \in 1 .. Len(s) + 1 /\ r2[g][i] = t[i] /\ i # p
      BY <2>2, <1>4, <1>6
    <3>2. CASE i < p
      BY <3>1, <3>2, <2>2, <1>1, <1>4
    <3>3. CASE i > p
      <4>1. i - 1 \in 1 .. Len(s) /\ t[i] = s[i - 1]
        BY <3>1, <3>3, <1>1, <1>4
      <4> QED BY <4>1, <3>1, <2>2
    <3> QED BY <3>1, <3>2, <3>3, <1>1
  <2> QED BY <2>1, <2>2
<1>15. \A g \in HeadsOf(kd2) : \A i \in 1 .. Len(r2[g]) : InList(kd2, r2[g][i])
  <2> SUFFICES ASSUME NEW g \in HeadsOf(kd), NEW i \in 1 .. Len(r2[g])
               PROVE  InList(kd2, r2[g][i])
    BY <1>9
  <2>1. r2[g][i] \in Nodes
    BY <1>9, <1>11
  <2> QED BY <2>1, <1>9, <1>14 DEF InList
<1>16. \A e, g \in HeadsOf(kd2) : \A i \in 1 .. Len(r2[e]), j \in 1 .. Len(r2[g]) :
          r2[e][i] = r2[g][j] => e = g /\ i = j
  <2>0. \A e, g \in HeadsOf(kd) : \A i \in 1 .. Len(r[e]), j \in 1 .. Len(r[g]) :
          r[e][i] = r[g][j] => e = g /\ i = j
    BY DEF Whole
  <2>a. \A e \in HeadsOf(kd) : Len(r2[e]) \in Nat /\ \A i \in 1 .. Len(r[e]) : r[e][i] # n
    <3>1. \A e \in HeadsOf(kd) : \A i \in 1 .. Len(r[e]) : InList(kd, r[e][i])
      BY DEF Whole
    <3>2. \A e \in HeadsOf(kd) : Len(r2[e]) \in Nat
      BY <1>9, <1>11
    <3> QED BY <3>1, <3>2 DEF InList
  <2> DEFINE Old(i) == IF i < p THEN i ELSE i - 1
  <2>1. \A i \in 1 .. Len(t) : i # p => Old(i) \in 1 .. Len(s) /\ t[i] = s[Old(i)]
    BY <1>1, <1>4
  <2>2. \A i, j \in 1 .. Len(t) : i # p /\ j # p /\ Old(i) = Old(j) => i = j
    BY <1>1
  <2>3. t[p] = n
    BY <1>1, <1>4
  <2> HIDE DEF Old
  <2>4. \A i, j \in 1 .. Len(t) : t[i] = t[j] => i = j
    <3> SUFFICES ASSUME NEW i \in 1 .. Len(t), NEW j \in 1 .. Len(t), t[i] = t[j]
                 PROVE  i = j
      OBVIOUS
    <3>1. CASE i # p /\ j # p
      BY <3>1, <2>0, <2>1, <2>2
    <3>2. CASE i = p \/ j = p
      BY <3>2, <2>1, <2>3, <2>a
    <3> QED BY <3>1, <3>2
  <2>5. \A g \in HeadsOf(kd) : g # h => \A i \in 1 .. Len(t), j \in 1 .. Len(r[g]) : t[i] # r[g][j]
    <3> SUFFICES ASSUME NEW g \in HeadsOf(kd), g # h, NEW i \in 1 .. Len(t), NEW j \in 1 .. Len(r[g]), t[i] = r[g][j]
                 PROVE  FALSE
      OBVIOUS
    <3>1. CASE i = p
      BY <3>1, <2>3, <2>a
    <3>2. CASE i # p
      BY <3>2, <2>0, <2>1
    <3> QED BY <3>1, <3>2
  <2> SUFFICES ASSUME NEW e \in HeadsOf(kd), NEW g \in HeadsOf(kd),
                      NEW i \in 1 .. Len(r2[e]), NEW j \in 1 .. Len(r2[g]), r2[e][i] = r2[g][j]
               PROVE  e = g /\ i = j
    BY <1>9
  <2>6. CASE e = h /\ g = h
    BY <2>4, <2>6, <1>6
  <2>7. CASE e = h /\ g # h
    BY <2>5, <2>7, <1>6
  <2>8. CASE e # h /\ g = h
    BY <2>5, <2>8, <1>6
  <2>9. CASE e # h /\ g # h
    BY <2>0, <2>9, <1>6
  <2> QED BY <2>6, <2>7, <2>8, <2>9
<1>17. \A m \in Nodes : InList(kd2, m) => \E g \in HeadsOf(kd2) : \E i \in 1 .. Len(r2[g]) : r2[g][i] = m
  <2> SUFFICES ASSUME NEW m \in Nodes, InList(kd2, m)
               PROVE  \E g \in HeadsOf(kd) : \E i \in 1 .. Len(r2[g]) : r2[g][i] = m
    BY <1>9
  <2>1. CASE m = n
    <3>1. p \in 1 .. Len(t) /\ t[p] = n
      BY <1>1, <1>4
    <3> QED BY <3>1, <2>1, <1>6
  <2>2. CASE m # n
    <3>1. InList(kd, m)
      BY <2>2, <1>9 DEF InList
    <3>2. PICK g \in HeadsOf(kd) : \E i \in 1 .. Len(r[g]) : r[g][i] = m
      BY <3>1 DEF Whole
    <3>3. PICK i \in 1 .. Len(r[g]) : r[g][i] = m
      BY <3>2
    <3>4. CASE g # h
      BY <3>3, <3>4, <1>6
    <3>5. CASE g = h
      <4>1. CASE i < p
        <5>1. i \in 1 .. Len(t) /\ t[i] = m
          BY <4>1, <3>3, <3>5, <1>1, <1>4
        <5> QED BY <5>1, <1>6
      <4>2. CASE i >= p
        <5>1. i + 1 \in 1 .. Len(t) /\ t[i + 1] = s[(i + 1) - 1] /\ (i + 1) - 1 = i
          BY <4>2, <3>3, <3>5, <1>1, <1>4
        <5> QED BY <5>1, <3>3, <3>5, <1>6
      <4> QED BY <4>1, <4>2, <1>1
    <3> QED BY <3>4, <3>5
  <2> QED BY <2>1, <2>2
<1>18. \A g \in HeadsOf(kd2) : Ringed(nx2, pv2, g, r2[g])
  BY <1>6, <1>9, <1>12, <1>13
<1>19. Whole(kd2, nx2, pv2, r2)
  BY <1>11, <1>15, <1>16, <1>17, <1>18 DEF Whole
<1> QED BY <1>8, <1>9, <1>19 DEF r2, t

\* dll_disconnect_node and the free: a node less
Removes(kd, nx, pv, n, kd2, nx2, pv2) ==
    /\ kd2 = [kd EXCEPT ![n] = "free"]
    /\ nx2 = [nx EXCEPT ![pv[n]] = nx[n], ![n] = Nil]
    /\ pv2 = [pv EXCEPT ![nx[n]] = pv[n], ![n] = Nil]
\* The ring is whole without the node, and the other rings are what they were.
LEMMA Removed ==
  ASSUME NEW kd, NEW nx, NEW pv, NEW r, Whole(kd, nx, pv, r), Pointers(kd, nx, pv),
         NEW h \in HeadsOf(kd), NEW p \in 1 .. Len(r[h]),
         NEW kd2, NEW nx2, NEW pv2, Removes(kd, nx, pv, r[h][p], kd2, nx2, pv2)
  PROVE  /\ Whole(kd2, nx2, pv2, [r EXCEPT ![h] = RemoveAt(r[h], p)])
         /\ Pointers(kd2, nx2, pv2)
         /\ HeadsOf(kd2) = HeadsOf(kd)
<1> DEFINE s == r[h]
           n == s[p]
           t == RemoveAt(s, p)
           r2 == [r EXCEPT ![h] = t]
           o == RingAt(h, s, p - 1)
           q == RingAt(h, s, p + 1)
<1>1. /\ s \in Seq(Nodes) /\ Len(s) \in Nat /\ p \in Nat /\ h \in Nodes /\ kd[h] = "head"
      /\ p >= 1 /\ p <= Len(s)
  BY RingsSound
<1>2. /\ pv[n] = o /\ nx[n] = q /\ n \in Nodes /\ o \in Nodes /\ q \in Nodes
      /\ RingAt(h, s, p) = n
      /\ \A i \in 0 .. Len(s) + 1 : RingAt(h, s, i) \in Nodes
  <2>1. \A i \in 0 .. Len(s) + 1 : RingAt(h, s, i) \in Nodes
    <3>1. p \in 1 .. Len(r[h]) + 1
      BY <1>1
    <3> QED BY <3>1, Beside
  <2>2. pv[RingAt(h, s, p)] = o /\ nx[RingAt(h, s, p)] = q
    <3>1. p \in 1 .. Len(r[h]) + 1 /\ p <= Len(r[h])
      BY <1>1
    <3> QED BY <3>1, Beside
  <2>3. p - 1 \in 0 .. Len(s) + 1 /\ p + 1 \in 0 .. Len(s) + 1 /\ p \in 0 .. Len(s) + 1
    BY <1>1
  <2>4. RingAt(h, s, p) = n
    BY DEF RingAt
  <2> HIDE DEF s, n
  <2> QED BY <2>1, <2>2, <2>3, <2>4
<1>3. /\ kd2 = [kd EXCEPT ![n] = "free"]
      /\ nx2 = [nx EXCEPT ![o] = q, ![n] = Nil]
      /\ pv2 = [pv EXCEPT ![q] = o, ![n] = Nil]
  BY <1>2 DEF Removes
<1>4. /\ t \in Seq(Nodes) /\ Len(t) = Len(s) - 1
      /\ \A i \in 1 .. Len(s) - 1 : t[i] = IF i < p THEN s[i] ELSE s[i + 1]
  <2>1. p \in 1 .. Len(s)
    OBVIOUS
  <2> HIDE DEF s
  <2> QED BY <1>1, <2>1, RemoveAtIs
<1>5. /\ \A i \in 0 .. p - 1 : RingAt(h, t, i) = RingAt(h, s, i)
      /\ \A i \in p .. Len(s) : RingAt(h, t, i) = RingAt(h, s, i + 1)
  <2> HIDE DEF s, t
  <2>1. \A i \in 0 .. p - 1 : RingAt(h, t, i) = RingAt(h, s, i)
    <3> TAKE i \in 0 .. p - 1
    <3>1. CASE i = 0
      BY <3>1, <1>1, <1>4 DEF RingAt
    <3>2. CASE i # 0
      <4>1. i \in 1 .. Len(s) - 1 /\ i \in 1 .. Len(s) /\ t[i] = s[i]
        BY <3>2, <1>1, <1>4
      <4> QED BY <4>1, <1>1, <1>4 DEF RingAt
    <3> QED BY <3>1, <3>2
  <2>2. \A i \in p .. Len(s) : RingAt(h, t, i) = RingAt(h, s, i + 1)
    <3> TAKE i \in p .. Len(s)
    <3>1. CASE i = Len(s)
      BY <3>1, <1>1, <1>4 DEF RingAt
    <3>2. CASE i # Len(s)
      <4>1. i \in 1 .. Len(s) - 1 /\ i + 1 \in 1 .. Len(s) /\ t[i] = s[i + 1]
        BY <3>2, <1>1, <1>4
      <4> QED BY <4>1, <1>1, <1>4 DEF RingAt
    <3> QED BY <3>1, <3>2
  <2> QED BY <2>1, <2>2
<1>6. r2[h] = t /\ \A g \in HeadsOf(kd) : g # h => r2[g] = r[g]
  BY DEF Whole
<1>7. DOMAIN r2 = HeadsOf(kd) /\ r2 = [g \in HeadsOf(kd) |-> r2[g]]
  BY DEF Whole
<1>8. InList(kd, n) /\ n # h
  BY <1>1, <1>2 DEF Whole, InList
<1>20. /\ o # n /\ q # n
  <2>1. p - 1 \in 0 .. Len(s) /\ p \in 0 .. Len(s) /\ p + 1 \in 1 .. Len(s) + 1 /\ p \in 1 .. Len(s) + 1
    BY <1>1
  <2>2. o # n
    <3>1. RingAt(h, s, p - 1) = RingAt(h, s, p) => p - 1 = p
      BY <2>1, OnePlace
    <3> HIDE DEF n
    <3> QED BY <3>1, <1>1, <1>2
  <2>3. q # n
    <3>1. RingAt(h, s, p + 1) = RingAt(h, s, p) => p + 1 = p
      BY <2>1, OnePlaceLast
    <3> HIDE DEF n
    <3> QED BY <3>1, <1>1, <1>2
  <2> QED BY <2>2, <2>3
<1>21. /\ \A g \in HeadsOf(kd), j \in Nat : j <= Len(r[g]) /\ RingAt(g, r[g], j) = o => g = h /\ j = p - 1
       /\ \A g \in HeadsOf(kd), j \in Nat : j <= Len(r[g]) /\ RingAt(g, r[g], j) = n => g = h /\ j = p
       /\ \A g \in HeadsOf(kd), j \in Nat : j <= Len(r[g]) /\ RingAt(g, r[g], j + 1) = q => g = h /\ j = p
       /\ \A g \in HeadsOf(kd), j \in Nat : j <= Len(r[g]) /\ RingAt(g, r[g], j + 1) = n => g = h /\ j = p - 1
  <2>1. p - 1 \in 0 .. Len(s) /\ p \in 0 .. Len(s) /\ p + 1 \in 1 .. Len(s) + 1 /\ p \in 1 .. Len(s) + 1
    BY <1>1
  <2> SUFFICES ASSUME NEW g \in HeadsOf(kd), NEW j \in Nat, j <= Len(r[g])
               PROVE  /\ RingAt(g, r[g], j) = o => g = h /\ j = p - 1
                      /\ RingAt(g, r[g], j) = n => g = h /\ j = p
                      /\ RingAt(g, r[g], j + 1) = q => g = h /\ j = p
                      /\ RingAt(g, r[g], j + 1) = n => g = h /\ j = p - 1
    OBVIOUS
  <2>2. Len(r[g]) \in Nat
    BY RingsSound
  <2>3. j \in 0 .. Len(r[g]) /\ j + 1 \in 1 .. Len(r[g]) + 1
    BY <2>2
  <2>4. RingAt(g, r[g], j) = RingAt(h, s, p - 1) => g = h /\ j = p - 1
    BY <2>1, <2>3, OnePlace
  <2>5. RingAt(g, r[g], j) = RingAt(h, s, p) => g = h /\ j = p
    BY <2>1, <2>3, OnePlace
  <2>6. RingAt(g, r[g], j + 1) = RingAt(h, s, p + 1) => g = h /\ j + 1 = p + 1
    BY <2>1, <2>3, OnePlaceLast
  <2>7. RingAt(g, r[g], j + 1) = RingAt(h, s, p) => g = h /\ j + 1 = p
    BY <2>1, <2>3, OnePlaceLast
  <2>8. j \in Nat /\ p \in Nat /\ RingAt(h, s, p) = n
    BY <1>1, <1>2
  <2>9. (j + 1 = p + 1 => j = p) /\ (j + 1 = p => j = p - 1)
    BY <2>8
  <2> HIDE DEF s, n
  <2> QED BY <2>4, <2>5, <2>6, <2>7, <2>8, <2>9
<1> HIDE DEF t, r2, q, o, n
<1>9. Pointers(kd2, nx2, pv2)
  BY <1>2, <1>3 DEF Pointers, NodeKinds
<1>10. /\ HeadsOf(kd2) = HeadsOf(kd) /\ kd2[n] = "free"
       /\ \A m \in Nodes : m # n => kd2[m] = kd[m]
  BY <1>2, <1>3, <1>8 DEF Pointers, HeadsOf, InList
<1>11. /\ nx2[o] = q /\ \A m \in Nodes : m # n /\ m # o => nx2[m] = nx[m]
       /\ pv2[q] = o /\ \A m \in Nodes : m # n /\ m # q => pv2[m] = pv[m]
  BY <1>2, <1>3, <1>20 DEF Pointers
<1>12. r2 \in [HeadsOf(kd2) -> Seq(Nodes)]
  <2>1. \A g \in HeadsOf(kd) : r2[g] \in Seq(Nodes)
    BY <1>4, <1>6, RingsSound
  <2> QED BY <2>1, <1>7, <1>10
<1>13. \A g \in HeadsOf(kd), j \in Nat : j <= Len(r[g]) /\ ~(g = h /\ j \in {p - 1, p}) =>
          /\ nx2[RingAt(g, r[g], j)] = RingAt(g, r[g], j + 1)
          /\ pv2[RingAt(g, r[g], j + 1)] = RingAt(g, r[g], j)
  <2> SUFFICES ASSUME NEW g \in HeadsOf(kd), NEW j \in Nat, j <= Len(r[g]), ~(g = h /\ j \in {p - 1, p})
               PROVE  /\ nx2[RingAt(g, r[g], j)] = RingAt(g, r[g], j + 1)
                      /\ pv2[RingAt(g, r[g], j + 1)] = RingAt(g, r[g], j)
    OBVIOUS
  <2>1. Len(r[g]) \in Nat
    BY RingsSound
  <2>2. RingAt(g, r[g], j) \in Nodes /\ RingAt(g, r[g], j + 1) \in Nodes
    <3>1. Len(r[g]) + 1 \in 1 .. Len(r[g]) + 1 /\ j \in 0 .. Len(r[g]) + 1 /\ j + 1 \in 0 .. Len(r[g]) + 1
      BY <2>1
    <3> QED BY <3>1, Beside
  <2>3. /\ RingAt(g, r[g], j) # o /\ RingAt(g, r[g], j) # n
        /\ RingAt(g, r[g], j + 1) # q /\ RingAt(g, r[g], j + 1) # n
    BY <1>21
  <2>4. /\ nx[RingAt(g, r[g], j)] = RingAt(g, r[g], j + 1)
        /\ pv[RingAt(g, r[g], j + 1)] = RingAt(g, r[g], j)
    <3>1. j \in 0 .. Len(r[g]) /\ Ringed(nx, pv, g, r[g])
      BY <2>1 DEF Whole
    <3> QED BY <3>1 DEF Ringed
  <2> QED BY <2>2, <2>3, <2>4, <1>11
<1>14. \A g \in HeadsOf(kd) : g # h => Ringed(nx2, pv2, g, r2[g])
  <2> SUFFICES ASSUME NEW g \in HeadsOf(kd), g # h
               PROVE  Ringed(nx2, pv2, g, r[g])
    BY <1>6
  <2>1. Len(r[g]) \in Nat
    BY RingsSound
  <2> QED BY <2>1, <1>13 DEF Ringed
<1>15. Ringed(nx2, pv2, h, t)
  <2> SUFFICES ASSUME NEW i \in 0 .. Len(s) - 1
               PROVE  /\ nx2[RingAt(h, t, i)] = RingAt(h, t, i + 1)
                      /\ pv2[RingAt(h, t, i + 1)] = RingAt(h, t, i)
    BY <1>4 DEF Ringed
  <2>0. i \in Nat
    BY <1>1
  <2>1. CASE i < p - 1
    <3>1. i <= Len(s) /\ i \notin {p - 1, p} /\ i \in 0 .. p - 1 /\ i + 1 \in 0 .. p - 1
      BY <2>0, <2>1, <1>1
    <3> QED BY <3>1, <2>0, <1>5, <1>13
  <2>2. CASE i = p - 1
    <3>1. i \in 0 .. p - 1 /\ i + 1 = p /\ p \in p .. Len(s)
      BY <2>2, <1>1
    <3>2. RingAt(h, t, i) = o /\ RingAt(h, t, p) = q
      BY <3>1, <2>2, <1>5 DEF o, q
    <3> QED BY <3>1, <3>2, <1>11
  <2>3. CASE i > p - 1
    <3> DEFINE j == i + 1
    <3>1. j \in Nat /\ j <= Len(s) /\ j \notin {p - 1, p} /\ i \in p .. Len(s) /\ i + 1 \in p .. Len(s) /\ i + 1 = j
      BY <2>0, <2>3, <1>1
    <3> HIDE DEF j
    <3>2. RingAt(h, t, i) = RingAt(h, s, j) /\ RingAt(h, t, i + 1) = RingAt(h, s, j + 1)
      BY <3>1, <1>5
    <3> QED BY <3>1, <3>2, <1>13
  <2> QED BY <2>0, <2>1, <2>2, <2>3, <1>1
<1> DEFINE Old(i) == IF i < p THEN i ELSE i + 1
<1>16. /\ \A i \in 1 .. Len(t) : Old(i) \in 1 .. Len(s) /\ t[i] = s[Old(i)] /\ Old(i) # p
       /\ \A i, j \in 1 .. Len(t) : Old(i) = Old(j) => i = j
  <2>1. \A i \in 1 .. Len(t) : Old(i) \in 1 .. Len(s) /\ t[i] = s[Old(i)] /\ Old(i) # p
    <3> HIDE DEF s
    <3> TAKE i \in 1 .. Len(t)
    <3>1. i \in 1 .. Len(s) - 1 /\ t[i] = IF i < p THEN s[i] ELSE s[i + 1]
      BY <1>1, <1>4
    <3>2. CASE i < p
      BY <3>1, <3>2, <1>1
    <3>3. CASE i >= p
      BY <3>1, <3>3, <1>1
    <3> QED BY <3>1, <3>2, <3>3, <1>1
  <2>2. \A i, j \in 1 .. Len(t) : Old(i) = Old(j) => i = j
    BY <1>1
  <2> QED BY <2>1, <2>2
<1> HIDE DEF Old
<1>17. \A g \in HeadsOf(kd) : \A i \in 1 .. Len(r2[g]) :
          \E j \in 1 .. Len(r[g]) : r[g][j] = r2[g][i] /\ InList(kd, r2[g][i]) /\ r2[g][i] # n
  <2> SUFFICES ASSUME NEW g \in HeadsOf(kd), NEW i \in 1 .. Len(r2[g])
               PROVE  \E j \in 1 .. Len(r[g]) : r[g][j] = r2[g][i] /\ r2[g][i] # n
    BY DEF Whole
  <2>0. \A e, f \in HeadsOf(kd) : \A a \in 1 .. Len(r[e]), b \in 1 .. Len(r[f]) :
          r[e][a] = r[f][b] => e = f /\ a = b
    BY DEF Whole
  <2>1. CASE g # h
    BY <2>0, <2>1, <1>6 DEF n
  <2>2. CASE g = h
    <3>1. i \in 1 .. Len(t) /\ r2[g][i] = t[i]
      BY <2>2, <1>6
    <3> QED BY <2>0, <2>2, <3>1, <1>16 DEF n
  <2> QED BY <2>1, <2>2
<1>18. \A g \in HeadsOf(kd2) : \A i \in 1 .. Len(r2[g]) : InList(kd2, r2[g][i])
  <2> SUFFICES ASSUME NEW g \in HeadsOf(kd), NEW i \in 1 .. Len(r2[g])
               PROVE  InList(kd2, r2[g][i])
    BY <1>10
  <2>1. r2[g][i] \in Nodes
    BY <1>10, <1>12
  <2> QED BY <2>1, <1>10, <1>17 DEF InList
<1>19. \A e, g \in HeadsOf(kd2) : \A i \in 1 .. Len(r2[e]), j \in 1 .. Len(r2[g]) :
          r2[e][i] = r2[g][j] => e = g /\ i = j
  <2>0. \A e, g \in HeadsOf(kd) : \A i \in 1 .. Len(r[e]), j \in 1 .. Len(r[g]) :
          r[e][i] = r[g][j] => e = g /\ i = j
    BY DEF Whole
  <2>1. \A i, j \in 1 .. Len(t) : t[i] = t[j] => i = j
    <3>1. \A a, b \in 1 .. Len(s) : s[a] = s[b] => a = b
      BY <2>0
    <3> HIDE DEF s
    <3> QED BY <3>1, <1>16
  <2>2. \A g \in HeadsOf(kd) : g # h => \A i \in 1 .. Len(t), j \in 1 .. Len(r[g]) : t[i] # r[g][j]
    <3> TAKE g \in HeadsOf(kd)
    <3> HAVE g # h
    <3> TAKE i \in 1 .. Len(t), j \in 1 .. Len(r[g])
    <3>1. Old(i) \in 1 .. Len(s) /\ t[i] = s[Old(i)]
      BY <1>16
    <3>2. \A a \in 1 .. Len(s) : s[a] # r[g][j]
      BY <2>0
    <3> QED BY <3>1, <3>2
  <2> SUFFICES ASSUME NEW e \in HeadsOf(kd), NEW g \in HeadsOf(kd),
                      NEW i \in 1 .. Len(r2[e]), NEW j \in 1 .. Len(r2[g]), r2[e][i] = r2[g][j]
               PROVE  e = g /\ i = j
    BY <1>10
  <2>6. CASE e = h /\ g = h
    BY <2>1, <2>6, <1>6
  <2>7. CASE e = h /\ g # h
    BY <2>2, <2>7, <1>6
  <2>8. CASE e # h /\ g = h
    BY <2>2, <2>8, <1>6
  <2>9. CASE e # h /\ g # h
    BY <2>0, <2>9, <1>6
  <2> QED BY <2>6, <2>7, <2>8, <2>9
<1>22. \A m \in Nodes : InList(kd2, m) => \E g \in HeadsOf(kd2) : \E i \in 1 .. Len(r2[g]) : r2[g][i] = m
  <2> SUFFICES ASSUME NEW m \in Nodes, InList(kd2, m)
               PROVE  \E g \in HeadsOf(kd) : \E i \in 1 .. Len(r2[g]) : r2[g][i] = m
    BY <1>10
  <2>1. InList(kd, m) /\ m # n
    BY <1>10 DEF InList
  <2>2. PICK g \in HeadsOf(kd) : \E i \in 1 .. Len(r[g]) : r[g][i] = m
    BY <2>1 DEF Whole
  <2>3. PICK i \in 1 .. Len(r[g]) : r[g][i] = m
    BY <2>2
  <2>4. CASE g # h
    BY <2>3, <2>4, <1>6
  <2>5. CASE g = h
    <3>1. CASE i < p
      <4>1. i \in 1 .. Len(t) /\ t[i] = m
        BY <3>1, <2>3, <2>5, <1>1, <1>4
      <4> QED BY <4>1, <2>5, <1>6
    <3>2. CASE i > p
      <4>1. i - 1 \in 1 .. Len(t) /\ t[i - 1] = s[(i - 1) + 1] /\ (i - 1) + 1 = i
        BY <3>2, <2>3, <2>5, <1>1, <1>4
      <4> QED BY <4>1, <2>3, <2>5, <1>6
    <3>3. i # p
      BY <2>1, <2>3, <2>5 DEF n
    <3> QED BY <3>1, <3>2, <3>3, <1>1
  <2> QED BY <2>4, <2>5
<1>23. \A g \in HeadsOf(kd2) : Ringed(nx2, pv2, g, r2[g])
  BY <1>6, <1>10, <1>14, <1>15
<1>24. Whole(kd2, nx2, pv2, r2)
  BY <1>12, <1>18, <1>19, <1>22, <1>23 DEF Whole
<1> QED BY <1>9, <1>10, <1>24 DEF r2, t

\* dll_free_list: a ring less
LEMMA Dropped ==
  ASSUME NEW kd, NEW nx, NEW pv, NEW r, Whole(kd, nx, pv, r), Pointers(kd, nx, pv),
         NEW h \in HeadsOf(kd), NEW gone, gone = Range(r[h]) \cup {h},
         NEW kd2, kd2 = [n \in Nodes |-> IF n \in gone THEN "free" ELSE kd[n]],
         NEW nx2, nx2 = [n \in Nodes |-> IF n \in gone THEN Nil ELSE nx[n]],
         NEW pv2, pv2 = [n \in Nodes |-> IF n \in gone THEN Nil ELSE pv[n]]
  PROVE  /\ Whole(kd2, nx2, pv2, [g \in HeadsOf(kd) \ {h} |-> r[g]])
         /\ Pointers(kd2, nx2, pv2)
         /\ HeadsOf(kd2) = HeadsOf(kd) \ {h}
         /\ \A n \in Nodes : kd2[n] # "free" <=> kd[n] # "free" /\ n \notin gone
<1> DEFINE r2 == [g \in HeadsOf(kd) \ {h} |-> r[g]]
<1>1. /\ r[h] \in Seq(Nodes) /\ Len(r[h]) \in Nat /\ h \in Nodes
      /\ \A i \in 1 .. Len(r[h]) : kd[r[h][i]] # "head" /\ r[h][i] \in Nodes
  BY RingsSound
<1>2. \A m : m \in gone <=> m = h \/ \E i \in 1 .. Len(r[h]) : r[h][i] = m
  BY <1>1 DEF Range
<1>3. Pointers(kd2, nx2, pv2)
  BY DEF Pointers, NodeKinds
<1>4. \A m \in Nodes : /\ m \in gone => kd2[m] = "free"
                       /\ m \notin gone => kd2[m] = kd[m] /\ nx2[m] = nx[m] /\ pv2[m] = pv[m]
  OBVIOUS
<1>5. HeadsOf(kd2) = HeadsOf(kd) \ {h}
  BY <1>1, <1>2, <1>4 DEF HeadsOf
<1>6. \A g \in HeadsOf(kd) \ {h} : r2[g] = r[g]
  OBVIOUS
<1>7. \A g \in HeadsOf(kd) \ {h} : \A j \in 0 .. Len(r[g]) + 1 :
         RingAt(g, r[g], j) \in Nodes /\ RingAt(g, r[g], j) \notin gone
  <2> SUFFICES ASSUME NEW g \in HeadsOf(kd) \ {h}, NEW j \in 0 .. Len(r[g]) + 1
               PROVE  RingAt(g, r[g], j) \in Nodes /\ RingAt(g, r[g], j) \notin gone
    OBVIOUS
  <2>1. Len(r[g]) \in Nat /\ g \in Nodes /\ kd[g] = "head"
    BY RingsSound
  <2>2. \A i \in 1 .. Len(r[g]), k \in 1 .. Len(r[h]) : r[g][i] # r[h][k]
    BY DEF Whole
  <2>3. \A i \in 1 .. Len(r[g]) : r[g][i] \in Nodes /\ kd[r[g][i]] # "head"
    BY RingsSound
  <2>4. kd[h] = "head"
    BY RingsSound
  <2>5. CASE j \in 1 .. Len(r[g])
    BY <2>2, <2>3, <2>4, <2>5, <1>2 DEF RingAt
  <2>6. CASE j \notin 1 .. Len(r[g])
    BY <2>1, <2>6, <1>1, <1>2 DEF RingAt
  <2> QED BY <2>5, <2>6
<1> HIDE DEF r2
<1>8. r2 \in [HeadsOf(kd2) -> Seq(Nodes)]
  <2>1. r2 = [g \in HeadsOf(kd2) |-> r2[g]]
    BY <1>5 DEF r2
  <2>2. \A g \in HeadsOf(kd2) : r2[g] \in Seq(Nodes)
    BY <1>5, <1>6, RingsSound
  <2> QED BY <2>1, <2>2
<1>9. \A g \in HeadsOf(kd2) : Ringed(nx2, pv2, g, r2[g])
  <2> SUFFICES ASSUME NEW g \in HeadsOf(kd) \ {h}
               PROVE  Ringed(nx2, pv2, g, r[g])
    BY <1>5, <1>6
  <2>1. Len(r[g]) \in Nat
    BY RingsSound
  <2>2. \A j \in 0 .. Len(r[g]) : j \in 0 .. Len(r[g]) + 1 /\ j + 1 \in 0 .. Len(r[g]) + 1
    BY <2>1
  <2>3. Ringed(nx, pv, g, r[g])
    BY DEF Whole
  <2> QED BY <2>2, <2>3, <1>4, <1>7 DEF Ringed
<1>10. \A g \in HeadsOf(kd2) : \A i \in 1 .. Len(r2[g]) : InList(kd2, r2[g][i])
  <2> SUFFICES ASSUME NEW g \in HeadsOf(kd) \ {h}, NEW i \in 1 .. Len(r[g])
               PROVE  InList(kd2, r[g][i])
    BY <1>5, <1>6
  <2>1. Len(r[g]) \in Nat
    BY RingsSound
  <2>2. i \in 0 .. Len(r[g]) + 1 /\ RingAt(g, r[g], i) = r[g][i]
    BY <2>1 DEF RingAt
  <2>3. r[g][i] \in Nodes /\ r[g][i] \notin gone
    BY <2>2, <1>7
  <2>4. InList(kd, r[g][i])
    BY DEF Whole
  <2> QED BY <2>3, <2>4, <1>4 DEF InList
<1>11. \A e, g \in HeadsOf(kd2) : \A i \in 1 .. Len(r2[e]), j \in 1 .. Len(r2[g]) :
          r2[e][i] = r2[g][j] => e = g /\ i = j
  <2>1. \A e, g \in HeadsOf(kd) : \A i \in 1 .. Len(r[e]), j \in 1 .. Len(r[g]) :
          r[e][i] = r[g][j] => e = g /\ i = j
    BY DEF Whole
  <2> QED BY <2>1, <1>5, <1>6
<1>12. \A m \in Nodes : InList(kd2, m) => \E g \in HeadsOf(kd2) : \E i \in 1 .. Len(r2[g]) : r2[g][i] = m
  <2> SUFFICES ASSUME NEW m \in Nodes, InList(kd2, m)
               PROVE  \E g \in HeadsOf(kd) \ {h} : \E i \in 1 .. Len(r[g]) : r[g][i] = m
    BY <1>5, <1>6
  <2>1. m \notin gone /\ InList(kd, m)
    BY <1>4 DEF InList
  <2>2. PICK g \in HeadsOf(kd) : \E i \in 1 .. Len(r[g]) : r[g][i] = m
    BY <2>1 DEF Whole
  <2>3. g # h
    BY <2>1, <2>2, <1>2
  <2> QED BY <2>2, <2>3
<1>13. Whole(kd2, nx2, pv2, r2)
  BY <1>8, <1>9, <1>10, <1>11, <1>12 DEF Whole
<1>14. \A n \in Nodes : kd2[n] # "free" <=> kd[n] # "free" /\ n \notin gone
  BY <1>4
<1> QED BY <1>3, <1>5, <1>13, <1>14 DEF r2

-----------------------------------------------------------------------------
(* The state: the rings, what the nodes carry, and what has been destroyed *)

RingsOf(kd, nx) == [h \in HeadsOf(kd) |-> RingOf(nx, h)]
Rings == RingsOf(kind, next)
Carries(kd, it, d) ==
    /\ it \in [Nodes -> Items \cup {Nil}] /\ d \subseteq Items
    /\ \A n \in Nodes : kd[n] \in {"head", "none"} => it[n] = Nil
    /\ \A n \in Nodes : kd[n] = "data" => it[n] \in Items \ d
    /\ \A m, n \in Nodes : kd[m] = "data" /\ kd[n] = "data" /\ it[m] = it[n] => m = n
Sound(kd, nx, pv, it, d, r) ==
    Pointers(kd, nx, pv) /\ Whole(kd, nx, pv, r) /\ Carries(kd, it, d)
SoundNow == Sound(kind, next, prev, item, destroyed, Rings)

\* The rings of a state are those that Ring finds.
LEMMA RingsAre ==
  ASSUME NEW kd, NEW nx, NEW pv, NEW r, Whole(kd, nx, pv, r)
  PROVE  r = RingsOf(kd, nx)
<1>1. \A h \in HeadsOf(kd) : RingOf(nx, h) = r[h]
  BY RingsSound
<1>2. r = [h \in HeadsOf(kd) |-> r[h]]
  BY DEF Whole
<1> QED BY <1>1, <1>2 DEF RingsOf

\* For a state that has the rings r, Rings is r.
LEMMA SoundRings ==
  ASSUME NEW kd, NEW nx, NEW pv, NEW it, NEW d, NEW r, Sound(kd, nx, pv, it, d, r)
  PROVE  Sound(kd, nx, pv, it, d, RingsOf(kd, nx)) /\ r = RingsOf(kd, nx)
<1>1. r = RingsOf(kd, nx)
  BY RingsAre DEF Sound
<1> QED BY <1>1

\* At every place the pointers fit together.
LEMMA Closed ==
  ASSUME NEW kd, NEW nx, NEW pv, NEW r, Whole(kd, nx, pv, r), Pointers(kd, nx, pv),
         NEW n \in Nodes, kd[n] # "free"
  PROVE  /\ nx[n] \in Nodes /\ kd[nx[n]] # "free" /\ pv[n] \in Nodes /\ kd[pv[n]] # "free"
         /\ pv[nx[n]] = n /\ nx[pv[n]] = n
<1>0. PICK h \in HeadsOf(kd) : \E p \in 1 .. Len(r[h]) + 1 : RingAt(h, r[h], p) = n
  BY HasPlace
<1>1. PICK p \in 1 .. Len(r[h]) + 1 : RingAt(h, r[h], p) = n
  BY <1>0
<1> DEFINE s == r[h]
<1>2. Len(s) \in Nat
  BY RingsSound
<1>3. \A i \in 0 .. Len(s) + 1 : RingAt(h, s, i) \in Nodes /\ kd[RingAt(h, s, i)] # "free"
  BY Beside
<1>4. Ringed(nx, pv, h, s)
  BY DEF Whole
<1>5. PICK q \in 0 .. Len(s) : RingAt(h, s, q) = n
  <2>1. CASE p \in 1 .. Len(s)
    BY <1>1, <1>2, <2>1
  <2>2. CASE p \notin 1 .. Len(s)
    <3>1. RingAt(h, s, 0) = n /\ 0 \in 0 .. Len(s)
      BY <1>1, <1>2, <2>2 DEF RingAt
    <3> QED BY <3>1
  <2> QED BY <2>1, <2>2
<1>6. p \in 1 .. Len(s) + 1
  OBVIOUS
<1> HIDE DEF s
<1>7. nx[n] = RingAt(h, s, q + 1) /\ pv[RingAt(h, s, q + 1)] = n /\ q + 1 \in 0 .. Len(s) + 1
  BY <1>2, <1>4, <1>5 DEF Ringed
<1>8. PICK j \in 0 .. Len(s) : j + 1 = p
  <2>1. p - 1 \in 0 .. Len(s) /\ (p - 1) + 1 = p
    BY <1>2, <1>6
  <2> QED BY <2>1
<1>a. RingAt(h, s, j + 1) = n
  <2>1. RingAt(h, s, p) = n
    BY <1>1 DEF s
  <2> QED BY <2>1, <1>8
<1>9. pv[n] = RingAt(h, s, j) /\ nx[RingAt(h, s, j)] = n /\ j \in 0 .. Len(s) + 1
  BY <1>2, <1>4, <1>a DEF Ringed
<1> QED BY <1>3, <1>7, <1>9

\* Whole rings are what RingsClosed says of the lists, and what the nodes carry what OwnedOnce does.
LEMMA SoundMeans == SoundNow => RingsClosed /\ OwnedOnce
<1> SUFFICES ASSUME SoundNow
             PROVE  RingsClosed /\ OwnedOnce
  OBVIOUS
<1>1. Pointers(kind, next, prev) /\ Whole(kind, next, prev, Rings) /\ Carries(kind, item, destroyed)
  BY DEF SoundNow, Sound
<1>2. Heads = HeadsOf(kind) /\ \A n : n \in Allocated <=> n \in Nodes /\ kind[n] # "free"
  BY DEF Heads, HeadsOf, Allocated
<1>3. \A h \in Heads : Ring(h) = Rings[h] /\ Len(Rings[h]) \in Nat /\ DOMAIN Rings[h] = 1 .. Len(Rings[h])
  BY <1>1, <1>2, RingDef, RingsSound DEF Rings, RingsOf
<1>4. \A n \in Allocated : /\ next[n] \in Allocated /\ prev[n] \in Allocated
                           /\ prev[next[n]] = n /\ next[prev[n]] = n
  BY <1>1, <1>2, Closed
<1>5. ASSUME NEW n \in Allocated \ Heads
      PROVE  \E h \in Heads : n \in Range(Ring(h))
  <2>1. n \in Nodes /\ InList(kind, n)
    BY <1>1, <1>2 DEF Pointers, NodeKinds, InList, HeadsOf
  <2>2. PICK h \in Heads : \E i \in 1 .. Len(Rings[h]) : Rings[h][i] = n
    BY <2>1, <1>1, <1>2 DEF Whole
  <2> QED BY <2>2, <1>3 DEF Range
<1>6. ASSUME NEW h \in Heads
      PROVE  Range(Ring(h)) \cap Heads = {}
  <2>1. \A i \in 1 .. Len(Rings[h]) : kind[Rings[h][i]] # "head"
    BY <1>1, <1>2, RingsSound
  <2> QED BY <2>1, <1>2, <1>3 DEF Range, HeadsOf
<1>7. RingsClosed
  BY <1>4, <1>5, <1>6 DEF RingsClosed
<1>8. \A n \in Allocated : (kind[n] = "data" /\ item[n] \in Items \ destroyed) \/ item[n] = Nil
  BY <1>1, <1>2 DEF Carries, Pointers, NodeKinds
<1>9. OwnedOnce
  BY <1>1, <1>2, <1>8, NodesAssumption DEF OwnedOnce, Held, Carries
<1> QED BY <1>7, <1>9

\* The head of a place is what dll_rewind finds.
LEMMA PlaceNow ==
  ASSUME SoundNow, NEW n \in Nodes, kind[n] # "free"
  PROVE  \E h \in HeadsOf(kind) : \E p \in 1 .. Len(Rings[h]) + 1 :
            /\ RingAt(h, Rings[h], p) = n /\ Rewind(n) = h
            /\ InList(kind, n) => p \in 1 .. Len(Rings[h]) /\ Rings[h][p] = n
            /\ kind[n] = "head" => h = n /\ p = Len(Rings[h]) + 1
<1>1. Pointers(kind, next, prev) /\ Whole(kind, next, prev, Rings)
  BY DEF SoundNow, Sound
<1>2. PICK h \in HeadsOf(kind) : \E p \in 1 .. Len(Rings[h]) + 1 :
            /\ RingAt(h, Rings[h], p) = n
            /\ InList(kind, n) => p \in 1 .. Len(Rings[h]) /\ Rings[h][p] = n
            /\ kind[n] = "head" => h = n /\ p = Len(Rings[h]) + 1
  BY <1>1, HasPlace
<1>3. PICK p \in 1 .. Len(Rings[h]) + 1 :
            /\ RingAt(h, Rings[h], p) = n
            /\ InList(kind, n) => p \in 1 .. Len(Rings[h]) /\ Rings[h][p] = n
            /\ kind[n] = "head" => h = n /\ p = Len(Rings[h]) + 1
  BY <1>2
<1>4. Rewind(n) = h
  <2>1. SoundRing(next, prev, h, Rings[h]) /\ kind[h] = "head" /\ \A i \in 1 .. Len(Rings[h]) : kind[Rings[h][i]] # "head"
    BY <1>1, RingsSound
  <2>2. RewindOf(kind, next, n) = h
    <3>1. HeadFor(kind, h, Rings[h], n)
      BY <2>1, <1>3 DEF HeadFor
    <3> QED BY <2>1, <3>1, RewindIs
  <2> QED BY <2>2, RewindDef
<1> QED BY <1>3, <1>4

\* Malloc gives a node that is free.
LEMMA MallocIs == Free # {} => Malloc \in Nodes /\ kind[Malloc] = "free"
BY DEF Free, Malloc, Allocated

\* dll_init
LEMMA CreateStep ==
  ASSUME SoundNow, NEW n, Create(n)
  PROVE  /\ SoundNow' /\ n \in Nodes /\ n \notin HeadsOf(kind) /\ kind[n] = "free"
         /\ Rings' = Grown(kind, Rings, n)
<1>1. /\ n \in Nodes /\ kind[n] = "free" /\ destroyed' = destroyed
      /\ kind' = [kind EXCEPT ![n] = "head"] /\ item' = [item EXCEPT ![n] = Nil]
      /\ next' = [next EXCEPT ![n] = n] /\ prev' = [prev EXCEPT ![n] = n]
  BY DEF Create, Free, Allocated, Blank
<1>2. Pointers(kind, next, prev) /\ Whole(kind, next, prev, Rings) /\ Carries(kind, item, destroyed)
  BY DEF SoundNow, Sound
<1> DEFINE r2 == Grown(kind, Rings, n)
<1>3. Whole(kind', next', prev', r2) /\ Pointers(kind', next', prev') /\ n \notin HeadsOf(kind)
  <2>1. Creates(kind, next, prev, n, kind', next', prev')
    BY <1>1 DEF Creates
  <2> QED BY <2>1, <1>1, <1>2, Created
<1> HIDE DEF r2
<1>4. Carries(kind', item', destroyed')
  BY <1>1, <1>2 DEF Carries, Pointers
<1>5. Sound(kind', next', prev', item', destroyed', r2)
  BY <1>3, <1>4 DEF Sound
<1>6. Sound(kind', next', prev', item', destroyed', RingsOf(kind', next')) /\ r2 = RingsOf(kind', next')
  BY <1>5, SoundRings
<1> QED BY <1>1, <1>3, <1>6 DEF SoundNow, Rings, r2

\* dll_insert
LEMMA InsertStep ==
  ASSUME SoundNow, NEW n \in Nodes, Insert(n)
  PROVE  /\ SoundNow' /\ Malloc \in Nodes /\ kind[Malloc] = "free" /\ HeadsOf(kind') = HeadsOf(kind)
         /\ item' = [item EXCEPT ![Malloc] = Nil] /\ destroyed' = destroyed
         /\ \E h \in HeadsOf(kind) : \E p \in 1 .. Len(Rings[h]) + 1 :
               Rings' = [Rings EXCEPT ![h] = InsertAt(Rings[h], p, Malloc)]
<1> DEFINE m == Malloc
<1>1. /\ m \in Nodes /\ kind[m] = "free" /\ kind[n] # "free" /\ destroyed' = destroyed
      /\ kind' = [kind EXCEPT ![m] = "none"] /\ item' = [item EXCEPT ![m] = Nil]
      /\ next' = [next EXCEPT ![m] = n, ![prev[n]] = m]
      /\ prev' = [prev EXCEPT ![m] = prev[n], ![n] = m]
  BY MallocIs DEF Insert, Allocated, Blank, Linked
<1> HIDE DEF m
<1>2. Pointers(kind, next, prev) /\ Whole(kind, next, prev, Rings) /\ Carries(kind, item, destroyed)
  BY DEF SoundNow, Sound
<1>3. PICK h \in HeadsOf(kind) : \E p \in 1 .. Len(Rings[h]) + 1 : RingAt(h, Rings[h], p) = n
  BY <1>1, PlaceNow
<1>4. PICK p \in 1 .. Len(Rings[h]) + 1 : RingAt(h, Rings[h], p) = n
  BY <1>3
<1> DEFINE r2 == [Rings EXCEPT ![h] = InsertAt(Rings[h], p, m)]
<1>5. Inserts(kind, next, prev, h, Rings[h], p, m, kind', next', prev')
  BY <1>1, <1>4 DEF Inserts
<1>6. Whole(kind', next', prev', r2) /\ Pointers(kind', next', prev') /\ HeadsOf(kind') = HeadsOf(kind)
  BY <1>1, <1>2, <1>5, Inserted
<1> HIDE DEF r2
<1>7. Carries(kind', item', destroyed')
  BY <1>1, <1>2 DEF Carries, Pointers
<1>8. Sound(kind', next', prev', item', destroyed', r2)
  BY <1>6, <1>7 DEF Sound
<1>9. Sound(kind', next', prev', item', destroyed', RingsOf(kind', next')) /\ r2 = RingsOf(kind', next')
  BY <1>8, SoundRings
<1> QED BY <1>1, <1>6, <1>9 DEF SoundNow, Rings, r2, m

\* dll_assign
LEMMA AssignStep ==
  ASSUME SoundNow, NEW n \in Nodes, NEW x \in Items \ (Held \cup destroyed), Assign(n, x)
  PROVE  SoundNow' /\ Rings' = Rings /\ HeadsOf(kind') = HeadsOf(kind)
<1>1. /\ kind[n] = "none" /\ kind' = [kind EXCEPT ![n] = "data"] /\ item' = [item EXCEPT ![n] = x]
      /\ next' = next /\ prev' = prev /\ destroyed' = destroyed
  BY DEF Assign
<1>2. Pointers(kind, next, prev) /\ Whole(kind, next, prev, Rings) /\ Carries(kind, item, destroyed)
  BY DEF SoundNow, Sound
<1>3. Pointers(kind', next', prev')
  BY <1>1, <1>2 DEF Pointers, NodeKinds
<1>4. HeadsOf(kind') = HeadsOf(kind) /\ \A m \in Nodes : InList(kind', m) <=> InList(kind, m)
  BY <1>1, <1>2 DEF Pointers, HeadsOf, InList
<1>5. \A h \in HeadsOf(kind) : \A i \in 1 .. Len(Rings[h]) : Rings[h][i] \in Nodes
  BY <1>2, RingsSound
<1>6. Whole(kind', next', prev', Rings)
  <2>1. Rings \in [HeadsOf(kind) -> Seq(Nodes)] /\ \A h \in HeadsOf(kind) : Ringed(next, prev, h, Rings[h])
    BY <1>2 DEF Whole
  <2>2. \A h \in HeadsOf(kind) : \A i \in 1 .. Len(Rings[h]) : InList(kind', Rings[h][i])
    BY <1>2, <1>4, <1>5 DEF Whole
  <2>3. \A g, h \in HeadsOf(kind) : \A i \in 1 .. Len(Rings[g]), j \in 1 .. Len(Rings[h]) :
           Rings[g][i] = Rings[h][j] => g = h /\ i = j
    BY <1>2 DEF Whole
  <2>4. \A m \in Nodes : InList(kind', m) =>
           \E h \in HeadsOf(kind) : \E i \in 1 .. Len(Rings[h]) : Rings[h][i] = m
    BY <1>2, <1>4 DEF Whole
  <2> HIDE DEF Rings
  <2>5. Whole(kind', next, prev, Rings)
    BY <1>4, <2>1, <2>2, <2>3, <2>4 DEF Whole
  <2> QED BY <1>1, <2>5
<1>7. Carries(kind', item', destroyed')
  <2>1. \A m \in Nodes : kind[m] = "data" => item[m] # x
    <3>1. \A m \in Nodes : kind[m] = "data" => item[m] \in Held
      BY <1>2, NodesAssumption DEF Held, Allocated, Carries
    <3> QED BY <3>1
  <2> QED BY <1>1, <1>2, <2>1 DEF Carries, Pointers
<1>8. Sound(kind', next', prev', item', destroyed', Rings)
  BY <1>3, <1>6, <1>7 DEF Sound
<1>9. Sound(kind', next', prev', item', destroyed', RingsOf(kind', next')) /\ Rings = RingsOf(kind', next')
  BY <1>8, SoundRings
<1> QED BY <1>4, <1>9 DEF SoundNow, Rings

\* dll_delete, dll_delete_node, and the deletion in list_replace_items
LEMMA DeleteStep ==
  ASSUME SoundNow, NEW n \in Nodes, InList(kind, n), Disconnected(n), Freed(n), item' = item,
         destroyed' = destroyed \/ (kind[n] = "data" /\ destroyed' = WithDestroyed(n))
  PROVE  /\ SoundNow' /\ HeadsOf(kind') = HeadsOf(kind)
         /\ \E h \in HeadsOf(kind) : \E p \in 1 .. Len(Rings[h]) :
               Rings[h][p] = n /\ Rings' = [Rings EXCEPT ![h] = RemoveAt(Rings[h], p)]
<1>1. /\ kind' = [kind EXCEPT ![n] = "free"] /\ kind[n] # "free"
      /\ next' = [next EXCEPT ![prev[n]] = next[n], ![n] = Nil]
      /\ prev' = [prev EXCEPT ![next[n]] = prev[n], ![n] = Nil]
  BY DEF Disconnected, Freed, InList
<1>2. Pointers(kind, next, prev) /\ Whole(kind, next, prev, Rings) /\ Carries(kind, item, destroyed)
  BY DEF SoundNow, Sound
<1>3. PICK h \in HeadsOf(kind) : \E p \in 1 .. Len(Rings[h]) : Rings[h][p] = n
  BY <1>1, PlaceNow
<1>4. PICK p \in 1 .. Len(Rings[h]) : Rings[h][p] = n
  BY <1>3
<1> DEFINE r2 == [Rings EXCEPT ![h] = RemoveAt(Rings[h], p)]
<1>5. Removes(kind, next, prev, Rings[h][p], kind', next', prev')
  BY <1>1, <1>4 DEF Removes
<1>6. Whole(kind', next', prev', r2) /\ Pointers(kind', next', prev') /\ HeadsOf(kind') = HeadsOf(kind)
  BY <1>2, <1>5, Removed
<1> HIDE DEF r2
<1>7. Carries(kind', item', destroyed')
  <2>1. kind'[n] = "free" /\ \A m \in Nodes : m # n => kind'[m] = kind[m]
    BY <1>1, <1>2 DEF Pointers
  <2>2. CASE destroyed' = destroyed
    BY <1>2, <2>1, <2>2 DEF Carries
  <2>3. CASE kind[n] = "data" /\ destroyed' = WithDestroyed(n)
    BY <1>2, <2>1, <2>3 DEF Carries, WithDestroyed
  <2> QED BY <2>2, <2>3
<1>8. Sound(kind', next', prev', item', destroyed', r2)
  BY <1>6, <1>7 DEF Sound
<1>9. Sound(kind', next', prev', item', destroyed', RingsOf(kind', next')) /\ r2 = RingsOf(kind', next')
  BY <1>8, SoundRings
<1>10. Rings' = [Rings EXCEPT ![h] = RemoveAt(Rings[h], p)]
  BY <1>9 DEF Rings, r2
<1> QED BY <1>4, <1>6, <1>9, <1>10 DEF SoundNow, Rings

\* dll_free_list and dll_free_holdings
LEMMA DropStep ==
  ASSUME SoundNow, NEW n \in Allocated, AllFreed(Rewind(n)), item' = item,
         \/ destroyed' = destroyed
         \/ /\ \A m \in Range(Ring(Rewind(n))) : kind[m] = "data"
            /\ destroyed' = destroyed \cup {item[m] : m \in Range(Ring(Rewind(n)))}
  PROVE  /\ SoundNow'
         /\ Rewind(n) \in HeadsOf(kind) /\ Ring(Rewind(n)) = Rings[Rewind(n)]
         /\ Rings' = [g \in HeadsOf(kind) \ {Rewind(n)} |-> Rings[g]]
<1>1. n \in Nodes /\ kind[n] # "free"
  BY DEF Allocated
<1>2. Pointers(kind, next, prev) /\ Whole(kind, next, prev, Rings) /\ Carries(kind, item, destroyed)
  BY DEF SoundNow, Sound
<1>3. PICK h \in HeadsOf(kind) : Rewind(n) = h
  BY <1>1, PlaceNow
<1>4. Ring(h) = Rings[h]
  BY <1>2, RingDef, RingsSound DEF Rings, RingsOf
<1> DEFINE gone == Range(Rings[h]) \cup {h}
           r2 == [g \in HeadsOf(kind) \ {h} |-> Rings[g]]
<1>5. /\ kind' = [m \in Nodes |-> IF m \in gone THEN "free" ELSE kind[m]]
      /\ next' = [m \in Nodes |-> IF m \in gone THEN Nil ELSE next[m]]
      /\ prev' = [m \in Nodes |-> IF m \in gone THEN Nil ELSE prev[m]]
  BY <1>3, <1>4 DEF AllFreed
<1>6. /\ Whole(kind', next', prev', r2) /\ Pointers(kind', next', prev')
      /\ \A m \in Nodes : kind'[m] # "free" <=> kind[m] # "free" /\ m \notin gone
  <2>1. gone = Range(Rings[h]) \cup {h}
    OBVIOUS
  <2> HIDE DEF gone
  <2> QED BY <2>1, <1>2, <1>5, Dropped
<1>7. \A m \in Range(Rings[h]) : m \in Nodes
  BY <1>2, RingsSound DEF Range
<1>8. Carries(kind', item', destroyed')
  <2>1. \A m \in Nodes : kind'[m] # "free" => kind'[m] = kind[m] /\ m \notin Range(Rings[h])
    BY <1>5
  <2>2. CASE destroyed' = destroyed
    BY <1>2, <2>1, <2>2 DEF Carries
  <2>3. CASE /\ \A m \in Range(Rings[h]) : kind[m] = "data"
             /\ destroyed' = destroyed \cup {item[m] : m \in Range(Rings[h])}
    BY <1>2, <1>7, <2>1, <2>3 DEF Carries
  <2> QED BY <1>3, <1>4, <2>2, <2>3
<1> HIDE DEF gone, r2
<1>9. Sound(kind', next', prev', item', destroyed', r2)
  BY <1>6, <1>8 DEF Sound
<1>10. Sound(kind', next', prev', item', destroyed', RingsOf(kind', next')) /\ r2 = RingsOf(kind', next')
  BY <1>9, SoundRings
<1> QED BY <1>3, <1>4, <1>10 DEF SoundNow, Rings, r2

-----------------------------------------------------------------------------
(* What a list carries *)

\* Sequences are the same if they are the same place by place.
LEMMA SameSeq ==
  ASSUME NEW S, NEW a \in Seq(S), NEW b \in Seq(S), Len(a) = Len(b),
         \A i \in 1 .. Len(a) : a[i] = b[i]
  PROVE  a = b
OBVIOUS

\* A sequence with an element between two others, place by place
Between(a, e, c) == (a \o <<e>>) \o c
\* Those before, the element, and those behind
LEMMA BetweenIs ==
  ASSUME NEW S, NEW a \in Seq(S), NEW e \in S, NEW c \in Seq(S)
  PROVE  /\ Between(a, e, c) \in Seq(S) /\ Len(Between(a, e, c)) = Len(a) + 1 + Len(c)
         /\ Len(a) \in Nat /\ Len(c) \in Nat
         /\ \A i \in 1 .. Len(a) + 1 + Len(c) : Between(a, e, c)[i] =
                IF i <= Len(a) THEN a[i] ELSE IF i = Len(a) + 1 THEN e ELSE c[i - Len(a) - 1]
<1> DEFINE b == a \o <<e>>
           d == b \o c
<1>1. <<e>> \in Seq(S) /\ Len(<<e>>) = 1 /\ <<e>>[1] = e
  OBVIOUS
<1>2. /\ b \in Seq(S) /\ Len(b) = Len(a) + 1 /\ Len(a) \in Nat
      /\ \A i \in 1 .. Len(a) + 1 : b[i] = IF i <= Len(a) THEN a[i] ELSE e
  <2>1. /\ b \in Seq(S) /\ Len(b) = Len(a) + Len(<<e>>) /\ Len(a) \in Nat
        /\ \A i \in 1 .. Len(a) + Len(<<e>>) : b[i] = IF i <= Len(a) THEN a[i] ELSE <<e>>[i - Len(a)]
    BY <1>1, ConcatIs
  <2> HIDE DEF b
  <2> QED BY <2>1, <1>1
<1> HIDE DEF b
<1>3. /\ d \in Seq(S) /\ Len(d) = Len(b) + Len(c) /\ Len(c) \in Nat
      /\ \A i \in 1 .. Len(b) + Len(c) : d[i] = IF i <= Len(b) THEN b[i] ELSE c[i - Len(b)]
  BY <1>2, ConcatIs
<1> HIDE DEF d
<1>4. ASSUME NEW i \in 1 .. Len(a) + 1 + Len(c)
      PROVE  d[i] = IF i <= Len(a) THEN a[i] ELSE IF i = Len(a) + 1 THEN e ELSE c[i - Len(a) - 1]
  <2>1. d[i] = IF i <= Len(a) + 1 THEN b[i] ELSE c[i - (Len(a) + 1)]
    BY <1>2, <1>3
  <2>2. i - (Len(a) + 1) = i - Len(a) - 1
    BY <1>2
  <2> QED BY <2>1, <2>2, <1>2, <1>3
<1>5. d = Between(a, e, c)
  BY DEF Between, b, d
<1>6. d \in Seq(S) /\ Len(d) = Len(a) + 1 + Len(c) /\ Len(a) \in Nat /\ Len(c) \in Nat
  BY <1>2, <1>3
<1> QED BY <1>4, <1>5, <1>6

\* Where a sequence is cut
CutsAt(S, s, p, a, c) ==
    /\ s = Between(a, s[p], c) /\ RemoveAt(s, p) = a \o c
    /\ \A e \in S : [s EXCEPT ![p] = e] = Between(a, e, c)
CutsBefore(S, s, p, a, c) == s = a \o c /\ \A e \in S : InsertAt(s, p, e) = Between(a, e, c)
\* Every place of a sequence cuts it.
LEMMA CutAt ==
  ASSUME NEW S, NEW s \in Seq(S), NEW p \in 1 .. Len(s)
  PROVE  \E a, c \in Seq(S) : CutsAt(S, s, p, a, c)
<1> DEFINE a == SubSeq(s, 1, p - 1)
           c == SubSeq(s, p + 1, Len(s))
<1>0. Len(s) \in Nat /\ p \in Nat /\ p >= 1 /\ p <= Len(s) /\ s[p] \in S
  OBVIOUS
<1>1. a \in Seq(S) /\ Len(a) = p - 1 /\ \A i \in 1 .. p - 1 : a[i] = s[i]
  BY <1>0
<1>2. c \in Seq(S) /\ Len(c) = Len(s) - p /\ \A i \in 1 .. Len(s) - p : c[i] = s[p + i]
  BY <1>0
<1>3. RemoveAt(s, p) = a \o c
  BY DEF RemoveAt
<1> HIDE DEF a, c
<1>4. \A e \in S : [s EXCEPT ![p] = e] = Between(a, e, c)
  <2> TAKE e \in S
  <2> DEFINE t == [s EXCEPT ![p] = e]
             b == Between(a, e, c)
  <2>1. /\ b \in Seq(S) /\ Len(b) = Len(a) + 1 + Len(c)
        /\ \A i \in 1 .. Len(a) + 1 + Len(c) : b[i] =
              IF i <= Len(a) THEN a[i] ELSE IF i = Len(a) + 1 THEN e ELSE c[i - Len(a) - 1]
    <3>1. a \in Seq(S) /\ c \in Seq(S)
      BY <1>1, <1>2
    <3> HIDE DEF t
    <3> QED BY <3>1, BetweenIs
  <2>2. t \in Seq(S) /\ Len(t) = Len(s) /\ \A i \in 1 .. Len(s) : t[i] = IF i = p THEN e ELSE s[i]
    BY <1>0
  <2> HIDE DEF b, t
  <2>3. ASSUME NEW i \in 1 .. Len(s)
        PROVE  t[i] = b[i]
    <3>0. b[i] = IF i <= p - 1 THEN a[i] ELSE IF i = p THEN e ELSE c[i - p]
      <4>1. i \in 1 .. Len(a) + 1 + Len(c) /\ Len(a) + 1 = p /\ i - Len(a) - 1 = i - p
        BY <1>0, <1>1, <1>2
      <4> QED BY <4>1, <2>1, <1>1
    <3>1. CASE i < p
      BY <3>0, <3>1, <2>2, <1>0, <1>1
    <3>2. CASE i = p
      BY <3>0, <3>2, <2>2, <1>0, <1>1
    <3>3. CASE i > p
      <4>1. i - p \in 1 .. Len(s) - p /\ p + (i - p) = i
        BY <3>3, <1>0
      <4>2. c[i - p] = s[i]
        BY <4>1, <1>2
      <4> QED BY <4>2, <3>0, <3>3, <2>2, <1>0, <1>1
    <3> QED BY <3>1, <3>2, <3>3, <1>0
  <2>4. Len(b) = Len(s)
    BY <2>1, <1>0, <1>1, <1>2
  <2>5. t = b
    BY <2>1, <2>2, <2>3, <2>4, SameSeq
  <2> QED BY <2>5 DEF t, b
<1>5. s = Between(a, s[p], c)
  <2>1. [s EXCEPT ![p] = s[p]] = s
    OBVIOUS
  <2> QED BY <2>1, <1>0, <1>4
<1> QED BY <1>1, <1>2, <1>3, <1>4, <1>5 DEF CutsAt

\* So does every place between two elements.
LEMMA CutBefore ==
  ASSUME NEW S, NEW s \in Seq(S), NEW p \in 1 .. Len(s) + 1
  PROVE  \E a, c \in Seq(S) : CutsBefore(S, s, p, a, c)
<1> DEFINE a == SubSeq(s, 1, p - 1)
           c == SubSeq(s, p, Len(s))
           d == a \o c
<1>0. Len(s) \in Nat /\ p \in Nat /\ p >= 1 /\ p <= Len(s) + 1
  OBVIOUS
<1>1. a \in Seq(S) /\ Len(a) = p - 1 /\ \A i \in 1 .. p - 1 : a[i] = s[i]
  BY <1>0
<1>2. c \in Seq(S) /\ Len(c) = Len(s) + 1 - p /\ \A i \in 1 .. Len(s) + 1 - p : c[i] = s[p + i - 1]
  BY <1>0
<1>3. \A e \in S : InsertAt(s, p, e) = Between(a, e, c)
  BY DEF InsertAt, Between
<1> HIDE DEF a, c
<1>4. /\ d \in Seq(S) /\ Len(d) = Len(a) + Len(c)
      /\ \A i \in 1 .. Len(a) + Len(c) : d[i] = IF i <= Len(a) THEN a[i] ELSE c[i - Len(a)]
  BY <1>1, <1>2, ConcatIs
<1> HIDE DEF d
<1>5. ASSUME NEW i \in 1 .. Len(s)
      PROVE  s[i] = d[i]
  <2>1. CASE i < p
    <3>1. i \in 1 .. Len(a) + Len(c) /\ i <= Len(a) /\ i \in 1 .. p - 1
      BY <2>1, <1>0, <1>1, <1>2
    <3> QED BY <3>1, <1>1, <1>4
  <2>2. CASE i >= p
    <3>1. i - (p - 1) \in 1 .. Len(s) + 1 - p /\ p + (i - (p - 1)) - 1 = i
      BY <2>2, <1>0
    <3>2. c[i - (p - 1)] = s[i]
      BY <3>1, <1>2
    <3>3. d[i] = c[i - (p - 1)]
      BY <2>2, <1>0, <1>1, <1>2, <1>4
    <3> QED BY <3>2, <3>3
  <2> QED BY <2>1, <2>2, <1>0
<1>6. Len(d) = Len(s)
  BY <1>0, <1>1, <1>2, <1>4
<1>7. s = d
  BY <1>4, <1>5, <1>6, SameSeq
<1> QED BY <1>1, <1>2, <1>3, <1>7 DEF d, CutsBefore

\* And joined again
LEMMA JoinedAt ==
  ASSUME NEW S, NEW a \in Seq(S), NEW e \in S, NEW c \in Seq(S)
  PROVE  /\ \E p \in 1 .. Len(a \o c) + 1 : InsertAt(a \o c, p, e) = Between(a, e, c)
         /\ \E p \in 1 .. Len(Between(a, e, c)) :
               Between(a, e, c)[p] = e /\ RemoveAt(Between(a, e, c), p) = a \o c
<1> DEFINE p == Len(a) + 1
           d == a \o c
           b == Between(a, e, c)
<1>1. /\ d \in Seq(S) /\ Len(d) = Len(a) + Len(c) /\ Len(a) \in Nat /\ Len(c) \in Nat
      /\ \A i \in 1 .. Len(a) + Len(c) : d[i] = IF i <= Len(a) THEN a[i] ELSE c[i - Len(a)]
  BY ConcatIs
<1>2. /\ b \in Seq(S) /\ Len(b) = Len(a) + 1 + Len(c)
      /\ \A i \in 1 .. Len(a) + 1 + Len(c) : b[i] =
            IF i <= Len(a) THEN a[i] ELSE IF i = Len(a) + 1 THEN e ELSE c[i - Len(a) - 1]
  BY BetweenIs
<1> HIDE DEF d, b
<1>3. p \in 1 .. Len(d) + 1 /\ p \in 1 .. Len(b) /\ b[p] = e
  BY <1>1, <1>2
<1> HIDE DEF p
<1>p. p = Len(a) + 1
  BY DEF p
<1>4. InsertAt(d, p, e) = b
  <2> DEFINE t == InsertAt(d, p, e)
  <2>1. /\ t \in Seq(S) /\ Len(t) = Len(d) + 1
        /\ \A i \in 1 .. Len(d) + 1 : t[i] = IF i < p THEN d[i] ELSE IF i = p THEN e ELSE d[i - 1]
    <3>1. MayGo(S, d, p, e)
      BY <1>1, <1>3 DEF MayGo
    <3> QED BY <3>1, InsertAtIs
  <2> HIDE DEF t
  <2>2. ASSUME NEW i \in 1 .. Len(t)
        PROVE  t[i] = b[i]
    <3>0. i \in 1 .. Len(d) + 1 /\ i \in 1 .. Len(a) + 1 + Len(c) /\ p = Len(a) + 1 /\ i \in Nat
      BY <2>1, <1>1, <1>p
    <3>a. t[i] = IF i < p THEN d[i] ELSE IF i = p THEN e ELSE d[i - 1]
      BY <3>0, <2>1
    <3>1. CASE i < p
      <4>1. i \in 1 .. Len(a) + Len(c) /\ i <= Len(a)
        BY <3>0, <3>1, <1>1
      <4>2. d[i] = a[i] /\ b[i] = a[i]
        BY <4>1, <3>0, <1>1, <1>2
      <4> QED BY <4>2, <3>1, <3>a
    <3>2. CASE i = p
      BY <3>0, <3>a, <3>2, <1>1, <1>2
    <3>3. CASE i > p
      <4>1. i - 1 \in 1 .. Len(a) + Len(c) /\ ~(i - 1 <= Len(a)) /\ (i - 1) - Len(a) = i - Len(a) - 1
        BY <3>3, <2>1, <1>1, <1>p
      <4>2. t[i] = d[i - 1]
        BY <3>0, <3>3, <3>a, <1>1
      <4>4. d[i - 1] = c[(i - 1) - Len(a)]
        BY <4>1, <1>1
      <4>3. b[i] = c[i - Len(a) - 1]
        BY <3>3, <2>1, <1>1, <1>2, <1>p
      <4> QED BY <4>1, <4>2, <4>3, <4>4
    <3> QED BY <3>1, <3>2, <3>3, <2>1, <1>1, <1>p
  <2>3. Len(t) = Len(b)
    BY <2>1, <1>1, <1>2
  <2>4. t = b
    BY <2>1, <2>2, <2>3, <1>2, SameSeq
  <2> QED BY <2>4 DEF t
<1>5. RemoveAt(b, p) = d
  <2> DEFINE t == RemoveAt(b, p)
  <2>1. /\ t \in Seq(S) /\ Len(t) = Len(b) - 1
        /\ \A i \in 1 .. Len(b) - 1 : t[i] = IF i < p THEN b[i] ELSE b[i + 1]
    BY <1>2, <1>3, RemoveAtIs
  <2> HIDE DEF t
  <2>2. ASSUME NEW i \in 1 .. Len(t)
        PROVE  t[i] = d[i]
    <3>1. CASE i < p
      BY <3>1, <2>1, <1>1, <1>2, <1>p
    <3>2. CASE i >= p
      <4>1. i + 1 \in 1 .. Len(a) + 1 + Len(c) /\ (i + 1) - Len(a) - 1 = i - Len(a) /\ i + 1 > Len(a) + 1
        BY <3>2, <2>1, <1>1, <1>2, <1>p
      <4>2. t[i] = b[i + 1]
        BY <3>2, <2>1, <1>1, <1>2, <1>p
      <4>3. b[i + 1] = c[(i + 1) - Len(a) - 1]
        BY <4>1, <1>1, <1>2
      <4>4. d[i] = c[i - Len(a)]
        BY <3>2, <2>1, <1>1, <1>2, <1>p
      <4> QED BY <4>1, <4>2, <4>3, <4>4
    <3> QED BY <3>1, <3>2, <2>1, <1>1, <1>2, <1>p
  <2>3. Len(t) = Len(d)
    BY <2>1, <1>1, <1>2
  <2>4. t = d
    BY <2>1, <2>2, <2>3, <1>1, SameSeq
  <2> QED BY <2>4 DEF t
<1> QED BY <1>3, <1>4, <1>5 DEF d, b

\* The recursion of Filled
GotOf(s) ==
    LET got[i \in 0 .. Len(s)] ==
          IF i = 0 THEN <<>> ELSE IF s[i] = Nil THEN got[i - 1] ELSE Append(got[i - 1], s[i])
    IN  got
Slots == Items \cup {Nil}

\* It is a function.
LEMMA GotIs ==
  ASSUME NEW s \in Seq(Slots)
  PROVE  /\ GotOf(s) = [i \in 0 .. Len(s) |->
               IF i = 0 THEN <<>> ELSE IF s[i] = Nil THEN GotOf(s)[i - 1] ELSE Append(GotOf(s)[i - 1], s[i])]
         /\ Filled(s) = GotOf(s)[Len(s)] /\ Len(s) \in Nat
<1> DEFINE Step(f, i) == IF i = 0 THEN <<>> ELSE IF s[i] = Nil THEN f[i - 1] ELSE Append(f[i - 1], s[i])
           Got(f, k) == f = [i \in 0 .. k |-> Step(f, i)]
           T == {k \in Nat : \E f : Got(f, k)}
           C == Len(s)
<1>1. C \in Nat
  OBVIOUS
<1>2. 0 \in T
  <2> DEFINE f == [i \in 0 .. 0 |-> <<>>]
  <2>1. Got(f, 0)
    OBVIOUS
  <2> QED BY <2>1
<1>3. \A k \in Nat : k \in T => k + 1 \in T
  <2> TAKE k \in Nat
  <2> HAVE k \in T
  <2> PICK f : Got(f, k)
    OBVIOUS
  <2> DEFINE g == [i \in 0 .. k + 1 |-> Step(f, i)]
  <2>1. \A i \in 0 .. k : g[i] = f[i]
    <3> HIDE DEF Step
    <3> QED OBVIOUS
  <2>2. \A i \in 0 .. k + 1 : i # 0 => i - 1 \in 0 .. k
    OBVIOUS
  <2>3. \A i \in 0 .. k + 1 : Step(f, i) = Step(g, i)
    <3> HIDE DEF g
    <3> QED BY <2>1, <2>2
  <2>4. Got(g, k + 1)
    <3> HIDE DEF Step
    <3> QED BY <2>3
  <2> HIDE DEF g, Got
  <2> QED BY <2>4
<1>4. C \in T
  <2> HIDE DEF T, C
  <2> QED BY <1>1, <1>2, <1>3, FromZero
<1>5. PICK f : Got(f, C)
  BY <1>4
<1>6. GotOf(s) = [i \in 0 .. Len(s) |-> Step(GotOf(s), i)]
  BY <1>5 DEF GotOf
<1>7. Filled(s) = GotOf(s)[Len(s)]
  BY DEF Filled, GotOf
<1> QED BY <1>1, <1>6, <1>7

\* Its values
LEMMA GotAt ==
  ASSUME NEW s \in Seq(Slots)
  PROVE  /\ GotOf(s)[0] = <<>>
         /\ \A k \in 0 .. Len(s) : /\ GotOf(s)[k] \in Seq(Items)
                                   /\ k < Len(s) => GotOf(s)[k + 1] =
                                        IF s[k + 1] = Nil THEN GotOf(s)[k] ELSE Append(GotOf(s)[k], s[k + 1])
         /\ Filled(s) = GotOf(s)[Len(s)] /\ Filled(s) \in Seq(Items) /\ Len(s) \in Nat
<1> DEFINE f == GotOf(s)
           T == {k \in Nat : k <= Len(s) => f[k] \in Seq(Items)}
<1>1. /\ f = [i \in 0 .. Len(s) |-> IF i = 0 THEN <<>> ELSE IF s[i] = Nil THEN f[i - 1] ELSE Append(f[i - 1], s[i])]
      /\ Filled(s) = f[Len(s)] /\ Len(s) \in Nat
  BY GotIs
<1> HIDE DEF f
<1>2. f[0] = <<>>
  BY <1>1
<1>3. \A k \in 0 .. Len(s) : k < Len(s) => f[k + 1] = IF s[k + 1] = Nil THEN f[k] ELSE Append(f[k], s[k + 1])
  <2> SUFFICES ASSUME NEW k \in 0 .. Len(s), k < Len(s)
               PROVE  f[k + 1] = IF s[k + 1] = Nil THEN f[k] ELSE Append(f[k], s[k + 1])
    OBVIOUS
  <2>1. k + 1 \in 0 .. Len(s) /\ k + 1 # 0 /\ (k + 1) - 1 = k
    BY <1>1
  <2> QED BY <2>1, <1>1
<1>4. 0 \in T
  <2>1. <<>> \in Seq(Items)
    OBVIOUS
  <2> QED BY <2>1, <1>2
<1>5. \A k \in Nat : k \in T => k + 1 \in T
  <2> SUFFICES ASSUME NEW k \in Nat, k \in T, k + 1 <= Len(s)
               PROVE  f[k + 1] \in Seq(Items)
    OBVIOUS
  <2>1. k \in 0 .. Len(s) /\ k < Len(s) /\ f[k] \in Seq(Items)
    BY <1>1
  <2>2. s[k + 1] \in Items \cup {Nil}
    BY <1>1, <2>1 DEF Slots
  <2>3. f[k + 1] = IF s[k + 1] = Nil THEN f[k] ELSE Append(f[k], s[k + 1])
    BY <1>3, <2>1
  <2>4. CASE s[k + 1] = Nil
    BY <2>1, <2>3, <2>4
  <2>5. CASE s[k + 1] # Nil
    BY <2>1, <2>2, <2>3, <2>5
  <2> QED BY <2>4, <2>5
<1>6. Nat \subseteq T
  <2> HIDE DEF T
  <2> QED BY <1>4, <1>5, FromZero
<1>7. \A k \in 0 .. Len(s) : f[k] \in Seq(Items)
  BY <1>1, <1>6
<1>8. Len(s) \in 0 .. Len(s)
  BY <1>1
<1> QED BY <1>1, <1>2, <1>3, <1>7, <1>8 DEF f

\* To append is to append to the second of two.
LEMMA AppendBehind ==
  \A a, b \in Seq(Items), e \in Items : Append(a \o b, e) = a \o Append(b, e)
<1> SUFFICES ASSUME NEW a \in Seq(Items), NEW b \in Seq(Items), NEW e \in Items
             PROVE  Append(a \o b, e) = a \o Append(b, e)
  OBVIOUS
<1> DEFINE c == a \o b
           d == Append(b, e)
           x == Append(c, e)
           y == a \o d
<1>1. /\ c \in Seq(Items) /\ Len(c) = Len(a) + Len(b) /\ Len(a) \in Nat /\ Len(b) \in Nat
      /\ \A i \in 1 .. Len(a) + Len(b) : c[i] = IF i <= Len(a) THEN a[i] ELSE b[i - Len(a)]
  BY ConcatIs
<1>2. d \in Seq(Items) /\ Len(d) = Len(b) + 1 /\ \A i \in 1 .. Len(b) + 1 : d[i] = IF i <= Len(b) THEN b[i] ELSE e
  OBVIOUS
<1> HIDE DEF c, d
<1>3. x \in Seq(Items) /\ Len(x) = Len(c) + 1 /\ \A i \in 1 .. Len(c) + 1 : x[i] = IF i <= Len(c) THEN c[i] ELSE e
  <2>1. c \in Seq(Items)
    BY <1>1
  <2> QED BY <2>1
<1>4. /\ y \in Seq(Items) /\ Len(y) = Len(a) + Len(d)
      /\ \A i \in 1 .. Len(a) + Len(d) : y[i] = IF i <= Len(a) THEN a[i] ELSE d[i - Len(a)]
  BY <1>2, ConcatIs
<1> HIDE DEF x, y
<1>5. ASSUME NEW i \in 1 .. Len(x)
      PROVE  x[i] = y[i]
  <2>0. i \in 1 .. Len(a) + Len(b) + 1 /\ i \in 1 .. Len(c) + 1 /\ i \in 1 .. Len(a) + Len(d)
    BY <1>1, <1>2, <1>3
  <2>1. CASE i <= Len(a)
    <3>1. i <= Len(c) /\ i \in 1 .. Len(a) + Len(b)
      BY <2>0, <2>1, <1>1
    <3> QED BY <3>1, <2>0, <2>1, <1>1, <1>3, <1>4
  <2>2. CASE i > Len(a) /\ i <= Len(c)
    <3>1. i \in 1 .. Len(a) + Len(b) /\ ~(i <= Len(a)) /\ i - Len(a) \in 1 .. Len(b) + 1 /\ i - Len(a) <= Len(b)
      BY <2>0, <2>2, <1>1
    <3>2. x[i] = b[i - Len(a)]
      BY <3>1, <2>0, <2>2, <1>1, <1>3
    <3>3. y[i] = b[i - Len(a)]
      BY <3>1, <2>0, <1>2, <1>4
    <3> QED BY <3>2, <3>3
  <2>3. CASE i > Len(c)
    <3>1. ~(i <= Len(a)) /\ ~(i <= Len(c)) /\ i - Len(a) \in 1 .. Len(b) + 1 /\ ~(i - Len(a) <= Len(b))
      BY <2>0, <2>3, <1>1
    <3>2. x[i] = e
      BY <3>1, <2>0, <1>3
    <3>3. y[i] = e
      BY <3>1, <2>0, <1>2, <1>4
    <3> QED BY <3>2, <3>3
  <2> QED BY <2>0, <2>1, <2>2, <2>3, <1>1
<1>6. Len(x) = Len(y)
  BY <1>1, <1>2, <1>3, <1>4
<1>7. x = y
  BY <1>3, <1>4, <1>5, <1>6, SameSeq
<1> QED BY <1>7 DEF c, d, x, y

\* One behind another
LEMMA FilledConcat ==
  ASSUME NEW a \in Seq(Slots), NEW b \in Seq(Slots)
  PROVE  Filled(a \o b) = Filled(a) \o Filled(b)
<1> DEFINE d == a \o b
           f == GotOf(d)
           x == GotOf(a)
           y == GotOf(b)
<1>1. /\ d \in Seq(Slots) /\ Len(d) = Len(a) + Len(b) /\ Len(a) \in Nat /\ Len(b) \in Nat
      /\ \A i \in 1 .. Len(a) + Len(b) : d[i] = IF i <= Len(a) THEN a[i] ELSE b[i - Len(a)]
  BY ConcatIs
<1> HIDE DEF d
<1>2. /\ f[0] = <<>>
      /\ \A k \in 0 .. Len(d) : k < Len(d) => f[k + 1] = IF d[k + 1] = Nil THEN f[k] ELSE Append(f[k], d[k + 1])
      /\ Filled(d) = f[Len(d)]
  BY <1>1, GotAt
<1>3. /\ x[0] = <<>>
      /\ \A k \in 0 .. Len(a) : x[k] \in Seq(Items) /\
            (k < Len(a) => x[k + 1] = IF a[k + 1] = Nil THEN x[k] ELSE Append(x[k], a[k + 1]))
      /\ Filled(a) = x[Len(a)] /\ Filled(a) \in Seq(Items)
  BY GotAt
<1>4. /\ y[0] = <<>>
      /\ \A k \in 0 .. Len(b) : y[k] \in Seq(Items) /\
            (k < Len(b) => y[k + 1] = IF b[k + 1] = Nil THEN y[k] ELSE Append(y[k], b[k + 1]))
      /\ Filled(b) = y[Len(b)]
  BY GotAt
<1> HIDE DEF f, x, y
<1> DEFINE T == {k \in Nat : k <= Len(a) => f[k] = x[k]}
           Both(k) == Filled(a) \o y[k]
           U == {k \in Nat : k <= Len(b) => f[Len(a) + k] = Both(k)}
<1>5. Nat \subseteq T
  <2>1. 0 \in T
    BY <1>2, <1>3
  <2>2. \A k \in Nat : k \in T => k + 1 \in T
    <3> SUFFICES ASSUME NEW k \in Nat, k \in T, k + 1 <= Len(a)
                 PROVE  f[k + 1] = x[k + 1]
      OBVIOUS
    <3>1. k \in 0 .. Len(d) /\ k < Len(d) /\ k \in 0 .. Len(a) /\ k < Len(a) /\ k + 1 \in 1 .. Len(a) + Len(b)
      BY <1>1
    <3>2. f[k] = x[k] /\ d[k + 1] = a[k + 1]
      BY <3>1, <1>1
    <3>3. f[k + 1] = IF d[k + 1] = Nil THEN f[k] ELSE Append(f[k], d[k + 1])
      BY <3>1, <1>2
    <3>4. x[k + 1] = IF a[k + 1] = Nil THEN x[k] ELSE Append(x[k], a[k + 1])
      BY <3>1, <1>3
    <3> QED BY <3>2, <3>3, <3>4
  <2> HIDE DEF T
  <2> QED BY <2>1, <2>2, FromZero
<1>6. f[Len(a)] = Filled(a)
  BY <1>1, <1>3, <1>5
<1>7. Nat \subseteq U
  <2>1. 0 \in U
    <3>1. Filled(a) \o <<>> = Filled(a)
      BY <1>3
    <3>2. Len(a) + 0 = Len(a)
      BY <1>1
    <3>3. f[Len(a) + 0] = Filled(a) \o y[0]
      BY <3>1, <3>2, <1>4, <1>6
    <3> QED BY <3>3
  <2>2. \A k \in Nat : k \in U => k + 1 \in U
    <3> HIDE DEF Both
    <3> SUFFICES ASSUME NEW k \in Nat, k \in U, k + 1 <= Len(b)
                 PROVE  f[Len(a) + (k + 1)] = Both(k + 1)
      OBVIOUS
    <3> USE DEF Both
    <3> DEFINE j == Len(a) + k
    <3>1. j \in 0 .. Len(d) /\ j < Len(d) /\ k \in 0 .. Len(b) /\ k < Len(b) /\ j + 1 \in 1 .. Len(a) + Len(b)
          /\ ~(j + 1 <= Len(a)) /\ (j + 1) - Len(a) = k + 1 /\ Len(a) + (k + 1) = j + 1
      BY <1>1
    <3>2. f[j] = Filled(a) \o y[k]
      BY <1>1
    <3> HIDE DEF j
    <3>3. d[j + 1] = b[k + 1]
      BY <3>1, <1>1
    <3>4. f[j + 1] = IF d[j + 1] = Nil THEN f[j] ELSE Append(f[j], d[j + 1])
      BY <3>1, <1>2
    <3>5. y[k + 1] = IF b[k + 1] = Nil THEN y[k] ELSE Append(y[k], b[k + 1])
      BY <3>1, <1>4
    <3>6. CASE b[k + 1] = Nil
      BY <3>1, <3>2, <3>3, <3>4, <3>5, <3>6
    <3>7. CASE b[k + 1] # Nil
      <4>1. b[k + 1] \in Items
        <5>1. k + 1 \in 1 .. Len(b)
          BY <3>1
        <5> QED BY <5>1, <3>7 DEF Slots
      <4>2. y[k] \in Seq(Items) /\ Filled(a) \in Seq(Items)
        BY <3>1, <1>3, <1>4
      <4>3. Append(Filled(a) \o y[k], b[k + 1]) = Filled(a) \o Append(y[k], b[k + 1])
        <5> DEFINE u == Filled(a)
                   v == y[k]
                   e == b[k + 1]
        <5>1. u \in Seq(Items) /\ v \in Seq(Items) /\ e \in Items
          BY <4>1, <4>2
        <5> HIDE DEF u, v, e
        <5>2. Append(u \o v, e) = u \o Append(v, e)
          BY <5>1, AppendBehind
        <5> QED BY <5>2 DEF u, v, e
      <4> QED BY <4>3, <3>1, <3>2, <3>3, <3>4, <3>5, <3>7
    <3> QED BY <3>6, <3>7
  <2> HIDE DEF U
  <2> QED BY <2>1, <2>2, FromZero
<1>8. f[Len(a) + Len(b)] = Filled(a) \o y[Len(b)]
  <2>1. Len(b) \in U
    <3> HIDE DEF U
    <3> QED BY <1>1, <1>7
  <2> QED BY <2>1, <1>1
<1> QED BY <1>1, <1>2, <1>4, <1>8 DEF d

\* An element between two others is there unless it is Nil.
LEMMA FilledBetween ==
  ASSUME NEW a \in Seq(Slots), NEW c \in Seq(Slots)
  PROVE  /\ Filled(Between(a, Nil, c)) = Filled(a) \o Filled(c)
         /\ \A e \in Items : Filled(Between(a, e, c)) = Between(Filled(a), e, Filled(c))
<1>0. Filled(a) \in Seq(Items) /\ Filled(c) \in Seq(Items)
  BY GotAt
<1>1. ASSUME NEW e \in Slots
      PROVE  Filled(Between(a, e, c)) = (Filled(a) \o Filled(<<e>>)) \o Filled(c)
  <2> DEFINE b == a \o <<e>>
  <2>1. <<e>> \in Seq(Slots)
    OBVIOUS
  <2>2. b \in Seq(Slots) /\ Filled(b) = Filled(a) \o Filled(<<e>>)
    BY <2>1, ConcatIs, FilledConcat
  <2>3. Between(a, e, c) = b \o c
    BY DEF Between
  <2> HIDE DEF b
  <2> QED BY <2>2, <2>3, FilledConcat
<1>2. ASSUME NEW e \in Slots
      PROVE  Filled(<<e>>) = IF e = Nil THEN <<>> ELSE <<e>>
  <2> DEFINE s == <<e>>
  <2>1. s \in Seq(Slots) /\ Len(s) = 1 /\ s[1] = e
    OBVIOUS
  <2> HIDE DEF s
  <2>2. /\ GotOf(s)[0] = <<>> /\ Filled(s) = GotOf(s)[Len(s)]
        /\ \A k \in 0 .. Len(s) : k < Len(s) => GotOf(s)[k + 1] =
               IF s[k + 1] = Nil THEN GotOf(s)[k] ELSE Append(GotOf(s)[k], s[k + 1])
    BY <2>1, GotAt
  <2>3. GotOf(s)[0 + 1] = IF s[0 + 1] = Nil THEN GotOf(s)[0] ELSE Append(GotOf(s)[0], s[0 + 1])
    <3>1. 0 \in 0 .. Len(s) /\ 0 < Len(s)
      BY <2>1
    <3> QED BY <3>1, <2>2
  <2>4. Filled(s) = IF e = Nil THEN <<>> ELSE Append(<<>>, e)
    BY <2>1, <2>2, <2>3
  <2>5. Append(<<>>, e) = <<e>>
    OBVIOUS
  <2> QED BY <2>4, <2>5 DEF s
<1>3. Filled(Between(a, Nil, c)) = Filled(a) \o Filled(c)
  <2>1. Nil \in Slots
    BY DEF Slots
  <2>2. Filled(Between(a, Nil, c)) = (Filled(a) \o <<>>) \o Filled(c)
    BY <2>1, <1>1, <1>2
  <2>3. Filled(a) \o <<>> = Filled(a)
    BY <1>0
  <2> QED BY <2>2, <2>3
<1>4. ASSUME NEW e \in Items
      PROVE  Filled(Between(a, e, c)) = Between(Filled(a), e, Filled(c))
  <2>1. e \in Slots /\ e # Nil
    BY NodesAssumption DEF Slots
  <2>2. Filled(<<e>>) = <<e>>
    BY <2>1, <1>2
  <2> QED BY <2>1, <2>2, <1>1 DEF Between
<1> QED BY <1>3, <1>4

\* Nothing is lost and nothing added.
LEMMA FilledHas ==
  ASSUME NEW s \in Seq(Slots)
  PROVE  Range(Filled(s)) = Range(s) \ {Nil}
<1> DEFINE f == GotOf(s)
           Upto(k) == {s[i] : i \in 1 .. k} \ {Nil}
           T == {k \in Nat : k <= Len(s) => Range(f[k]) = Upto(k)}
<1>1. /\ f[0] = <<>>
      /\ \A k \in 0 .. Len(s) : f[k] \in Seq(Items) /\
            (k < Len(s) => f[k + 1] = IF s[k + 1] = Nil THEN f[k] ELSE Append(f[k], s[k + 1]))
      /\ Filled(s) = f[Len(s)] /\ Len(s) \in Nat
  BY GotAt
<1> HIDE DEF f
<1>2. 0 \in T
  <2>1. Range(<<>>) = {} /\ Upto(0) = {}
    BY DEF Range
  <2> QED BY <2>1, <1>1
<1>3. \A k \in Nat : k \in T => k + 1 \in T
  <2> HIDE DEF Upto
  <2> SUFFICES ASSUME NEW k \in Nat, k \in T, k + 1 <= Len(s)
               PROVE  Range(f[k + 1]) = Upto(k + 1)
    OBVIOUS
  <2> USE DEF Upto
  <2>1. k \in 0 .. Len(s) /\ k < Len(s) /\ f[k] \in Seq(Items)
    BY <1>1
  <2>2. f[k + 1] = IF s[k + 1] = Nil THEN f[k] ELSE Append(f[k], s[k + 1])
    BY <1>1, <2>1
  <2>3. Range(f[k]) = Upto(k)
    BY <1>1
  <2>4. {s[i] : i \in 1 .. k + 1} = {s[i] : i \in 1 .. k} \cup {s[k + 1]}
    <3>1. 1 .. k + 1 = (1 .. k) \cup {k + 1}
      OBVIOUS
    <3> QED BY <3>1
  <2>5. CASE s[k + 1] = Nil
    BY <2>2, <2>3, <2>4, <2>5
  <2>6. CASE s[k + 1] # Nil
    <3> DEFINE g == f[k]
               e == s[k + 1]
    <3>1. \A x : x \in Range(Append(g, e)) <=> x \in Range(g) \/ x = e
      <4>1. e \in Items
        <5>1. k + 1 \in 1 .. Len(s)
          BY <1>1
        <5> QED BY <5>1, <2>6 DEF Slots
      <4>2. g \in Seq(Items)
        BY <2>1
      <4> HIDE DEF g, e
      <4> DEFINE t == Append(g, e)
      <4>3. /\ DOMAIN t = 1 .. Len(g) + 1 /\ DOMAIN g = 1 .. Len(g) /\ Len(g) \in Nat
            /\ t[Len(g) + 1] = e /\ \A i \in 1 .. Len(g) : t[i] = g[i]
        BY <4>1, <4>2
      <4> HIDE DEF t
      <4>4. \A i : i \in DOMAIN t <=> i \in DOMAIN g \/ i = Len(g) + 1
        BY <4>3
      <4>5. Range(t) = Range(g) \cup {e}
        <5>1. \A i \in DOMAIN g : i \in DOMAIN t /\ t[i] = g[i]
          BY <4>3, <4>4
        <5> QED BY <4>3, <4>4, <5>1 DEF Range
      <4> QED BY <4>5 DEF t
    <3> HIDE DEF g, e
    <3>2. Range(Append(g, e)) = Range(g) \cup {e}
      BY <3>1
    <3> QED BY <2>2, <2>3, <2>4, <2>6, <3>2 DEF g, e
  <2> QED BY <2>5, <2>6
<1>4. Nat \subseteq T
  <2> HIDE DEF T
  <2> QED BY <1>2, <1>3, FromZero
<1>5. Range(f[Len(s)]) = Upto(Len(s))
  <2>1. Len(s) \in T
    <3> HIDE DEF T
    <3> QED BY <1>1, <1>4
  <2> QED BY <2>1, <1>1
<1>6. Range(s) = {s[i] : i \in 1 .. Len(s)}
  BY DEF Range
<1> QED BY <1>1, <1>5, <1>6

-----------------------------------------------------------------------------
(* The lists are those of ItemLists *)

On(it, s) == [i \in 1 .. Len(s) |-> it[s[i]]]
CarriedOf(it, r, H) == [h \in H |-> Filled(On(it, r[h]))]
CarryOf(kd, nx, it) ==
    [h \in HeadsOf(kd) |-> Filled([i \in DOMAIN RingOf(nx, h) |-> it[RingOf(nx, h)[i]]])]

\* Carried, before and after a step
LEMMA CarriedDef == Carried = CarryOf(kind, next, item) /\ Carried' = CarryOf(kind', next', item')
<1>1. \A h : Ring(h) = RingOf(next, h) /\ Ring(h)' = RingOf(next', h)
  BY DEF Ring, RingOf, AfterFrom
<1>2. \A h : /\ Contents(h) = [i \in DOMAIN RingOf(next, h) |-> item[RingOf(next, h)[i]]]
             /\ Contents(h)' = [i \in DOMAIN RingOf(next', h) |-> item'[RingOf(next', h)[i]]]
  BY <1>1 DEF Contents
<1>3. Carried = CarryOf(kind, next, item)
  <2>1. Heads = HeadsOf(kind)
    BY DEF Heads, HeadsOf
  <2> QED BY <1>2, <2>1 DEF Carried, CarryOf
<1>4. Carried' = CarryOf(kind', next', item')
  <2>1. Heads' = HeadsOf(kind')
    BY DEF Heads, HeadsOf
  <2> QED BY <1>2, <2>1 DEF Carried, CarryOf
<1> QED BY <1>3, <1>4

\* In a sound state it is what the rings carry.
LEMMA CarryIs ==
  ASSUME NEW kd, NEW nx, NEW pv, NEW it, NEW d, NEW r, Sound(kd, nx, pv, it, d, r)
  PROVE  CarryOf(kd, nx, it) = CarriedOf(it, r, HeadsOf(kd))
<1>1. \A h \in HeadsOf(kd) : RingOf(nx, h) = r[h] /\ DOMAIN r[h] = 1 .. Len(r[h])
  BY RingsSound DEF Sound
<1>2. \A h \in HeadsOf(kd) : [i \in DOMAIN RingOf(nx, h) |-> it[RingOf(nx, h)[i]]] = On(it, r[h])
  BY <1>1 DEF On
<1> QED BY <1>2 DEF CarryOf, CarriedOf

\* So it is in the states of a step.
LEMMA CarriedNow ==
  /\ SoundNow => Carried = CarriedOf(item, Rings, HeadsOf(kind))
  /\ SoundNow' => Carried' = CarriedOf(item', Rings', HeadsOf(kind'))
<1>1. SoundNow => Carried = CarriedOf(item, Rings, HeadsOf(kind))
  <2>1. SoundNow => CarryOf(kind, next, item) = CarriedOf(item, Rings, HeadsOf(kind))
    BY CarryIs DEF SoundNow
  <2> QED BY <2>1, CarriedDef
<1>2. SoundNow' => Carried' = CarriedOf(item', Rings', HeadsOf(kind'))
  <2>1. SoundNow' <=> Sound(kind', next', prev', item', destroyed', Rings')
    BY DEF SoundNow
  <2>2. SoundNow' => CarryOf(kind', next', item') = CarriedOf(item', Rings', HeadsOf(kind'))
    BY <2>1, CarryIs
  <2> QED BY <2>2, CarriedDef
<1> QED BY <1>1, <1>2

\* What the nodes of a ring carry, in order
LEMMA OnIs ==
  ASSUME NEW it \in [Nodes -> Slots], NEW s \in Seq(Nodes)
  PROVE  /\ On(it, s) \in Seq(Slots) /\ Len(On(it, s)) = Len(s) /\ Len(s) \in Nat
         /\ \A i \in 1 .. Len(s) : On(it, s)[i] = it[s[i]] /\ s[i] \in Nodes
BY DEF On

\* Only what its own nodes carry matters to a ring.
LEMMA OnSame ==
  ASSUME NEW it, NEW it2, NEW s, \A i \in 1 .. Len(s) : it2[s[i]] = it[s[i]]
  PROVE  On(it2, s) = On(it, s)
BY DEF On

\* What is carried by all rings in a sound state
LEMMA CarriesOn ==
  ASSUME SoundNow, NEW h \in HeadsOf(kind)
  PROVE  /\ Rings[h] \in Seq(Nodes) /\ Len(Rings[h]) \in Nat /\ item \in [Nodes -> Slots] /\ h \in Nodes
         /\ On(item, Rings[h]) \in Seq(Slots) /\ Len(On(item, Rings[h])) = Len(Rings[h])
         /\ \A i \in 1 .. Len(Rings[h]) :
               /\ On(item, Rings[h])[i] = item[Rings[h][i]] /\ Rings[h][i] \in Nodes
               /\ InList(kind, Rings[h][i])
         /\ Carried[h] = Filled(On(item, Rings[h])) /\ Carried[h] \in Seq(Items)
         /\ DOMAIN Carried = HeadsOf(kind)
<1>1. Pointers(kind, next, prev) /\ Whole(kind, next, prev, Rings) /\ Carries(kind, item, destroyed)
  BY DEF SoundNow, Sound
<1>2. Rings[h] \in Seq(Nodes) /\ Len(Rings[h]) \in Nat /\ h \in Nodes
  BY <1>1, RingsSound
<1>3. item \in [Nodes -> Slots]
  BY <1>1 DEF Carries, Slots
<1>4. /\ On(item, Rings[h]) \in Seq(Slots) /\ Len(On(item, Rings[h])) = Len(Rings[h])
      /\ \A i \in 1 .. Len(Rings[h]) : On(item, Rings[h])[i] = item[Rings[h][i]] /\ Rings[h][i] \in Nodes
  BY <1>2, <1>3, OnIs
<1>5. \A i \in 1 .. Len(Rings[h]) : InList(kind, Rings[h][i])
  BY <1>1 DEF Whole
<1>6. Carried = CarriedOf(item, Rings, HeadsOf(kind))
  BY CarriedNow
<1>7. Carried[h] = Filled(On(item, Rings[h])) /\ DOMAIN Carried = HeadsOf(kind)
  BY <1>6 DEF CarriedOf
<1>8. Filled(On(item, Rings[h])) \in Seq(Items)
  BY <1>4, GotAt
<1> QED BY <1>2, <1>3, <1>4, <1>5, <1>7, <1>8

\* dll_init makes an empty list.
LEMMA CreateRefines ==
  ASSUME SoundNow, NEW n, Create(n)
  PROVE  Abstract!Create
<1>1. /\ SoundNow' /\ n \in Nodes /\ n \notin HeadsOf(kind) /\ kind[n] = "free"
      /\ Rings' = Grown(kind, Rings, n)
  BY CreateStep
<1>2. item' = [item EXCEPT ![n] = Nil] /\ destroyed' = destroyed /\ kind' = [kind EXCEPT ![n] = "head"]
  BY DEF Create, Blank
<1>3. kind \in [Nodes -> NodeKinds]
  BY DEF SoundNow, Sound, Pointers
<1>4. HeadsOf(kind') = HeadsOf(kind) \cup {n}
  BY <1>1, <1>2, <1>3 DEF HeadsOf
<1>5. Carried' = CarriedOf(item', Rings', HeadsOf(kind'))
  BY <1>1, CarriedNow
<1>6. ASSUME NEW h \in HeadsOf(kind)
      PROVE  Carried'[h] = Carried[h]
  <2>1. \A i \in 1 .. Len(Rings[h]) : Rings[h][i] # n /\ item'[Rings[h][i]] = item[Rings[h][i]]
    BY <1>1, <1>2, CarriesOn DEF InList
  <2>2. Rings'[h] = Rings[h]
    BY <1>1 DEF Grown
  <2>3. On(item', Rings'[h]) = On(item, Rings[h])
    BY <2>1, <2>2, OnSame
  <2> QED BY <2>3, <1>4, <1>5, CarriesOn DEF CarriedOf
<1>7. Carried'[n] = <<>>
  <2>1. Rings'[n] = <<>>
    BY <1>1 DEF Grown
  <2>2. On(item', <<>>) = <<>>
    BY DEF On
  <2>3. Filled(<<>>) = <<>>
    <3>1. <<>> \in Seq(Slots) /\ Len(<<>>) = 0
      OBVIOUS
    <3> QED BY <3>1, GotAt
  <2>4. n \in HeadsOf(kind')
    BY <1>4
  <2> QED BY <2>1, <2>2, <2>3, <2>4, <1>5 DEF CarriedOf
<1>8. DOMAIN Carried = HeadsOf(kind) /\ DOMAIN Carried' = HeadsOf(kind')
  BY <1>5, CarriedNow DEF CarriedOf
<1>9. Carried' = [h \in HeadsOf(kind') |-> Carried'[h]]
  BY <1>5 DEF CarriedOf
<1>10. Carried' = [m \in DOMAIN Carried \cup {n} |-> IF m = n THEN <<>> ELSE Carried[m]]
  <2> DEFINE f == [m \in HeadsOf(kind) \cup {n} |-> IF m = n THEN <<>> ELSE Carried[m]]
  <2>1. \A m \in HeadsOf(kind) \cup {n} : f[m] = Carried'[m]
    BY <1>1, <1>6, <1>7
  <2> QED BY <2>1, <1>4, <1>8, <1>9
<1> QED BY <1>1, <1>2, <1>8, <1>10 DEF Abstract!Create

\* dll_insert: the new node carries nothing yet.
LEMMA InsertRefines ==
  ASSUME SoundNow, NEW n \in Nodes, Insert(n)
  PROVE  Carried' = Carried /\ destroyed' = destroyed
<1> DEFINE m == Malloc
<1>1. /\ SoundNow' /\ m \in Nodes /\ kind[m] = "free" /\ HeadsOf(kind') = HeadsOf(kind)
      /\ item' = [item EXCEPT ![m] = Nil] /\ destroyed' = destroyed
      /\ \E h \in HeadsOf(kind) : \E p \in 1 .. Len(Rings[h]) + 1 :
            Rings' = [Rings EXCEPT ![h] = InsertAt(Rings[h], p, m)]
  BY InsertStep
<1> HIDE DEF m
<1>2. PICK h \in HeadsOf(kind) : \E p \in 1 .. Len(Rings[h]) + 1 :
            Rings' = [Rings EXCEPT ![h] = InsertAt(Rings[h], p, m)]
  BY <1>1
<1>3. PICK p \in 1 .. Len(Rings[h]) + 1 : Rings' = [Rings EXCEPT ![h] = InsertAt(Rings[h], p, m)]
  BY <1>2
<1>4. Carried' = CarriedOf(item', Rings', HeadsOf(kind'))
  BY <1>1, CarriedNow
<1>5. Rings = [g \in HeadsOf(kind) |-> Rings[g]]
  BY DEF Rings, RingsOf
<1>6. \A g \in HeadsOf(kind) : On(item', Rings[g]) = On(item, Rings[g])
  <2> TAKE g \in HeadsOf(kind)
  <2>1. /\ \A i \in 1 .. Len(Rings[g]) : Rings[g][i] \in Nodes /\ InList(kind, Rings[g][i])
        /\ item \in [Nodes -> Slots]
    BY CarriesOn
  <2>2. \A i \in 1 .. Len(Rings[g]) : Rings[g][i] # m
    BY <2>1, <1>1 DEF InList
  <2>3. item' = [item EXCEPT ![m] = Nil]
    BY <1>1
  <2>4. \A i \in 1 .. Len(Rings[g]) : item'[Rings[g][i]] = item[Rings[g][i]]
    BY <2>1, <2>2, <2>3
  <2> QED BY <2>4, OnSame
<1>7. \A g \in HeadsOf(kind) : g # h => Filled(On(item', Rings'[g])) = Carried[g]
  <2> TAKE g \in HeadsOf(kind)
  <2> HAVE g # h
  <2>1. Rings'[g] = Rings[g]
    BY <1>3, <1>5
  <2> QED BY <2>1, <1>6, CarriesOn
<1>8. Filled(On(item', Rings'[h])) = Carried[h]
  <2> DEFINE s == Rings[h]
             t == InsertAt(s, p, m)
             u == On(item, s)
             v == InsertAt(u, p, Nil)
             w == On(item', t)
  <2>1. /\ s \in Seq(Nodes) /\ Len(s) \in Nat /\ p \in 1 .. Len(s) + 1 /\ Rings'[h] = t
        /\ u \in Seq(Slots) /\ Len(u) = Len(s) /\ \A i \in 1 .. Len(s) : u[i] = item[s[i]]
        /\ item \in [Nodes -> Slots] /\ Nil \in Slots /\ p \in Nat
    BY <1>3, <1>5, CarriesOn DEF Slots
  <2>2. \A i \in 1 .. Len(s) : item'[s[i]] = u[i]
    <3>1. \A i \in 1 .. Len(s) : s[i] # m /\ s[i] \in Nodes
      BY <1>1, CarriesOn DEF InList
    <3>2. item' = [item EXCEPT ![m] = Nil]
      BY <1>1
    <3>3. \A i \in 1 .. Len(s) : u[i] = item[s[i]]
      BY <2>1
    <3>4. DOMAIN item = Nodes
      BY <2>1
    <3> HIDE DEF s, u
    <3> QED BY <3>1, <3>2, <3>3, <3>4
  <2> HIDE DEF s, u
  <2>3. /\ t \in Seq(Nodes) /\ Len(t) = Len(s) + 1
        /\ \A i \in 1 .. Len(s) + 1 : t[i] = IF i < p THEN s[i] ELSE IF i = p THEN m ELSE s[i - 1]
    <3>1. s \in Seq(Nodes) /\ Len(s) \in Nat /\ p \in Nat /\ p - 1 \in 0 .. Len(s) /\ m \in Nodes
      BY <2>1, <1>1
    <3>2. MayGo(Nodes, s, p, m)
      BY <3>1 DEF MayGo
    <3> QED BY <3>2, InsertAtIs
  <2>4. /\ v \in Seq(Slots) /\ Len(v) = Len(u) + 1
        /\ \A i \in 1 .. Len(u) + 1 : v[i] = IF i < p THEN u[i] ELSE IF i = p THEN Nil ELSE u[i - 1]
    <3>1. u \in Seq(Slots) /\ Len(u) \in Nat /\ p \in Nat /\ p - 1 \in 0 .. Len(u) /\ Nil \in Slots
      BY <2>1
    <3>2. MayGo(Slots, u, p, Nil)
      BY <3>1 DEF MayGo
    <3> QED BY <3>2, InsertAtIs
  <2> HIDE DEF t, v
  <2>5. w \in Seq(Slots) /\ Len(w) = Len(t) /\ \A i \in 1 .. Len(t) : w[i] = item'[t[i]]
    <3>1. item' \in [Nodes -> Slots]
      BY <2>1, <1>1
    <3> QED BY <3>1, <2>3, OnIs
  <2> HIDE DEF w
  <2>6. ASSUME NEW i \in 1 .. Len(w)
        PROVE  w[i] = v[i]
    <3>0. i \in 1 .. Len(s) + 1 /\ i \in 1 .. Len(u) + 1 /\ i \in 1 .. Len(t)
      BY <2>1, <2>3, <2>5
    <3>1. CASE i < p
      <4>1. t[i] = s[i] /\ v[i] = u[i] /\ i \in 1 .. Len(s)
        BY <3>0, <3>1, <2>1, <2>3, <2>4
      <4> QED BY <4>1, <3>0, <2>2, <2>5
    <3>2. CASE i = p
      <4>1. t[i] = m /\ v[i] = Nil
        BY <3>0, <3>2, <2>1, <2>3, <2>4
      <4>2. item'[m] = Nil
        BY <2>1, <1>1
      <4> QED BY <4>1, <4>2, <3>0, <2>5
    <3>3. CASE i > p
      <4>1. t[i] = s[i - 1] /\ v[i] = u[i - 1] /\ i - 1 \in 1 .. Len(s)
        BY <3>0, <3>3, <2>1, <2>3, <2>4
      <4> QED BY <4>1, <3>0, <2>2, <2>5
    <3> QED BY <3>0, <3>1, <3>2, <3>3, <2>1
  <2>7. w = v
    <3>1. Len(w) = Len(v)
      BY <2>1, <2>3, <2>4, <2>5
    <3> QED BY <3>1, <2>4, <2>5, <2>6, SameSeq
  <2>8. Filled(v) = Filled(u)
    <3>1. PICK a, c \in Seq(Slots) : CutsBefore(Slots, u, p, a, c)
      <4>1. u \in Seq(Slots) /\ Len(u) \in Nat /\ p \in Nat /\ p - 1 \in 0 .. Len(u)
        BY <2>1
      <4> QED BY <4>1, CutBefore
    <3>2. v = Between(a, Nil, c)
      BY <3>1, <2>1 DEF v, CutsBefore
    <3>3. Filled(v) = Filled(a) \o Filled(c)
      BY <3>2, FilledBetween
    <3>4. Filled(u) = Filled(a) \o Filled(c)
      BY <3>1, FilledConcat DEF CutsBefore
    <3> QED BY <3>3, <3>4
  <2>9. Carried[h] = Filled(u)
    BY CarriesOn DEF u, s
  <2> QED BY <2>1, <2>7, <2>8, <2>9 DEF w
<1>9. \A g \in HeadsOf(kind) : Filled(On(item', Rings'[g])) = Carried[g]
  BY <1>7, <1>8
<1>10. Carried = [g \in HeadsOf(kind) |-> Carried[g]]
  BY CarriedNow DEF CarriedOf
<1>11. Carried' = [g \in HeadsOf(kind) |-> Filled(On(item', Rings'[g]))]
  BY <1>1, <1>4 DEF CarriedOf
<1>12. Carried' = Carried
  BY <1>9, <1>10, <1>11
<1> QED BY <1>1, <1>12

\* ItemLists means the same by the operators on sequences.
LEMMA SameWords ==
  /\ \A s, i, x : Abstract!InsertAt(s, i, x) = InsertAt(s, i, x)
  /\ \A s, i : Abstract!RemoveAt(s, i) = RemoveAt(s, i)
  /\ \A f : Abstract!Range(f) = Range(f)
BY DEF Abstract!InsertAt, InsertAt, Abstract!RemoveAt, RemoveAt, Abstract!Range, Range

\* No list carries an item that no node holds, nor one that is destroyed.
LEMMA ListedHeld == SoundNow => Abstract!Listed \subseteq Held
<1> SUFFICES ASSUME SoundNow
             PROVE  Abstract!Listed \subseteq Held
  OBVIOUS
<1>1. ASSUME NEW h \in HeadsOf(kind), NEW x \in Range(Carried[h])
      PROVE  x \in Held
  <2> DEFINE u == On(item, Rings[h])
  <2>1. /\ u \in Seq(Slots) /\ Carried[h] = Filled(u) /\ Len(u) = Len(Rings[h])
        /\ \A i \in 1 .. Len(Rings[h]) : u[i] = item[Rings[h][i]] /\ Rings[h][i] \in Nodes /\ InList(kind, Rings[h][i])
    BY CarriesOn
  <2> HIDE DEF u
  <2>2. x \in Range(u) /\ x # Nil
    BY <2>1, FilledHas
  <2>3. DOMAIN u = 1 .. Len(u)
    BY <2>1
  <2>4. PICK i \in 1 .. Len(Rings[h]) : x = u[i]
    BY <2>1, <2>2, <2>3 DEF Range
  <2>5. x = item[Rings[h][i]] /\ Rings[h][i] \in Allocated
    BY <2>1, <2>4 DEF InList, Allocated
  <2> QED BY <2>2, <2>5 DEF Held
<1>2. DOMAIN Carried = HeadsOf(kind)
  BY CarriedNow DEF CarriedOf
<1> QED BY <1>1, <1>2, SameWords DEF Abstract!Listed

\* dll_assign puts the item at its place among those that are there.
LEMMA AssignRefines ==
  ASSUME SoundNow, NEW n \in Nodes, NEW x \in Items \ (Held \cup destroyed), Assign(n, x)
  PROVE  Abstract!Insert
<1>1. SoundNow' /\ Rings' = Rings /\ HeadsOf(kind') = HeadsOf(kind)
  BY AssignStep
<1>2. kind[n] = "none" /\ item' = [item EXCEPT ![n] = x] /\ destroyed' = destroyed
  BY DEF Assign
<1>3. PICK h \in HeadsOf(kind) : \E p \in 1 .. Len(Rings[h]) : Rings[h][p] = n
  <2>1. \E h \in HeadsOf(kind) : \E p \in 1 .. Len(Rings[h]) + 1 : p \in 1 .. Len(Rings[h]) /\ Rings[h][p] = n
    BY <1>2, PlaceNow DEF InList
  <2> QED BY <2>1
<1>4. PICK p \in 1 .. Len(Rings[h]) : Rings[h][p] = n
  BY <1>3
<1>5. \A g \in HeadsOf(kind) : \A i \in 1 .. Len(Rings[g]) : Rings[g][i] = n => g = h /\ i = p
  BY <1>4 DEF SoundNow, Sound, Whole
<1>6. Carried' = [g \in HeadsOf(kind) |-> Filled(On(item', Rings[g]))]
  BY <1>1, CarriedNow DEF CarriedOf
<1>7. ASSUME NEW g \in HeadsOf(kind), g # h
      PROVE  Filled(On(item', Rings[g])) = Carried[g]
  <2>1. \A i \in 1 .. Len(Rings[g]) : Rings[g][i] # n /\ item'[Rings[g][i]] = item[Rings[g][i]]
    BY <1>2, <1>5, <1>7, CarriesOn
  <2>2. On(item', Rings[g]) = On(item, Rings[g])
    BY <2>1, OnSame
  <2> QED BY <2>2, CarriesOn
<1> DEFINE s == Rings[h]
           u == On(item, s)
           w == On(item', s)
           v == Filled(u)
<1>8. /\ s \in Seq(Nodes) /\ Len(s) \in Nat /\ u \in Seq(Slots) /\ Len(u) = Len(s)
      /\ \A i \in 1 .. Len(s) : u[i] = item[s[i]] /\ s[i] \in Nodes
      /\ item \in [Nodes -> Slots] /\ Carried[h] = v /\ v \in Seq(Items) /\ x \in Slots /\ x \in Items
  BY CarriesOn DEF Slots
<1>9. u[p] = Nil
  <2>1. item[n] = Nil
    BY <1>2 DEF SoundNow, Sound, Carries
  <2> QED BY <2>1, <1>4, <1>8
<1>10. \A i \in 1 .. Len(s) : s[i] = n => i = p
  BY <1>5
<1>11. p \in 1 .. Len(s) /\ s[p] = n
  BY <1>4
<1> HIDE DEF s, u
<1>12. w \in Seq(Slots) /\ Len(w) = Len(s) /\ \A i \in 1 .. Len(s) : w[i] = item'[s[i]]
  <2>1. item' \in [Nodes -> Slots]
    BY <1>2, <1>8
  <2> QED BY <2>1, <1>8, OnIs
<1> HIDE DEF w, v
<1>13. w = [u EXCEPT ![p] = x]
  <2> DEFINE t == [u EXCEPT ![p] = x]
  <2>1. t \in Seq(Slots) /\ Len(t) = Len(u) /\ \A i \in 1 .. Len(u) : t[i] = IF i = p THEN x ELSE u[i]
    BY <1>8, <1>11
  <2> HIDE DEF t
  <2>2. ASSUME NEW i \in 1 .. Len(w)
        PROVE  w[i] = t[i]
    <3>0. i \in 1 .. Len(s) /\ i \in 1 .. Len(u) /\ s[i] \in Nodes
      BY <1>8, <1>12
    <3>1. CASE i = p
      BY <3>0, <3>1, <2>1, <1>2, <1>8, <1>11, <1>12
    <3>2. CASE i # p
      <4>1. s[i] # n
        BY <3>0, <3>2, <1>10
      <4>2. item'[s[i]] = item[s[i]]
        BY <4>1, <3>0, <1>2, <1>8
      <4> QED BY <4>2, <3>0, <3>2, <2>1, <1>8, <1>12
    <3> QED BY <3>1, <3>2
  <2>3. Len(w) = Len(t)
    BY <2>1, <1>8, <1>12
  <2>4. w = t
    BY <2>1, <2>2, <2>3, <1>12, SameSeq
  <2> QED BY <2>4 DEF t
<1>14. \E a, c \in Seq(Slots) : CutsAt(Slots, u, p, a, c)
  <2>1. u \in Seq(Slots) /\ Len(u) \in Nat /\ p \in Nat /\ p - 1 \in 0 .. Len(u) - 1
    BY <1>8, <1>11
  <2> QED BY <2>1, CutAt
<1>15. PICK a, c \in Seq(Slots) : CutsAt(Slots, u, p, a, c)
  BY <1>14
<1>16. u = Between(a, Nil, c) /\ w = Between(a, x, c)
  BY <1>8, <1>9, <1>13, <1>15 DEF CutsAt
<1>17. v = Filled(a) \o Filled(c) /\ Filled(w) = Between(Filled(a), x, Filled(c))
  BY <1>8, <1>16, FilledBetween DEF v
<1>18. PICK i \in 1 .. Len(v) + 1 : InsertAt(v, i, x) = Filled(w)
  <2>1. Filled(a) \in Seq(Items) /\ Filled(c) \in Seq(Items)
    BY GotAt
  <2> DEFINE y == Filled(a)
             z == Filled(c)
  <2> HIDE DEF y, z
  <2>2. \E i \in 1 .. Len(y \o z) + 1 : InsertAt(y \o z, i, x) = Between(y, x, z)
    BY <2>1, <1>8, JoinedAt DEF y, z
  <2> QED BY <2>2, <1>17 DEF y, z
<1>19. Carried = [g \in HeadsOf(kind) |-> Carried[g]]
  BY CarriedNow DEF CarriedOf
<1>20. Filled(On(item', Rings[h])) = Filled(w)
  BY DEF w, s
<1>21. Carried' = [Carried EXCEPT ![h] = InsertAt(Carried[h], i, x)]
  <2> DEFINE f == [Carried EXCEPT ![h] = InsertAt(Carried[h], i, x)]
  <2>1. f = [g \in HeadsOf(kind) |-> f[g]] /\ f[h] = InsertAt(Carried[h], i, x)
        /\ \A g \in HeadsOf(kind) : g # h => f[g] = Carried[g]
    BY <1>19
  <2> HIDE DEF f
  <2>2. \A g \in HeadsOf(kind) : f[g] = Filled(On(item', Rings[g]))
    BY <2>1, <1>7, <1>8, <1>18, <1>20
  <2>3. Carried' = f
    BY <2>1, <2>2, <1>6
  <2> QED BY <2>3 DEF f
<1>22. x \in Abstract!Unused
  BY ListedHeld DEF Abstract!Unused
<1>23. DOMAIN Carried = HeadsOf(kind) /\ i \in 1 .. Len(Carried[h]) + 1
  BY <1>8, <1>19
<1> QED BY <1>2, <1>21, <1>22, <1>23, SameWords DEF Abstract!Insert

\* dll_delete and dll_delete_node take an item out, or nothing.
LEMMA DeleteRefines ==
  ASSUME SoundNow, NEW n \in Nodes, InList(kind, n), Disconnected(n), Freed(n), item' = item,
         destroyed' = destroyed \/ (kind[n] = "data" /\ destroyed' = WithDestroyed(n))
  PROVE  Abstract!TakeOut \/ (Carried' = Carried /\ destroyed' = destroyed)
<1>1. /\ SoundNow' /\ HeadsOf(kind') = HeadsOf(kind)
      /\ \E h \in HeadsOf(kind) : \E p \in 1 .. Len(Rings[h]) :
            Rings[h][p] = n /\ Rings' = [Rings EXCEPT ![h] = RemoveAt(Rings[h], p)]
  BY DeleteStep
<1>3. PICK h \in HeadsOf(kind) : \E p \in 1 .. Len(Rings[h]) :
            Rings[h][p] = n /\ Rings' = [Rings EXCEPT ![h] = RemoveAt(Rings[h], p)]
  BY <1>1
<1>4. PICK p \in 1 .. Len(Rings[h]) : Rings[h][p] = n /\ Rings' = [Rings EXCEPT ![h] = RemoveAt(Rings[h], p)]
  BY <1>3
<1>5. Rings = [g \in HeadsOf(kind) |-> Rings[g]]
  BY DEF Rings, RingsOf
<1>6. Carried' = [g \in HeadsOf(kind) |-> Filled(On(item, Rings'[g]))]
  BY <1>1, CarriedNow DEF CarriedOf
<1>7. \A g \in HeadsOf(kind) : g # h => Filled(On(item, Rings'[g])) = Carried[g]
  BY <1>4, <1>5, CarriesOn
<1> DEFINE s == Rings[h]
           t == RemoveAt(s, p)
           u == On(item, s)
           w == On(item, t)
           v == Filled(u)
           x == RemoveAt(u, p)
<1>8. /\ s \in Seq(Nodes) /\ Len(s) \in Nat /\ u \in Seq(Slots) /\ Len(u) = Len(s)
      /\ \A i \in 1 .. Len(s) : u[i] = item[s[i]] /\ s[i] \in Nodes
      /\ item \in [Nodes -> Slots] /\ Carried[h] = v /\ v \in Seq(Items)
      /\ p \in Nat /\ p - 1 \in 0 .. Len(s) - 1 /\ s[p] = n /\ Rings'[h] = t
  BY <1>4, <1>5, CarriesOn
<1> HIDE DEF s, u
<1>9. /\ t \in Seq(Nodes) /\ Len(t) = Len(s) - 1
      /\ \A i \in 1 .. Len(s) - 1 : t[i] = IF i < p THEN s[i] ELSE s[i + 1]
  <2>1. s \in Seq(Nodes) /\ Len(s) \in Nat /\ p \in Nat /\ p - 1 \in 0 .. Len(s) - 1
    BY <1>8
  <2> QED BY <2>1, RemoveAtIs
<1>10. /\ x \in Seq(Slots) /\ Len(x) = Len(u) - 1
       /\ \A i \in 1 .. Len(u) - 1 : x[i] = IF i < p THEN u[i] ELSE u[i + 1]
  <2>1. u \in Seq(Slots) /\ Len(u) \in Nat /\ p \in Nat /\ p - 1 \in 0 .. Len(u) - 1
    BY <1>8
  <2> QED BY <2>1, RemoveAtIs
<1> HIDE DEF t, x
<1>11. w \in Seq(Slots) /\ Len(w) = Len(t) /\ \A i \in 1 .. Len(t) : w[i] = item[t[i]]
  BY <1>8, <1>9, OnIs
<1> HIDE DEF w, v
<1>12. w = x
  <2>1. ASSUME NEW i \in 1 .. Len(w)
        PROVE  w[i] = x[i]
    <3>0. i \in 1 .. Len(s) - 1 /\ i \in 1 .. Len(u) - 1 /\ i \in 1 .. Len(t) /\ i \in 1 .. Len(s) /\ i + 1 \in 1 .. Len(s)
      BY <1>8, <1>9, <1>11
    <3>1. CASE i < p
      BY <3>0, <3>1, <1>8, <1>9, <1>10, <1>11
    <3>2. CASE i >= p
      BY <3>0, <3>2, <1>8, <1>9, <1>10, <1>11
    <3> QED BY <3>0, <3>1, <3>2, <1>8
  <2>2. Len(w) = Len(x)
    BY <1>8, <1>9, <1>10, <1>11
  <2> QED BY <2>1, <2>2, <1>10, <1>11, SameSeq
<1>14. \E a, c \in Seq(Slots) : CutsAt(Slots, u, p, a, c)
  <2>1. u \in Seq(Slots) /\ Len(u) \in Nat /\ p \in Nat /\ p - 1 \in 0 .. Len(u) - 1
    BY <1>8
  <2> QED BY <2>1, CutAt
<1>15. PICK a, c \in Seq(Slots) : CutsAt(Slots, u, p, a, c)
  BY <1>14
<1>16. u = Between(a, u[p], c) /\ w = a \o c /\ u[p] = item[n]
  <2>1. u[p] = item[n]
    BY <1>8
  <2> QED BY <2>1, <1>12, <1>15 DEF CutsAt, x
<1>17. Filled(w) = Filled(a) \o Filled(c)
  BY <1>16, FilledConcat
<1>18. Carried = [g \in HeadsOf(kind) |-> Carried[g]] /\ DOMAIN Carried = HeadsOf(kind)
  BY CarriedNow DEF CarriedOf
<1>19. Filled(On(item, Rings'[h])) = Filled(w)
  <2>1. Rings'[h] = t
    BY <1>8 DEF t
  <2> QED BY <2>1 DEF w
<1>20. CASE kind[n] = "none"
  <2>1. item[n] = Nil /\ destroyed' = destroyed
    BY <1>20 DEF SoundNow, Sound, Carries
  <2>2. v = Filled(a) \o Filled(c)
    <3>1. u = Between(a, Nil, c)
      BY <2>1, <1>16
    <3> QED BY <3>1, FilledBetween DEF v
  <2>3. \A g \in HeadsOf(kind) : Filled(On(item, Rings'[g])) = Carried[g]
    BY <2>2, <1>7, <1>8, <1>17, <1>19
  <2>4. Carried' = Carried
    BY <2>3, <1>6, <1>18
  <2> QED BY <2>1, <2>4
<1>21. CASE kind[n] = "data"
  <2> DEFINE e == item[n]
  <2>1. e \in Items
    BY <1>21 DEF SoundNow, Sound, Carries
  <2>0. u = Between(a, e, c)
    BY <1>16
  <2>a. destroyed' = destroyed \/ destroyed' = destroyed \cup {e}
    BY DEF WithDestroyed
  <2> HIDE DEF e
  <2>2. v = Between(Filled(a), e, Filled(c))
    BY <2>0, <2>1, FilledBetween DEF v
  <2>3. PICK i \in 1 .. Len(v) : v[i] = e /\ RemoveAt(v, i) = Filled(w)
    <3>1. Filled(a) \in Seq(Items) /\ Filled(c) \in Seq(Items)
      BY GotAt
    <3> DEFINE y == Filled(a)
               z == Filled(c)
    <3> HIDE DEF y, z
    <3>2. \E i \in 1 .. Len(Between(y, e, z)) : Between(y, e, z)[i] = e /\ RemoveAt(Between(y, e, z), i) = y \o z
      <4>1. y \in Seq(Items) /\ z \in Seq(Items) /\ e \in Items
        BY <3>1, <2>1 DEF y, z
      <4> QED BY <4>1, JoinedAt
    <3> QED BY <3>2, <2>2, <1>17 DEF y, z
  <2>4. Carried' = [Carried EXCEPT ![h] = RemoveAt(Carried[h], i)]
    <3> DEFINE f == [Carried EXCEPT ![h] = RemoveAt(Carried[h], i)]
    <3>1. f = [g \in HeadsOf(kind) |-> f[g]] /\ f[h] = RemoveAt(Carried[h], i)
          /\ \A g \in HeadsOf(kind) : g # h => f[g] = Carried[g]
      BY <1>18
    <3> HIDE DEF f
    <3>2. \A g \in HeadsOf(kind) : f[g] = Filled(On(item, Rings'[g]))
      BY <3>1, <2>3, <1>7, <1>8, <1>19
    <3>3. Carried' = f
      BY <3>1, <3>2, <1>6
    <3> QED BY <3>3 DEF f
  <2>5. i \in 1 .. Len(Carried[h]) /\ Carried[h][i] = e
    BY <2>3, <1>8
  <2>6. destroyed' \in {destroyed, destroyed \cup {Carried[h][i]}}
    BY <2>5, <2>a
  <2> QED BY <2>4, <2>5, <2>6, <1>18, SameWords DEF Abstract!TakeOut
<1> QED BY <1>20, <1>21 DEF InList

\* dll_free_list and dll_free_holdings drop a list.
LEMMA DropRefines ==
  ASSUME SoundNow, NEW n \in Allocated, AllFreed(Rewind(n)), item' = item,
         \/ destroyed' = destroyed
         \/ /\ \A m \in Range(Ring(Rewind(n))) : kind[m] = "data"
            /\ destroyed' = destroyed \cup {item[m] : m \in Range(Ring(Rewind(n)))}
  PROVE  Abstract!Drop
<1> DEFINE h == Rewind(n)
           gone == Range(Rings[h])
<1>1. /\ SoundNow' /\ h \in HeadsOf(kind) /\ Ring(h) = Rings[h]
      /\ Rings' = [g \in HeadsOf(kind) \ {h} |-> Rings[g]]
  BY DropStep
<1>2. \/ destroyed' = destroyed
      \/ (\A m \in gone : kind[m] = "data") /\ destroyed' = destroyed \cup {item[m] : m \in gone}
  BY <1>1
<1> HIDE DEF h
<1>3. HeadsOf(kind') = HeadsOf(kind) \ {h}
  <2>1. DOMAIN Rings' = HeadsOf(kind')
    BY DEF Rings, RingsOf
  <2> QED BY <2>1, <1>1
<1>4. Carried' = [g \in HeadsOf(kind) \ {h} |-> Filled(On(item, Rings'[g]))]
  BY <1>1, <1>3, CarriedNow DEF CarriedOf
<1>5. \A g \in HeadsOf(kind) \ {h} : Filled(On(item, Rings'[g])) = Carried[g]
  BY <1>1, CarriesOn
<1>6. Carried' = [g \in HeadsOf(kind) \ {h} |-> Carried[g]]
  BY <1>4, <1>5
<1>7. DOMAIN Carried = HeadsOf(kind)
  BY CarriedNow DEF CarriedOf
<1>8. destroyed' \in {destroyed, destroyed \cup Range(Carried[h])}
  <2>1. CASE (\A m \in gone : kind[m] = "data") /\ destroyed' = destroyed \cup {item[m] : m \in gone}
    <3> DEFINE u == On(item, Rings[h])
    <3>1. /\ u \in Seq(Slots) /\ Carried[h] = Filled(u) /\ Len(u) = Len(Rings[h]) /\ Rings[h] \in Seq(Nodes)
          /\ \A i \in 1 .. Len(Rings[h]) : u[i] = item[Rings[h][i]] /\ Rings[h][i] \in Nodes
      BY <1>1, CarriesOn
    <3>2. DOMAIN u = 1 .. Len(Rings[h]) /\ DOMAIN Rings[h] = 1 .. Len(Rings[h])
      BY <3>1
    <3> HIDE DEF u
    <3>3. \A i \in 1 .. Len(Rings[h]) : u[i] # Nil
      <4>1. \A i \in 1 .. Len(Rings[h]) : kind[Rings[h][i]] = "data"
        BY <2>1, <3>2 DEF Range
      <4>2. \A m \in Nodes : kind[m] = "data" => item[m] \in Items
        BY DEF SoundNow, Sound, Carries
      <4> QED BY <4>1, <4>2, <3>1, NodesAssumption
    <3>4. {item[m] : m \in gone} = Range(u)
      BY <3>1, <3>2 DEF Range
    <3>5. Range(u) = Range(u) \ {Nil}
      BY <3>2, <3>3 DEF Range
    <3>6. Range(Carried[h]) = Range(u)
      BY <3>1, <3>5, FilledHas
    <3> QED BY <2>1, <3>4, <3>6
  <2> QED BY <2>1, <1>2
<1> QED BY <1>1, <1>6, <1>7, <1>8, SameWords DEF Abstract!Drop

-----------------------------------------------------------------------------
(* list_replace_items: where it is, and what it has done so far *)

Walks == [on : BOOLEAN, at : Nodes \cup {Nil}, walker : Nodes \cup {Nil},
          before : Seq(Items), lost : SUBSET Items]
\* Of the first items of b, those that come again
Again(b, j) == \E k \in j + 1 .. Len(b) : <<b[j], b[k]>> \in Similar
Gone(b, q) == {b[i] : i \in {j \in 1 .. q - 1 : Again(b, j)}}
\* The second walker is at place x: nothing between is the same.
WalkerAt(it, h, s, p, w, x) ==
    /\ w = RingAt(h, s, x)
    /\ \A y \in p + 1 .. x - 1 : <<it[s[p]], it[s[y]]>> \notin Similar
\* The first walker is at place p of the list of h, which was place q: from there on nothing has
\* changed, and before it what comes again is gone.
AtPlace(kd, it, h, s, w, p, q) ==
    /\ \A i \in 1 .. Len(s) : kd[s[i]] = "data"
    /\ w.at = RingAt(h, s, p)
    /\ Len(s) - p = Len(w.before) - q
    /\ \A i \in 0 .. Len(s) - p : it[s[p + i]] = w.before[q + i]
    /\ w.lost = Gone(w.before, q)
    /\ w.walker # Nil => \E x \in p + 1 .. Len(s) + 1 : WalkerAt(it, h, s, p, w.walker, x)
Walking(kd, it, r, w) ==
    /\ w \in Walks
    /\ w.on => \E h \in HeadsOf(kd) : \E p \in 1 .. Len(r[h]) + 1, q \in 1 .. Len(w.before) + 1 :
                  AtPlace(kd, it, h, r[h], w, p, q)
WalkingNow == Walking(kind, item, Rings, walk)
ListInv == SoundNow /\ WalkingNow

\* A step of the walk changes no list.
LEMMA SameLists ==
  ASSUME SoundNow, UNCHANGED <<kind, next, prev, item, destroyed>>
  PROVE  SoundNow' /\ Rings' = Rings /\ Carried' = Carried
<1>1. Rings' = Rings /\ SoundNow'
  BY DEF Rings, SoundNow
<1>2. Carried' = Carried
  BY CarriedDef
<1> QED BY <1>1, <1>2

\* What holds of the place of the walk
Here(h, s, p, q) ==
    /\ AtPlace(kind, item, h, s, walk, p, q) /\ s = Rings[h]
    /\ s \in Seq(Nodes) /\ Len(s) \in Nat /\ h \in HeadsOf(kind) /\ kind[h] = "head"
    /\ p \in 1 .. Len(s) + 1 /\ q \in 1 .. Len(walk.before) + 1
    /\ p \in Nat /\ q \in Nat /\ Len(walk.before) \in Nat
    /\ \A i \in 1 .. Len(s) : s[i] \in Nodes
    /\ walk.at \in Nodes /\ walk.before \in Seq(Items) /\ walk \in Walks
    /\ kind[walk.at] = "head" => p = Len(s) + 1
    /\ kind[walk.at] # "head" => p <= Len(s) /\ walk.at = s[p] /\ kind[walk.at] = "data"
    /\ p <= Len(s) => next[walk.at] = RingAt(h, s, p + 1)
    /\ \A i \in 0 .. Len(s) : next[RingAt(h, s, i)] = RingAt(h, s, i + 1)
    /\ \A i \in 0 .. Len(s) + 1 : RingAt(h, s, i) \in Nodes
\* A walk that is on is at such a place.
LEMMA WalkPlace ==
  ASSUME SoundNow, WalkingNow, walk.on
  PROVE  \E h, s, p, q : Here(h, s, p, q)
<1>1. Pointers(kind, next, prev) /\ Whole(kind, next, prev, Rings)
  BY DEF SoundNow, Sound
<1>2. walk \in Walks
  BY DEF WalkingNow, Walking
<1>3. walk.before \in Seq(Items) /\ Len(walk.before) \in Nat
  BY <1>2 DEF Walks
<1>4. PICK h \in HeadsOf(kind) : \E p \in 1 .. Len(Rings[h]) + 1, q \in 1 .. Len(walk.before) + 1 :
         AtPlace(kind, item, h, Rings[h], walk, p, q)
  BY DEF WalkingNow, Walking
<1>5. PICK p \in 1 .. Len(Rings[h]) + 1, q \in 1 .. Len(walk.before) + 1 :
         AtPlace(kind, item, h, Rings[h], walk, p, q)
  BY <1>4
<1> DEFINE s == Rings[h]
<1>6. /\ s \in Seq(Nodes) /\ Len(s) \in Nat /\ kind[h] = "head" /\ h \in Nodes
      /\ \A i \in 1 .. Len(s) : s[i] \in Nodes
      /\ Ringed(next, prev, h, s)
  <2>1. s \in Seq(Nodes) /\ Ringed(next, prev, h, s)
    BY <1>1 DEF Whole
  <2>2. kind[h] = "head" /\ h \in Nodes
    BY DEF HeadsOf
  <2> QED BY <2>1, <2>2
<1>7. \A i \in 0 .. Len(s) + 1 : RingAt(h, s, i) \in Nodes
  BY <1>1, Beside
<1>8. p \in 1 .. Len(s) + 1 /\ AtPlace(kind, item, h, s, walk, p, q)
  BY <1>5
<1>s. s = Rings[h]
  OBVIOUS
<1> HIDE DEF s
<1>9. p \in Nat /\ q \in Nat /\ p \in 0 .. Len(s) + 1
  BY <1>3, <1>6, <1>8
<1>10. walk.at = RingAt(h, s, p) /\ \A i \in 1 .. Len(s) : kind[s[i]] = "data"
  BY <1>8 DEF AtPlace
<1>11. \A i \in 0 .. Len(s) : next[RingAt(h, s, i)] = RingAt(h, s, i + 1)
  BY <1>6 DEF Ringed
<1>12. kind[walk.at] = "head" => p = Len(s) + 1
  BY <1>6, <1>8, <1>9, <1>10 DEF RingAt
<1>13. kind[walk.at] # "head" => p <= Len(s) /\ walk.at = s[p] /\ kind[walk.at] = "data"
  BY <1>6, <1>8, <1>9, <1>10 DEF RingAt
<1>14. p <= Len(s) => next[walk.at] = RingAt(h, s, p + 1)
  <2>1. p <= Len(s) => p \in 0 .. Len(s)
    BY <1>6, <1>9
  <2> QED BY <2>1, <1>10, <1>11
<1>15. walk.at \in Nodes
  BY <1>7, <1>9, <1>10
<1>16. Here(h, s, p, q)
  BY <1>2, <1>3, <1>5, <1>6, <1>7, <1>8, <1>9, <1>11, <1>12, <1>13, <1>14, <1>15, <1>s DEF Here
<1> QED BY <1>16

\* The walk begins.
LEMMA BeginStep ==
  ASSUME SoundNow, NEW n, BeginReplace(n)
  PROVE  SoundNow' /\ WalkingNow' /\ Carried' = Carried /\ destroyed' = destroyed
<1>1. SoundNow' /\ Rings' = Rings /\ Carried' = Carried
  BY SameLists DEF BeginReplace
<1>2. Pointers(kind, next, prev) /\ Whole(kind, next, prev, Rings)
  BY DEF SoundNow, Sound
<1>3. n \in Nodes /\ kind[n] # "free"
  BY DEF BeginReplace, Allocated
<1>4. PICK h \in HeadsOf(kind) : Rewind(n) = h
  BY <1>3, PlaceNow
<1> DEFINE s == Rings[h]
           b == On(item, s)
<1>5. /\ s \in Seq(Nodes) /\ Len(s) \in Nat /\ kind[h] = "head" /\ h \in Nodes
      /\ Ringed(next, prev, h, s) /\ RingOf(next, h) = s
  <2>0. h \in HeadsOf(kind)
    BY <1>4
  <2>1. s \in Seq(Nodes) /\ Ringed(next, prev, h, s)
    BY <2>0, <1>2 DEF Whole
  <2>2. kind[h] = "head" /\ h \in Nodes
    BY <2>0 DEF HeadsOf
  <2>3. RingOf(next, h) = s
    BY <2>0, <1>2, RingsSound
  <2> QED BY <2>1, <2>2, <2>3
<1>6. /\ b \in Seq(Slots) /\ Len(b) = Len(s) /\ \A i \in 1 .. Len(s) : b[i] = item[s[i]]
  BY CarriesOn
<1>7. Ring(h) = s /\ DOMAIN Ring(h) = 1 .. Len(s)
  BY <1>5, RingDef
<1>8. Contents(h) = b
  BY <1>7 DEF Contents, On
<1>9. \A i \in 1 .. Len(s) : kind[s[i]] = "data"
  BY <1>4, <1>7 DEF BeginReplace, Range
<1> HIDE DEF s, b
<1>10. b \in Seq(Items)
  <2>1. \A i \in 1 .. Len(s) : s[i] \in Nodes
    BY <1>5
  <2>2. \A i \in 1 .. Len(b) : b[i] \in Items
    BY <2>1, <1>6, <1>9 DEF SoundNow, Sound, Carries
  <2> QED BY <2>2, <1>6
<1>11. walk' = [on |-> TRUE, at |-> next[h], walker |-> Nil, before |-> b, lost |-> {}]
  BY <1>4, <1>8 DEF BeginReplace, First
<1>12. next[h] = RingAt(h, s, 1) /\ next[h] \in Nodes
  <2>1. next[h] = RingAt(h, s, 1)
    <3>1. next[RingAt(h, s, 0)] = RingAt(h, s, 0 + 1)
      BY <1>5 DEF Ringed
    <3> QED BY <3>1, <1>5 DEF RingAt
  <2>2. next[h] \in Nodes
    BY <1>2, <1>5, Closed
  <2> QED BY <2>1, <2>2
<1>13. walk' \in Walks
  BY <1>10, <1>11, <1>12 DEF Walks
<1>14. /\ walk'.at = next[h] /\ walk'.walker = Nil /\ walk'.before = b /\ walk'.lost = {}
  BY <1>11
<1>15. Gone(b, 1) = {}
  BY DEF Gone
<1>16. AtPlace(kind, item, h, s, walk', 1, 1)
  BY <1>5, <1>6, <1>9, <1>12, <1>14, <1>15 DEF AtPlace
<1>17. kind' = kind /\ item' = item
  BY DEF BeginReplace
<1>18. 1 \in 1 .. Len(s) + 1 /\ 1 \in 1 .. Len(walk'.before) + 1
  BY <1>5, <1>6, <1>14
<1>19. \E p \in 1 .. Len(s) + 1, q \in 1 .. Len(walk'.before) + 1 : AtPlace(kind, item, h, s, walk', p, q)
  BY <1>16, <1>18
<1>20. WalkingNow'
  BY <1>1, <1>13, <1>17, <1>19 DEF WalkingNow, Walking, s
<1> QED BY <1>1, <1>20 DEF BeginReplace

\* What the next item adds to what is gone
LEMMA GoneNext ==
  ASSUME NEW b, NEW q \in Nat, q >= 1
  PROVE  Gone(b, q + 1) = Gone(b, q) \cup {b[j] : j \in {i \in {q} : Again(b, i)}}
<1>1. 1 .. (q + 1) - 1 = (1 .. q - 1) \cup {q}
  OBVIOUS
<1> DEFINE A == {j \in 1 .. q - 1 : Again(b, j)}
           B == {j \in {q} : Again(b, j)}
<1>2. {j \in 1 .. (q + 1) - 1 : Again(b, j)} = A \cup B
  BY <1>1
<1> HIDE DEF A, B
<1>3. {b[i] : i \in A \cup B} = {b[i] : i \in A} \cup {b[i] : i \in B}
  OBVIOUS
<1> QED BY <1>2, <1>3 DEF Gone, A, B

\* A step that moves only the walk, to a place that the invariant allows
LEMMA Moved ==
  ASSUME SoundNow, UNCHANGED <<kind, next, prev, item, destroyed>>,
         NEW h, NEW p, NEW q, h \in HeadsOf(kind), p \in 1 .. Len(Rings[h]) + 1,
         q \in 1 .. Len(walk'.before) + 1, walk' \in Walks,
         AtPlace(kind, item, h, Rings[h], walk', p, q)
  PROVE  SoundNow' /\ WalkingNow' /\ Carried' = Carried /\ destroyed' = destroyed
<1>1. SoundNow' /\ Rings' = Rings /\ Carried' = Carried
  BY SameLists
<1>2. WalkingNow'
  BY <1>1 DEF WalkingNow, Walking
<1> QED BY <1>1, <1>2

\* The second walker sets out.
LEMMA StartStep ==
  ASSUME SoundNow, WalkingNow, StartWalker
  PROVE  SoundNow' /\ WalkingNow' /\ Carried' = Carried /\ destroyed' = destroyed
<1>1. /\ walk.on /\ kind[walk.at] # "head" /\ walk' = [walk EXCEPT !.walker = next[walk.at]]
      /\ UNCHANGED <<kind, next, prev, item, destroyed>>
  BY DEF StartWalker
<1>2. PICK h, s, p, q : Here(h, s, p, q)
  BY <1>1, WalkPlace
<1>3. /\ p \in Nat /\ Len(s) \in Nat /\ p >= 1 /\ p <= Len(s) /\ next[walk.at] = RingAt(h, s, p + 1)
      /\ p + 1 \in 0 .. Len(s) + 1 /\ RingAt(h, s, p + 1) \in Nodes
  BY <1>1, <1>2 DEF Here
<1>4. /\ walk \in Walks /\ walk'.at = walk.at /\ walk'.before = walk.before /\ walk'.lost = walk.lost
      /\ walk'.walker = RingAt(h, s, p + 1) /\ walk' \in Walks
  BY <1>1, <1>2, <1>3 DEF Here, Walks
<1>5. WalkerAt(item, h, s, p, walk'.walker, p + 1) /\ p + 1 \in p + 1 .. Len(s) + 1
  BY <1>3, <1>4 DEF WalkerAt
<1>6. AtPlace(kind, item, h, s, walk, p, q)
  BY <1>2 DEF Here
<1>7. AtPlace(kind, item, h, s, walk', p, q)
  BY <1>4, <1>5, <1>6 DEF AtPlace
<1>8. h \in HeadsOf(kind) /\ s = Rings[h] /\ p \in 1 .. Len(s) + 1 /\ q \in 1 .. Len(walk.before) + 1
  BY <1>2 DEF Here
<1> QED BY <1>1, <1>4, <1>7, <1>8, Moved

\* Where the second walker is
LEMMA WalkerPlace ==
  ASSUME NEW h, NEW s, NEW p, NEW q, Here(h, s, p, q), walk.walker # Nil
  PROVE  \E x \in p + 1 .. Len(s) + 1 :
            /\ WalkerAt(item, h, s, p, walk.walker, x) /\ x \in Nat /\ p + 1 <= x /\ p <= Len(s)
            /\ kind[walk.walker] = "head" => x = Len(s) + 1
            /\ kind[walk.walker] # "head" => x <= Len(s) /\ walk.walker = s[x]
<1>1. /\ AtPlace(kind, item, h, s, walk, p, q) /\ Len(s) \in Nat /\ kind[h] = "head" /\ p \in Nat
      /\ p >= 1
  BY DEF Here
<1>2. PICK x \in p + 1 .. Len(s) + 1 : WalkerAt(item, h, s, p, walk.walker, x)
  BY <1>1 DEF AtPlace
<1>3. x \in Nat /\ p + 1 <= x /\ p <= Len(s) /\ x <= Len(s) + 1
  BY <1>1, <1>2
<1>4. walk.walker = RingAt(h, s, x)
  BY <1>2 DEF WalkerAt
<1>5. CASE x = Len(s) + 1
  <2>1. walk.walker = h
    BY <1>1, <1>4, <1>5 DEF RingAt
  <2> QED BY <2>1, <1>1, <1>2, <1>3, <1>5
<1>6. CASE x # Len(s) + 1
  <2>1. x \in 1 .. Len(s)
    BY <1>1, <1>3, <1>6
  <2>2. walk.walker = s[x] /\ kind[s[x]] = "data"
    BY <2>1, <1>1, <1>4 DEF RingAt, AtPlace
  <2> QED BY <2>1, <2>2, <1>2, <1>3
<1> QED BY <1>5, <1>6

\* It passes an item that is not the same.
LEMMA PassStep ==
  ASSUME SoundNow, WalkingNow, PassOn
  PROVE  SoundNow' /\ WalkingNow' /\ Carried' = Carried /\ destroyed' = destroyed
<1>1. /\ walk.on /\ walk.walker # Nil /\ kind[walk.walker] # "head"
      /\ <<item[walk.at], item[walk.walker]>> \notin Similar
      /\ walk' = [walk EXCEPT !.walker = next[walk.walker]]
      /\ UNCHANGED <<kind, next, prev, item, destroyed>>
  BY DEF PassOn
<1>2. PICK h, s, p, q : Here(h, s, p, q)
  BY <1>1, WalkPlace
<1>3. PICK x \in p + 1 .. Len(s) + 1 :
         /\ WalkerAt(item, h, s, p, walk.walker, x) /\ x \in Nat /\ p + 1 <= x /\ p <= Len(s)
         /\ x <= Len(s) /\ walk.walker = s[x]
  BY <1>1, <1>2, WalkerPlace
<1>4. /\ p \in Nat /\ Len(s) \in Nat /\ p >= 1 /\ walk.at = s[p]
      /\ x \in 0 .. Len(s) /\ x + 1 \in 0 .. Len(s) + 1
  <2>1. /\ p \in Nat /\ Len(s) \in Nat /\ p >= 1 /\ walk.at = RingAt(h, s, p)
    BY <1>2 DEF Here, AtPlace
  <2>2. RingAt(h, s, p) = s[p]
    BY <2>1, <1>3 DEF RingAt
  <2> QED BY <2>1, <2>2, <1>3
<1>5. next[walk.walker] = RingAt(h, s, x + 1) /\ RingAt(h, s, x + 1) \in Nodes
  <2>1. next[RingAt(h, s, x)] = RingAt(h, s, x + 1) /\ RingAt(h, s, x + 1) \in Nodes
    BY <1>2, <1>4 DEF Here
  <2>2. RingAt(h, s, x) = walk.walker
    BY <1>3 DEF WalkerAt
  <2> QED BY <2>1, <2>2
<1>6. /\ walk \in Walks /\ walk'.at = walk.at /\ walk'.before = walk.before /\ walk'.lost = walk.lost
      /\ walk'.walker = RingAt(h, s, x + 1) /\ walk' \in Walks
  BY <1>1, <1>2, <1>5 DEF Here, Walks
<1>7. WalkerAt(item, h, s, p, walk'.walker, x + 1) /\ x + 1 \in p + 1 .. Len(s) + 1
  <2>1. \A y \in p + 1 .. x - 1 : <<item[s[p]], item[s[y]]>> \notin Similar
    BY <1>3 DEF WalkerAt
  <2>2. <<item[s[p]], item[s[x]]>> \notin Similar
    BY <1>1, <1>3, <1>4
  <2>3. \A y \in p + 1 .. (x + 1) - 1 : y \in p + 1 .. x - 1 \/ y = x
    BY <1>3, <1>4
  <2>4. \A y \in p + 1 .. (x + 1) - 1 : <<item[s[p]], item[s[y]]>> \notin Similar
    BY <2>1, <2>2, <2>3
  <2>5. x + 1 \in p + 1 .. Len(s) + 1
    BY <1>3, <1>4
  <2> QED BY <2>4, <2>5, <1>6 DEF WalkerAt
<1>8. AtPlace(kind, item, h, s, walk, p, q)
  BY <1>2 DEF Here
<1>9. AtPlace(kind, item, h, s, walk', p, q)
  BY <1>6, <1>7, <1>8 DEF AtPlace
<1>10. h \in HeadsOf(kind) /\ s = Rings[h] /\ p \in 1 .. Len(s) + 1 /\ q \in 1 .. Len(walk.before) + 1
  BY <1>2 DEF Here
<1> QED BY <1>1, <1>6, <1>9, <1>10, Moved

\* It comes to the end: the item does not come again, and the walk goes on to the next.
LEMMA NextStep ==
  ASSUME SoundNow, WalkingNow, NextItem
  PROVE  SoundNow' /\ WalkingNow' /\ Carried' = Carried /\ destroyed' = destroyed
<1>1. /\ walk.on /\ walk.walker # Nil /\ kind[walk.walker] = "head"
      /\ walk' = [walk EXCEPT !.at = next[walk.at], !.walker = Nil]
      /\ UNCHANGED <<kind, next, prev, item, destroyed>>
  BY DEF NextItem
<1>2. PICK h, s, p, q : Here(h, s, p, q)
  BY <1>1, WalkPlace
<1> DEFINE b == walk.before
<1>3. WalkerAt(item, h, s, p, walk.walker, Len(s) + 1) /\ p <= Len(s)
  BY <1>1, <1>2, WalkerPlace
<1>4. /\ p \in Nat /\ q \in Nat /\ Len(s) \in Nat /\ Len(b) \in Nat /\ p >= 1 /\ q >= 1
      /\ AtPlace(kind, item, h, s, walk, p, q) /\ walk \in Walks
      /\ next[walk.at] = RingAt(h, s, p + 1) /\ \A i \in 0 .. Len(s) + 1 : RingAt(h, s, i) \in Nodes
      /\ h \in HeadsOf(kind) /\ s = Rings[h] /\ q <= Len(b) + 1
  BY <1>2, <1>3 DEF Here
<1> HIDE DEF b
<1>n. /\ p \in Nat /\ q \in Nat /\ Len(s) \in Nat /\ Len(b) \in Nat /\ p >= 1 /\ q >= 1
      /\ p <= Len(s) /\ q <= Len(b) + 1
  BY <1>3, <1>4
<1>5. Len(s) - p = Len(b) - q /\ \A i \in 0 .. Len(s) - p : item[s[p + i]] = b[q + i]
  BY <1>4 DEF AtPlace, b
<1>6. ~Again(b, q)
  <2>1. SUFFICES ASSUME NEW k \in q + 1 .. Len(b), <<b[q], b[k]>> \in Similar
                 PROVE  FALSE
    BY DEF Again
  <2> DEFINE y == p + (k - q)
  <2>2. /\ y \in p + 1 .. (Len(s) + 1) - 1 /\ k - q \in 0 .. Len(s) - p /\ 0 \in 0 .. Len(s) - p
        /\ q + (k - q) = k /\ p + 0 = p /\ q + 0 = q
    BY <1>n, <1>5
  <2>3. item[s[y]] = b[k] /\ item[s[p]] = b[q]
    <3>1. item[s[p + (k - q)]] = b[q + (k - q)] /\ item[s[p + 0]] = b[q + 0]
      BY <2>2, <1>5
    <3> QED BY <3>1, <2>2
  <2> HIDE DEF y
  <2>4. <<item[s[p]], item[s[y]]>> \notin Similar
    BY <2>2, <1>3 DEF WalkerAt
  <2> QED BY <2>1, <2>3, <2>4
<1>7. Gone(b, q + 1) = Gone(b, q)
  <2>1. {j \in {q} : Again(b, j)} = {}
    BY <1>6
  <2>2. Gone(b, q + 1) = Gone(b, q) \cup {b[j] : j \in {i \in {q} : Again(b, i)}}
    BY <1>n, GoneNext
  <2> QED BY <2>1, <2>2
<1>8. RingAt(h, s, p + 1) \in Nodes
  <2>1. p + 1 \in 0 .. Len(s) + 1
    BY <1>3, <1>4
  <2> QED BY <2>1, <1>4
<1>9. /\ walk'.at = RingAt(h, s, p + 1) /\ walk'.before = b /\ walk'.lost = walk.lost
      /\ walk'.walker = Nil /\ walk' \in Walks
  BY <1>1, <1>4, <1>8 DEF Walks, b
<1>10. AtPlace(kind, item, h, s, walk', p + 1, q + 1)
  <2>1. Len(s) - (p + 1) = Len(b) - (q + 1)
    BY <1>n, <1>5
  <2>2. \A i \in 0 .. Len(s) - (p + 1) : item[s[(p + 1) + i]] = b[(q + 1) + i]
    <3>1. SUFFICES ASSUME NEW i \in 0 .. Len(s) - (p + 1)
                   PROVE  item[s[(p + 1) + i]] = b[(q + 1) + i]
      OBVIOUS
    <3>2. i + 1 \in 0 .. Len(s) - p /\ (p + 1) + i = p + (i + 1) /\ (q + 1) + i = q + (i + 1)
      BY <1>4
    <3>3. item[s[p + (i + 1)]] = b[q + (i + 1)]
      BY <3>2, <1>5
    <3> QED BY <3>2, <3>3
  <2>3. walk'.lost = Gone(b, q + 1) /\ \A i \in 1 .. Len(s) : kind[s[i]] = "data"
    BY <1>4, <1>7, <1>9 DEF AtPlace, b
  <2> QED BY <2>1, <2>2, <2>3, <1>9 DEF AtPlace
<1>11. p + 1 \in 1 .. Len(s) + 1 /\ q + 1 \in 1 .. Len(walk'.before) + 1
  BY <1>3, <1>4, <1>5, <1>9
<1> QED BY <1>1, <1>4, <1>9, <1>10, <1>11, Moved

\* The item comes again: its node is deleted, and the walk is at the node that was behind it.
LEMMA ReplaceStep ==
  ASSUME SoundNow, WalkingNow, Replace
  PROVE  SoundNow' /\ WalkingNow' /\ (Abstract!TakeOut \/ (Carried' = Carried /\ destroyed' = destroyed))
<1> DEFINE c == walk.at
           b == walk.before
<1>1. /\ walk.on /\ walk.walker # Nil /\ kind[walk.walker] # "head"
      /\ <<item[c], item[walk.walker]>> \in Similar
      /\ Disconnected(c) /\ Freed(c) /\ destroyed' = WithDestroyed(c) /\ item' = item
      /\ walk' = [walk EXCEPT !.at = next'[prev[c]], !.walker = Nil, !.lost = walk.lost \cup {item[c]}]
  BY DEF Replace, Resume
<1>2. PICK h, s, p, q : Here(h, s, p, q)
  BY <1>1, WalkPlace
<1>3. PICK x \in p + 1 .. Len(s) + 1 :
         x \in Nat /\ p + 1 <= x /\ p <= Len(s) /\ x <= Len(s) /\ walk.walker = s[x]
  BY <1>1, <1>2, WalkerPlace
<1>4. /\ AtPlace(kind, item, h, s, walk, p, q) /\ walk \in Walks /\ h \in HeadsOf(kind) /\ s = Rings[h]
      /\ kind[h] = "head" /\ s \in Seq(Nodes) /\ c \in Nodes /\ \A i \in 1 .. Len(s) : s[i] \in Nodes
      /\ \A i \in 0 .. Len(s) + 1 : RingAt(h, s, i) \in Nodes
  BY <1>2 DEF Here
<1>n. /\ p \in Nat /\ q \in Nat /\ Len(s) \in Nat /\ Len(b) \in Nat /\ p >= 1 /\ q >= 1
      /\ p <= Len(s) /\ q <= Len(b) + 1
  BY <1>2, <1>3 DEF Here
<1>5. c = s[p] /\ next[c] = RingAt(h, s, p + 1)
  <2>1. c = RingAt(h, s, p)
    BY <1>4 DEF AtPlace
  <2>2. RingAt(h, s, p) = s[p]
    BY <1>n DEF RingAt
  <2>3. next[c] = RingAt(h, s, p + 1)
    BY <1>2, <1>n DEF Here
  <2> QED BY <2>1, <2>2, <2>3
<1>6. \A i \in 1 .. Len(s) : kind[s[i]] = "data"
  BY <1>4 DEF AtPlace
<1>7. kind[c] = "data"
  BY <1>5, <1>6, <1>n
<1>8. Len(s) - p = Len(b) - q /\ \A i \in 0 .. Len(s) - p : item[s[p + i]] = b[q + i]
  BY <1>4 DEF AtPlace, b
<1>9. walk.lost = Gone(b, q)
  BY <1>4 DEF AtPlace, b
<1> HIDE DEF c, b
<1>10. InList(kind, c)
  BY <1>7 DEF InList
<1>11. /\ SoundNow' /\ HeadsOf(kind') = HeadsOf(kind)
       /\ \E g \in HeadsOf(kind) : \E j \in 1 .. Len(Rings[g]) :
             Rings[g][j] = c /\ Rings' = [Rings EXCEPT ![g] = RemoveAt(Rings[g], j)]
  BY <1>1, <1>4, <1>7, <1>10, DeleteStep
<1>12. Abstract!TakeOut \/ (Carried' = Carried /\ destroyed' = destroyed)
  BY <1>1, <1>4, <1>7, <1>10, DeleteRefines
<1>13. Pointers(kind, next, prev) /\ Whole(kind, next, prev, Rings)
  BY DEF SoundNow, Sound
<1>14. \A i, j \in 1 .. Len(s) : s[i] = s[j] => i = j
  BY <1>4, <1>13 DEF Whole
<1> DEFINE s2 == RemoveAt(s, p)
<1>15. Rings' = [Rings EXCEPT ![h] = s2]
  <2>1. PICK g \in HeadsOf(kind) : \E j \in 1 .. Len(Rings[g]) :
           Rings[g][j] = c /\ Rings' = [Rings EXCEPT ![g] = RemoveAt(Rings[g], j)]
    BY <1>11
  <2>2. PICK j \in 1 .. Len(Rings[g]) : Rings[g][j] = c /\ Rings' = [Rings EXCEPT ![g] = RemoveAt(Rings[g], j)]
    BY <2>1
  <2>3. p \in 1 .. Len(Rings[h]) /\ Rings[h][p] = c
    BY <1>4, <1>5, <1>n
  <2>4. g = h /\ j = p
    BY <2>2, <2>3, <1>4, <1>13 DEF Whole
  <2> QED BY <2>2, <2>4, <1>4
<1>16. Rings'[h] = s2
  <2>1. DOMAIN Rings = HeadsOf(kind)
    BY DEF Rings, RingsOf
  <2> QED BY <2>1, <1>4, <1>15
<1>17. /\ s2 \in Seq(Nodes) /\ Len(s2) = Len(s) - 1
       /\ \A i \in 1 .. Len(s) - 1 : s2[i] = IF i < p THEN s[i] ELSE s[i + 1]
  <2>1. p \in 1 .. Len(s)
    BY <1>n
  <2> QED BY <2>1, <1>4, RemoveAtIs
<1> HIDE DEF s2
<1>18. RingAt(h, s2, p) = RingAt(h, s, p + 1)
  BY <1>17, <1>n DEF RingAt
<1>19. kind' = [kind EXCEPT ![c] = "free"] /\ next' = [next EXCEPT ![prev[c]] = next[c], ![c] = Nil]
  BY <1>1 DEF Disconnected, Freed
<1>20. prev[c] \in Nodes /\ prev[c] # c
  <2>1. prev[RingAt(h, s, (p - 1) + 1)] = RingAt(h, s, p - 1)
    <3>1. p - 1 \in 0 .. Len(s)
      BY <1>n
    <3>2. Ringed(next, prev, h, s)
      BY <1>4, <1>13 DEF Whole
    <3> QED BY <3>1, <3>2 DEF Ringed
  <2>2. RingAt(h, s, (p - 1) + 1) = c
    BY <1>5, <1>n DEF RingAt
  <2>3. RingAt(h, s, p - 1) \in Nodes
    <3>1. p - 1 \in 0 .. Len(s) + 1
      BY <1>n
    <3> QED BY <3>1, <1>4
  <2>4. RingAt(h, s, p - 1) # c
    <3>1. CASE p = 1
      <4>1. RingAt(h, s, p - 1) = h
        BY <3>1 DEF RingAt
      <4> QED BY <4>1, <1>4, <1>7
    <3>2. CASE p # 1
      <4>1. p - 1 \in 1 .. Len(s) /\ p \in 1 .. Len(s) /\ p - 1 # p
        BY <3>2, <1>n
      <4>2. RingAt(h, s, p - 1) = s[p - 1]
        BY <4>1 DEF RingAt
      <4> QED BY <4>1, <4>2, <1>5, <1>14
    <3> QED BY <3>1, <3>2
  <2> QED BY <2>1, <2>2, <2>3, <2>4
<1>21. next'[prev[c]] = RingAt(h, s2, p) /\ RingAt(h, s2, p) \in Nodes
  <2>1. DOMAIN next = Nodes
    BY <1>13 DEF Pointers
  <2>2. next'[prev[c]] = next[c]
    BY <2>1, <1>19, <1>20
  <2>3. p + 1 \in 0 .. Len(s) + 1
    BY <1>n
  <2> QED BY <2>2, <2>3, <1>4, <1>5, <1>18
<1>22. item[c] = b[q] /\ Again(b, q)
  <2>1. 0 \in 0 .. Len(s) - p /\ x - p \in 0 .. Len(s) - p
    BY <1>3, <1>n
  <2>2. item[s[p + 0]] = b[q + 0] /\ item[s[p + (x - p)]] = b[q + (x - p)]
    BY <2>1, <1>8
  <2>3. p + 0 = p /\ q + 0 = q /\ p + (x - p) = x /\ q + (x - p) \in q + 1 .. Len(b)
    BY <1>3, <1>n, <1>8
  <2>4. item[s[p]] = b[q] /\ item[s[x]] = b[q + (x - p)]
    BY <2>2, <2>3
  <2>5. <<b[q], b[q + (x - p)]>> \in Similar
    BY <2>4, <1>1, <1>3, <1>5
  <2> QED BY <2>3, <2>4, <2>5, <1>5 DEF Again
<1>23. Gone(b, q + 1) = walk.lost \cup {item[c]}
  <2>1. {j \in {q} : Again(b, j)} = {q}
    BY <1>22
  <2>2. Gone(b, q + 1) = Gone(b, q) \cup {b[j] : j \in {i \in {q} : Again(b, i)}}
    BY <1>n, GoneNext
  <2> QED BY <2>1, <2>2, <1>9, <1>22
<1>24. item[c] \in Items
  BY <1>4, <1>7 DEF SoundNow, Sound, Carries
<1>25. /\ walk'.at = RingAt(h, s2, p) /\ walk'.walker = Nil /\ walk'.before = b
       /\ walk'.lost = Gone(b, q + 1) /\ walk' \in Walks
  BY <1>1, <1>4, <1>21, <1>23, <1>24 DEF Walks, b
<1>26. AtPlace(kind', item', h, s2, walk', p, q + 1)
  <2>1. Len(s2) - p = Len(b) - (q + 1)
    BY <1>n, <1>8, <1>17
  <2>2. \A i \in 0 .. Len(s2) - p : item'[s2[p + i]] = b[(q + 1) + i]
    <3>1. SUFFICES ASSUME NEW i \in 0 .. Len(s2) - p
                   PROVE  item[s2[p + i]] = b[(q + 1) + i]
      BY <1>1
    <3>2. /\ i + 1 \in 0 .. Len(s) - p /\ (p + i) + 1 = p + (i + 1) /\ (q + 1) + i = q + (i + 1)
          /\ p + i \in 1 .. Len(s) - 1 /\ ~(p + i < p)
      BY <3>1, <1>n, <1>17
    <3>3. s2[p + i] = s[(p + i) + 1]
      BY <3>2, <1>17
    <3>4. item[s[p + (i + 1)]] = b[q + (i + 1)]
      BY <3>2, <1>8
    <3> QED BY <3>2, <3>3, <3>4
  <2>3. \A i \in 1 .. Len(s2) : kind'[s2[i]] = "data"
    <3>1. SUFFICES ASSUME NEW i \in 1 .. Len(s2)
                   PROVE  kind'[s2[i]] = "data"
      OBVIOUS
    <3>2. \E j \in 1 .. Len(s) : j # p /\ s2[i] = s[j]
      <4>1. i \in 1 .. Len(s) - 1 /\ i \in 1 .. Len(s) /\ i + 1 \in 1 .. Len(s)
        BY <1>n, <1>17
      <4>2. CASE i < p
        BY <4>1, <4>2, <1>17
      <4>3. CASE i >= p
        <5>1. s2[i] = s[i + 1] /\ i + 1 # p
          BY <4>1, <4>3, <1>17, <1>n
        <5> QED BY <5>1, <4>1
      <4> QED BY <4>1, <4>2, <4>3, <1>n
    <3>3. PICK j \in 1 .. Len(s) : j # p /\ s2[i] = s[j]
      BY <3>2
    <3>4. s[j] # c /\ s[j] \in Nodes /\ kind[s[j]] = "data"
      <4>1. p \in 1 .. Len(s)
        BY <1>n
      <4> QED BY <4>1, <3>3, <1>4, <1>5, <1>6, <1>14
    <3>5. DOMAIN kind = Nodes
      BY <1>13 DEF Pointers
    <3> QED BY <3>3, <3>4, <3>5, <1>19
  <2> QED BY <2>1, <2>2, <2>3, <1>25 DEF AtPlace
<1>27. p \in 1 .. Len(s2) + 1 /\ q + 1 \in 1 .. Len(b) + 1
  BY <1>n, <1>8, <1>17
<1>28. WalkingNow'
  BY <1>4, <1>11, <1>16, <1>25, <1>26, <1>27 DEF WalkingNow, Walking
<1> QED BY <1>11, <1>12, <1>28

\* At the end all that comes again is gone.
LEMMA EndStep ==
  ASSUME SoundNow, WalkingNow, walk.on, kind[walk.at] = "head"
  PROVE  walk.lost = Superseded
<1>1. PICK h, s, p, q : Here(h, s, p, q)
  BY WalkPlace
<1> DEFINE b == walk.before
<1>2. /\ p = Len(s) + 1 /\ Len(s) \in Nat /\ p \in Nat /\ q \in Nat /\ Len(b) \in Nat
      /\ AtPlace(kind, item, h, s, walk, p, q)
      /\ b \in Seq(Items)
  BY <1>1 DEF Here
<1>3. Len(s) - p = Len(b) - q /\ walk.lost = Gone(b, q)
  BY <1>2 DEF AtPlace
<1> HIDE DEF b
<1>4. q - 1 = Len(b)
  BY <1>2, <1>3
<1>5. 1 .. q - 1 = DOMAIN b
  BY <1>2, <1>4
<1>6. Gone(b, q) = {b[i] : i \in {j \in DOMAIN b : Again(b, j)}}
  BY <1>5 DEF Gone
<1> QED BY <1>3, <1>6 DEF Superseded, Again, b

\* The walk ends.
LEMMA EndKeeps ==
  ASSUME SoundNow, WalkingNow, EndReplace
  PROVE  SoundNow' /\ WalkingNow' /\ Carried' = Carried /\ destroyed' = destroyed
<1>1. SoundNow' /\ Rings' = Rings /\ Carried' = Carried /\ destroyed' = destroyed
  BY SameLists DEF EndReplace
<1>2. walk' = NotWalking
  BY DEF EndReplace
<1>3. NotWalking \in Walks /\ ~NotWalking.on
  BY DEF NotWalking, Walks
<1>4. WalkingNow'
  BY <1>2, <1>3 DEF WalkingNow, Walking
<1> QED BY <1>1, <1>4

\* One call of the library that does not walk the list
LEMMA CallStep ==
  ASSUME ListInv, ListCalls
  PROVE  ListInv' /\ (Abstract!Next \/ (Carried' = Carried /\ destroyed' = destroyed))
<1> DEFINE Same == Carried' = Carried /\ destroyed' = destroyed
<1>0. SoundNow /\ WalkingNow /\ ~walk.on /\ walk \in Walks
  BY DEF ListInv, ListCalls, WalkingNow, Walking
<1>1. walk' = walk => WalkingNow'
  BY <1>0 DEF WalkingNow, Walking
<1>2. PICK n \in Nodes :
         \/ Create(n) \/ Insert(n) \/ Add(n) \/ Delete(n) \/ DeleteNode(n)
         \/ FreeHoldings(n) \/ FreeList(n) \/ BeginReplace(n)
         \/ \E x \in Items \ (Held \cup destroyed) : Assign(n, x)
  BY DEF ListCalls
<1>3. CASE Create(n)
  BY <1>0, <1>1, <1>3, CreateStep, CreateRefines DEF ListInv, Create, Abstract!Next
<1>4. ASSUME NEW m \in Nodes, Insert(m)
      PROVE  ListInv' /\ Same
  BY <1>0, <1>1, <1>4, InsertStep, InsertRefines DEF ListInv, Insert
<1>5. CASE Add(n)
  <2>1. kind[n] # "free" /\ Insert(Rewind(n))
    BY <1>5 DEF Add, Allocated
  <2>2. Rewind(n) \in Nodes
    <3>1. \E h \in HeadsOf(kind) : \E p \in 1 .. Len(Rings[h]) + 1 : Rewind(n) = h
      BY <1>0, <2>1, PlaceNow
    <3> QED BY <3>1 DEF HeadsOf
  <2> QED BY <2>1, <2>2, <1>4
<1>6. CASE Delete(n)
  <2>1. /\ kind[n] = "data" /\ Disconnected(n) /\ Freed(n) /\ item' = item /\ walk' = walk
        /\ destroyed' = WithDestroyed(n)
    BY <1>6 DEF Delete
  <2>2. InList(kind, n)
    BY <2>1 DEF InList
  <2>3. SoundNow'
    BY <2>1, <2>2, <1>0, DeleteStep
  <2>4. Abstract!TakeOut \/ Same
    BY <2>1, <2>2, <1>0, DeleteRefines
  <2> QED BY <2>1, <2>3, <2>4, <1>1 DEF ListInv, Abstract!Next
<1>7. CASE DeleteNode(n)
  <2>1. /\ kind[n] \in {"data", "none"} /\ Disconnected(n) /\ Freed(n) /\ item' = item /\ walk' = walk
        /\ destroyed' = destroyed
    BY <1>7 DEF DeleteNode
  <2>2. InList(kind, n)
    BY <2>1 DEF InList
  <2>3. SoundNow'
    BY <2>1, <2>2, <1>0, DeleteStep
  <2>4. Abstract!TakeOut \/ Same
    BY <2>1, <2>2, <1>0, DeleteRefines
  <2> QED BY <2>1, <2>3, <2>4, <1>1 DEF ListInv, Abstract!Next
<1>8. CASE FreeHoldings(n)
  <2>1. /\ n \in Allocated /\ \A m \in Range(Ring(Rewind(n))) : kind[m] = "data"
        /\ AllFreed(Rewind(n)) /\ item' = item /\ walk' = walk
        /\ destroyed' = destroyed \cup {item[m] : m \in Range(Ring(Rewind(n)))}
    BY <1>8 DEF FreeHoldings
  <2>2. SoundNow'
    BY <2>1, <1>0, DropStep
  <2>3. Abstract!Drop
    BY <2>1, <1>0, DropRefines
  <2> QED BY <2>1, <2>2, <2>3, <1>1 DEF ListInv, Abstract!Next
<1>9. CASE FreeList(n)
  <2>1. /\ n \in Allocated /\ AllFreed(Rewind(n)) /\ item' = item /\ walk' = walk
        /\ destroyed' = destroyed
    BY <1>9 DEF FreeList
  <2>2. SoundNow'
    BY <2>1, <1>0, DropStep
  <2>3. Abstract!Drop
    BY <2>1, <1>0, DropRefines
  <2> QED BY <2>1, <2>2, <2>3, <1>1 DEF ListInv, Abstract!Next
<1>10. CASE BeginReplace(n)
  BY <1>0, <1>10, BeginStep DEF ListInv
<1>11. CASE \E x \in Items \ (Held \cup destroyed) : Assign(n, x)
  <2>1. PICK x \in Items \ (Held \cup destroyed) : Assign(n, x)
    BY <1>11
  <2>2. walk' = walk
    BY <2>1 DEF Assign
  <2> QED BY <2>1, <2>2, <1>0, <1>1, AssignStep, AssignRefines DEF ListInv, Abstract!Next
<1> QED BY <1>2, <1>3, <1>4, <1>5, <1>6, <1>7, <1>8, <1>9, <1>10, <1>11

\* Every step keeps the invariant, and is one of the sequences or none.
LEMMA ListStep ==
  ASSUME ListInv, [ListsNext]_listVars
  PROVE  ListInv' /\ [Abstract!Next]_<<Carried, destroyed>>
<1>0. SoundNow /\ WalkingNow
  BY DEF ListInv
<1>1. CASE ListCalls
  BY <1>1, CallStep
<1>2. CASE StartWalker
  BY <1>0, <1>2, StartStep DEF ListInv
<1>3. CASE Replace
  BY <1>0, <1>3, ReplaceStep DEF ListInv, Abstract!Next
<1>4. CASE PassOn
  BY <1>0, <1>4, PassStep DEF ListInv
<1>5. CASE NextItem
  BY <1>0, <1>5, NextStep DEF ListInv
<1>6. CASE EndReplace
  BY <1>0, <1>6, EndKeeps DEF ListInv
<1>7. CASE UNCHANGED listVars
  <2>1. SoundNow' /\ Rings' = Rings /\ Carried' = Carried
    BY <1>0, <1>7, SameLists DEF listVars
  <2>2. WalkingNow'
    BY <1>0, <1>7, <2>1 DEF listVars, WalkingNow, Walking
  <2> QED BY <1>7, <2>1, <2>2 DEF ListInv, listVars
<1> QED BY <1>1, <1>2, <1>3, <1>4, <1>5, <1>6, <1>7 DEF ListsNext, Replacing

\* At first there is no list.
LEMMA ListStart == ListsInit => ListInv /\ Abstract!Init
<1> SUFFICES ASSUME ListsInit
             PROVE  ListInv /\ Abstract!Init
  OBVIOUS
<1>1. /\ kind = [n \in Nodes |-> "free"] /\ next = [n \in Nodes |-> Nil] /\ prev = [n \in Nodes |-> Nil]
      /\ item = [n \in Nodes |-> Nil] /\ destroyed = {} /\ walk = NotWalking
  BY DEF ListsInit
<1>2. HeadsOf(kind) = {} /\ Heads = {}
  BY <1>1 DEF HeadsOf, Heads
<1>3. Pointers(kind, next, prev)
  BY <1>1 DEF Pointers, NodeKinds
<1>4. Whole(kind, next, prev, Rings)
  <2>1. \A n \in Nodes : ~InList(kind, n)
    BY <1>1 DEF InList
  <2>2. Rings \in [HeadsOf(kind) -> Seq(Nodes)]
    BY <1>2 DEF Rings, RingsOf
  <2> QED BY <2>1, <2>2, <1>2 DEF Whole
<1>5. Carries(kind, item, destroyed)
  BY <1>1 DEF Carries, InList
<1>6. WalkingNow
  <2>1. NotWalking \in Walks /\ ~NotWalking.on
    BY DEF NotWalking, Walks
  <2> QED BY <1>1, <2>1 DEF WalkingNow, Walking
<1>7. Carried = <<>>
  BY <1>2 DEF Carried
<1> QED BY <1>1, <1>3, <1>4, <1>5, <1>6, <1>7 DEF ListInv, SoundNow, Sound, Abstract!Init

\* The inductive invariant of the lists: the rings are whole, every item is where it may be, and
\* list_replace_items has dealt with the items before its place.
THEOREM ListsSound == ListsSpec => []ListInv
<1>1. ListInv /\ [ListsNext]_listVars => ListInv'
  BY ListStep
<1> QED BY <1>1, ListStart, PTL DEF ListsSpec

\* The doubly linked lists of dl_lists.c are sequences of items: whatever calls are made in whatever
\* order, the rings stay closed, no item is held twice or after it has been destroyed, and every
\* call does to the sequences one thing that it promises.
THEOREM ListsKeepSequences == ListsSpec => KeepsSequences
<1>1. ListInv /\ [ListsNext]_listVars => ListInv' /\ [Abstract!Next]_<<Carried, destroyed>>
  BY ListStep
<1>2. ListInv => RingsClosed /\ OwnedOnce
  BY SoundMeans DEF ListInv
<1> QED BY <1>1, <1>2, ListStart, PTL DEF ListsSpec, KeepsSequences, Abstract!Spec

\* When list_replace_items ends, it has dropped the items that come again later in the list, and no
\* others, whatever the comparison takes for the same.
THEOREM LastIsKept == ListsSpec => LastKept
<1>1. ListInv /\ [ListsNext]_listVars => [walk.on /\ ~walk'.on => walk.lost = Superseded]_listVars
  <2> SUFFICES ASSUME ListInv, [ListsNext]_listVars, ~UNCHANGED listVars, walk.on, ~walk'.on
               PROVE  walk.lost = Superseded
    OBVIOUS
  <2>0. SoundNow /\ WalkingNow /\ walk \in Walks
    BY DEF ListInv, WalkingNow, Walking
  <2>1. EndReplace
    <3>1. ~ListCalls
      BY DEF ListCalls
    <3>2. \A d, l, k : [walk EXCEPT !.walker = d].on /\ [walk EXCEPT !.at = l, !.walker = d].on
                       /\ [walk EXCEPT !.at = l, !.walker = d, !.lost = k].on
      BY <2>0 DEF Walks
    <3>3. ~StartWalker /\ ~PassOn
      BY <3>2 DEF StartWalker, PassOn
    <3>4. ~NextItem
      BY <3>2 DEF NextItem
    <3>5. ~Replace
      BY <3>2 DEF Replace
    <3> QED BY <3>1, <3>3, <3>4, <3>5 DEF ListsNext, Replacing
  <2>2. kind[walk.at] = "head"
    BY <2>1 DEF EndReplace
  <2> QED BY <2>0, <2>2, EndStep
<1> QED BY <1>1, ListsSound, PTL DEF ListsSpec, LastKept
=============================================================================
