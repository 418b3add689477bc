---------------------------- MODULE SetUp_proofs ----------------------------
(* Proofs about the set-up of a data bin: whatever the format files hold, a    *)
(* buffer has as many users as are counted, and every FORMAT_DATA has one      *)
(* owner until it is freed; and, if formats and variables are named apart,     *)
(* every format is on its side of its conduits, an array where its variable    *)
(* is, and no conversion is a copy.                                            *)
EXTENDS SetUp, FiniteSetTheorems, SequenceTheorems, TLAPS

-----------------------------------------------------------------------------
(* Lists, and the places in them *)

\* There is a k-th place, up to as many as there are, no place is two of them, and
\* every place is one of them, the one that has k up to it.
LEMMA NthIs ==
  ASSUME NEW n \in Nat, NEW S \in SUBSET (1 .. n)
  PROVE  /\ IsFiniteSet(S) /\ Cardinality(S) \in Nat
         /\ \A k \in 1 .. Cardinality(S) : Nth(S, k) \in S
         /\ \A k, m \in 1 .. Cardinality(S) : Nth(S, k) = Nth(S, m) => k = m
         /\ \A k \in 1 .. Cardinality(S) : Cardinality({j \in S : j <= Nth(S, k)}) = k
         /\ \A a \in S : \E k \in 1 .. Cardinality(S) : Nth(S, k) = a
<1> DEFINE UpTo(i) == {j \in S : j <= i}
           C == Cardinality(S)
           f == [i \in S |-> Cardinality(UpTo(i))]
<1>1. IsFiniteSet(S) /\ C \in Nat
  <2>1. IsFiniteSet(1 .. n)
    BY FS_Interval
  <2>2. QED
    BY <2>1, FS_Subset, FS_CardinalityType
<1>2. \A i \in S : UpTo(i) \in SUBSET S /\ i \in UpTo(i) /\ i \in Int
  OBVIOUS
<1>3. ASSUME NEW i \in S
      PROVE  IsFiniteSet(UpTo(i)) /\ Cardinality(UpTo(i)) \in 1 .. C
  <2> DEFINE U == UpTo(i)
  <2>1. U \in SUBSET S /\ i \in U
    BY <1>2
  <2> HIDE DEF U
  <2>2. IsFiniteSet(U) /\ Cardinality(U) <= C /\ Cardinality(U) \in Nat
    BY <1>1, <2>1, FS_Subset, FS_CardinalityType
  <2>3. Cardinality(U) # 0
    BY <2>1, <2>2, FS_EmptySet
  <2>4. QED
    BY <1>1, <2>2, <2>3 DEF U
<1>4. ASSUME NEW i \in S, NEW j \in S, i < j
      PROVE  Cardinality(UpTo(i)) # Cardinality(UpTo(j))
  <2> DEFINE U == UpTo(i)
             V == UpTo(j)
  <2>0. \A x \in S : x \in Int
    BY <1>2
  <2>1. U \in SUBSET V /\ j \in V /\ j \notin U
    <3>1. \A x \in S : x <= i => x <= j
      BY <1>4, <2>0
    <3>2. j <= j /\ ~ (j <= i)
      BY <1>4, <2>0
    <3>3. QED
      BY <3>1, <3>2
  <2>2. IsFiniteSet(V)
    BY <1>3
  <2> HIDE DEF U, V
  <2>3. Cardinality(V) = Cardinality(U) => V = U
    BY <2>1, <2>2, FS_Subset
  <2>4. QED
    BY <2>1, <2>3 DEF U, V
<1>5. f \in Injection(S, 1 .. C)
  <2>1. f \in [S -> 1 .. C]
    BY <1>3
  <2>2. ASSUME NEW i \in S, NEW j \in S, i # j
        PROVE  f[i] # f[j]
    <3>1. i < j \/ j < i
      BY <1>2, <2>2
    <3>2. f[i] = Cardinality(UpTo(i)) /\ f[j] = Cardinality(UpTo(j))
      OBVIOUS
    <3> HIDE DEF f, UpTo
    <3>3. QED
      BY <1>4, <3>1, <3>2
  <2> HIDE DEF f
  <2>3. QED
    BY <2>1, <2>2 DEF Injection, IsInjective
<1>6. f \in Surjection(S, 1 .. C)
  <2>1. IsFiniteSet(1 .. C) /\ Cardinality(1 .. C) = C
    BY <1>1, FS_Interval
  <2> HIDE DEF f, C
  <2>2. Cardinality(S) = Cardinality(1 .. C) <=> f \in Surjection(S, 1 .. C)
    BY <1>5, <2>1, FS_Injection
  <2>3. QED
    BY <2>1, <2>2 DEF C
<1>7. ASSUME NEW k \in 1 .. C
      PROVE  Nth(S, k) \in S /\ f[Nth(S, k)] = k /\ Cardinality(UpTo(Nth(S, k))) = k
  <2>1. PICK i \in S : f[i] = k
    <3> HIDE DEF f, C
    <3>1. QED
      BY <1>6 DEF Surjection
  <2>2. Cardinality({j \in S : j <= i}) = k
    BY <2>1
  <2>3. Nth(S, k) \in S /\ Cardinality({j \in S : j <= Nth(S, k)}) = k
    BY <2>2 DEF Nth
  <2>4. QED
    BY <2>3
<1>8. \A a \in S : f[a] \in 1 .. C
  BY <1>3
<1> HIDE DEF f
<1>9. \A a, b \in S : f[a] = f[b] => a = b
  BY <1>5 DEF Injection, IsInjective
<1>10. \A a \in S : \E k \in 1 .. C : Nth(S, k) = a
  BY <1>7, <1>8, <1>9
<1>11. \A k \in 1 .. C : Cardinality(UpTo(Nth(S, k))) = k
  BY <1>7
<1>12. \A k, m \in 1 .. C : Nth(S, k) = Nth(S, m) => k = m
  BY <1>7
<1> HIDE DEF C
<1>13. QED
  BY <1>1, <1>7, <1>10, <1>11, <1>12 DEF C

\* What a list has at some of its places is a list of things of that list.
LEMMA ThoseAre ==
  ASSUME NEW s, s \in Seq(Range(s)), NEW S \in SUBSET DOMAIN s
  PROVE  /\ IsFiniteSet(S) /\ Cardinality(S) \in Nat
         /\ Those(s, S) \in Seq(Range(s)) /\ Len(Those(s, S)) = Cardinality(S)
         /\ \A k \in DOMAIN Those(s, S) : Nth(S, k) \in S /\ Those(s, S)[k] = s[Nth(S, k)]
         /\ \A k, m \in DOMAIN Those(s, S) : Nth(S, k) = Nth(S, m) => k = m
<1>1. Len(s) \in Nat /\ DOMAIN s = 1 .. Len(s)
  OBVIOUS
<1>2. /\ IsFiniteSet(S) /\ Cardinality(S) \in Nat
      /\ \A k \in 1 .. Cardinality(S) : Nth(S, k) \in S
      /\ \A k, m \in 1 .. Cardinality(S) : Nth(S, k) = Nth(S, m) => k = m
  <2> DEFINE n == Len(s)
  <2>1. n \in Nat /\ S \in SUBSET (1 .. n)
    BY <1>1
  <2> HIDE DEF n
  <2>2. QED
    BY <2>1, NthIs
<1>3. Those(s, S) = [k \in 1 .. Cardinality(S) |-> s[Nth(S, k)]]
  BY DEF Those
<1>4. \A k \in 1 .. Cardinality(S) : s[Nth(S, k)] \in Range(s)
  BY <1>2 DEF Range
<1> DEFINE t == Those(s, S)
           C == Cardinality(S)
<1>5. t \in [1 .. C -> Range(s)] /\ C \in Nat
  BY <1>2, <1>3, <1>4
<1> HIDE DEF t, C
<1>6. t \in Seq(Range(s)) /\ Len(t) = C /\ DOMAIN t = 1 .. C
  BY <1>5
<1>7. \A k \in 1 .. C : t[k] = s[Nth(S, k)]
  BY <1>3 DEF t, C
<1>8. QED
  BY <1>2, <1>6, <1>7 DEF t, C

\* The first that fits is one that fits.
LEMMA FirstInIs ==
  ASSUME NEW s, s \in Seq(Range(s)), NEW fitting, FirstIn(s, fitting) # Nil
  PROVE  FirstIn(s, fitting) \in fitting \cap Range(s)
<1> DEFINE fit == {i \in DOMAIN s : s[i] \in fitting}
<1>1. fit \in SUBSET DOMAIN s
  OBVIOUS
<1>2. fit # {} /\ FirstIn(s, fitting) = s[Nth(fit, 1)]
  BY DEF FirstIn
<1>3. Nth(fit, 1) \in fit
  <2> HIDE DEF fit
  <2>1. IsFiniteSet(fit) /\ Cardinality(fit) \in Nat
    BY <1>1, ThoseAre
  <2>2. Cardinality(fit) # 0
    BY <1>2, <2>1, FS_EmptySet
  <2>3. 1 \in DOMAIN Those(s, fit)
    BY <2>1, <2>2 DEF Those
  <2>4. QED
    BY <1>1, <2>3, ThoseAre
<1>4. QED
  BY <1>2, <1>3 DEF Range

\* A sequence is one of what it holds.
LEMMA OwnRange ==
  ASSUME NEW R, NEW s \in Seq(R)
  PROVE  s \in Seq(Range(s)) /\ Range(s) \subseteq R
<1>1. /\ Len(s) \in Nat /\ DOMAIN s = 1 .. Len(s) /\ s = [i \in 1 .. Len(s) |-> s[i]]
      /\ \A i \in 1 .. Len(s) : s[i] \in R
  OBVIOUS
<1>2. \A i \in 1 .. Len(s) : s[i] \in Range(s)
  BY <1>1 DEF Range
<1>3. s \in [1 .. Len(s) -> Range(s)]
  BY <1>1, <1>2
<1>4. s \in Seq(Range(s))
  BY <1>1, <1>3
<1>5. QED
  BY <1>1, <1>4 DEF Range

LEMMA Joined ==
  ASSUME NEW R, NEW s \in Seq(R), NEW t \in Seq(R)
  PROVE  s \o t \in Seq(R) /\ Len(s \o t) = Len(s) + Len(t)
OBVIOUS

\* Sets that have nothing in common hold as much as both.
LEMMA UnionSize ==
  ASSUME NEW S, NEW T, IsFiniteSet(S), IsFiniteSet(T), S \cap T = {}
  PROVE  /\ IsFiniteSet(S \cup T) /\ Cardinality(S) \in Nat /\ Cardinality(T) \in Nat
         /\ Cardinality(S \cup T) = Cardinality(S) + Cardinality(T)
<1>1. Cardinality(S \cup T) = Cardinality(S) + Cardinality(T) - Cardinality({})
  BY FS_Union
<1>2. Cardinality({}) = 0
  BY FS_EmptySet
<1>3. Cardinality(S) \in Nat /\ Cardinality(T) \in Nat /\ IsFiniteSet(S \cup T)
  BY FS_CardinalityType, FS_Union
<1>4. QED
  BY <1>1, <1>2, <1>3

-----------------------------------------------------------------------------
(* The formats that are chosen from *)

\* Formats by what they are among
LEMMA FormatsAre ==
  ASSUME NEW R, \A f \in R : IsFormat(f), NEW s \in Seq(R)
  PROVE  AreFormats(s)
<1>1. s \in Seq(Range(s)) /\ Range(s) \subseteq R
  BY OwnRange
<1>2. \A i \in DOMAIN s : s[i] \in Range(s)
  BY DEF Range
<1>3. QED
  BY <1>1, <1>2 DEF AreFormats

LEMMA FormatsIn ==
  ASSUME NEW s, AreFormats(s)
  PROVE  s \in Seq(Range(s)) /\ \A f \in Range(s) : IsFormat(f)
BY DEF AreFormats, Range

\* Taking a format leaves formats, of those there were.
LEMMA WithoutIs ==
  ASSUME NEW s, AreFormats(s), NEW f
  PROVE  f \in Range(s) => AreFormats(Without(s, f)) /\ Without(s, f) \in Seq(Range(s))
<1> SUFFICES ASSUME f \in Range(s)
             PROVE  AreFormats(Without(s, f)) /\ Without(s, f) \in Seq(Range(s))
  OBVIOUS
<1> DEFINE at0 == {i \in DOMAIN s : s[i] = f}
           i == Nth(at0, 1)
<1>1. s \in Seq(Range(s)) /\ \A g \in Range(s) : IsFormat(g)
  BY FormatsIn
<1>2. at0 # {} /\ at0 \in SUBSET DOMAIN s
  BY DEF Range
<1>3. i \in DOMAIN s
  <2> HIDE DEF at0
  <2>1. IsFiniteSet(at0) /\ Cardinality(at0) \in Nat
    BY <1>1, <1>2, ThoseAre
  <2>2. Cardinality(at0) # 0
    BY <1>2, <2>1, FS_EmptySet
  <2>3. 1 \in DOMAIN Those(s, at0)
    BY <2>1, <2>2 DEF Those
  <2>4. QED
    BY <1>1, <1>2, <2>3, ThoseAre
<1>4. Without(s, f) = SubSeq(s, 1, i - 1) \o SubSeq(s, i + 1, Len(s))
  BY DEF Without, RemoveAt
<1> DEFINE R == Range(s)
<1> HIDE DEF at0, i, R
<1>5. /\ s \in Seq(R) /\ i \in 1 .. Len(s) /\ Len(s) \in Nat
      /\ \A g \in R : IsFormat(g)
  BY <1>1, <1>3 DEF R
<1>6. SubSeq(s, 1, i - 1) \in Seq(R) /\ SubSeq(s, i + 1, Len(s)) \in Seq(R)
  BY <1>5
<1>7. Without(s, f) \in Seq(R)
  BY <1>4, <1>6
<1>8. QED
  BY <1>5, <1>7, FormatsAre DEF R

\* Marking changes what a format is for, and nothing else.
LEMMA MarkedIs ==
  ASSUME NEW s, AreFormats(s), NEW io
  PROVE  AreFormats(Marked(s, io))
<1> DEFINE Mark(f) == IF f.io = "none" /\ f.kind # "record" /\ f.enc = Encoding(io)
                      THEN [f EXCEPT !.io = io] ELSE f
           t == Marked(s, io)
<1>1. t = [i \in DOMAIN s |-> Mark(s[i])]
  BY DEF Marked
<1>2. ASSUME NEW i \in DOMAIN s
      PROVE  IsFormat(Mark(s[i]))
  <2> DEFINE f == s[i]
  <2>1. IsFormat(f)
    BY DEF AreFormats
  <2> HIDE DEF f
  <2>2. f = [name |-> f.name, kind |-> f.kind, enc |-> f.enc, io |-> f.io, array |-> f.array, vars |-> f.vars]
        /\ f.kind \in Kinds
    BY <2>1 DEF IsFormat
  <2> DEFINE g == [f EXCEPT !.io = io]
  <2>3. g = [name |-> f.name, kind |-> f.kind, enc |-> f.enc, io |-> io, array |-> f.array, vars |-> f.vars]
    BY <2>2
  <2> HIDE DEF g
  <2>4. /\ g.name = f.name /\ g.kind = f.kind /\ g.enc = f.enc /\ g.io = io
        /\ g.array = f.array /\ g.vars = f.vars
    BY <2>3
  <2>5. IsFormat(g)
    BY <2>2, <2>3, <2>4 DEF IsFormat
  <2>6. Mark(f) = g \/ Mark(f) = f
    BY DEF g
  <2>7. QED
    BY <2>1, <2>5, <2>6 DEF f
<1>3. DOMAIN s = 1 .. Len(s) /\ Len(s) \in Nat
  BY DEF AreFormats
<1> HIDE DEF Mark
<1> DEFINE R == {t[i] : i \in 1 .. Len(s)}
           n == Len(s)
<1>4. t = [i \in 1 .. n |-> Mark(s[i])] /\ n \in Nat
  BY <1>1, <1>3
<1>5. \A f \in R : IsFormat(f)
  BY <1>2, <1>3, <1>4
<1>6. \A i \in 1 .. n : t[i] \in R
  OBVIOUS
<1> HIDE DEF R, n, t
<1>7. t \in [1 .. n -> R] /\ n \in Nat
  BY <1>4, <1>6
<1>8. t \in Seq(R)
  BY <1>7
<1>9. QED
  BY <1>5, <1>8, FormatsAre DEF t

\* What is chosen is a format, with the use it was chosen for, and what is left
\* are formats.
LEMMA ChosenIs ==
  ASSUME NEW s, AreFormats(s), NEW kind, NEW io, NEW title
  PROVE  /\ AreFormats(Chosen(s, kind, io, title).list)
         /\ Chosen(s, kind, io, title).found # Nil => IsFormat(Chosen(s, kind, io, title).found)
<1> DEFINE c == Chosen(s, kind, io, title)
<1>1. ASSUME NEW t, AreFormats(t), NEW fitting, FirstIn(t, fitting) # Nil
      PROVE  FirstIn(t, fitting) \in Range(t) /\ IsFormat(FirstIn(t, fitting))
  BY <1>1, FirstInIs, FormatsIn
<1>2. CASE title # Nil
  <2> DEFINE f == FirstIn(s, {x \in ToSet(s) : x.name = title})
  <2>1. c = IF f = Nil THEN [found |-> Nil, list |-> s]
            ELSE [found |-> [f EXCEPT !.io = io], list |-> Without(s, f)]
    BY <1>2 DEF Chosen
  <2>2. f # Nil => f \in Range(s) /\ IsFormat(f)
    BY <1>1
  <2> HIDE DEF f, c
  <2>3. CASE f = Nil
    BY <2>1, <2>3 DEF c
  <2>4. CASE f # Nil
    <3> DEFINE g == [f EXCEPT !.io = io]
    <3>1. f = [name |-> f.name, kind |-> f.kind, enc |-> f.enc, io |-> f.io, array |-> f.array, vars |-> f.vars]
          /\ f.kind \in Kinds
      BY <2>2, <2>4 DEF IsFormat
    <3>2. g = [name |-> f.name, kind |-> f.kind, enc |-> f.enc, io |-> io, array |-> f.array, vars |-> f.vars]
      BY <3>1
    <3> HIDE DEF g
    <3>3. /\ g.name = f.name /\ g.kind = f.kind /\ g.enc = f.enc /\ g.io = io
          /\ g.array = f.array /\ g.vars = f.vars
      BY <3>2
    <3>4. IsFormat(g)
      BY <3>1, <3>2, <3>3 DEF IsFormat
    <3>5. AreFormats(Without(s, f))
      BY <2>2, <2>4, WithoutIs
    <3>6. c.found = g /\ c.list = Without(s, f)
      BY <2>1, <2>4 DEF g
    <3>7. QED
      BY <3>4, <3>5, <3>6 DEF c
  <2>5. QED
    BY <2>3, <2>4
<1>3. CASE title = Nil
  <2> DEFINE Fits(x) == x.kind = kind /\ x.io = io
             t == IF FirstIn(s, {x \in ToSet(s) : Fits(x)}) = Nil THEN Marked(s, io) ELSE s
             f == FirstIn(t, {x \in ToSet(t) : Fits(x)})
  <2>1. c = [found |-> f, list |-> IF f = Nil THEN t ELSE Without(t, f)]
    BY <1>3 DEF Chosen
  <2>2. AreFormats(t)
    BY MarkedIs
  <2>3. f # Nil => f \in Range(t) /\ IsFormat(f)
    <3> HIDE DEF t
    <3>1. QED
      BY <1>1, <2>2
  <2> HIDE DEF f, t, c
  <2>4. f # Nil => AreFormats(Without(t, f))
    BY <2>2, <2>3, WithoutIs
  <2>5. QED
    BY <2>1, <2>2, <2>3, <2>4 DEF c
<1>4. QED
  BY <1>2, <1>3

\* The sorted list is as long as the list, and holds nothing else.
LEMMA SortedIs ==
  ASSUME NEW l, l \in Seq(Range(l)), \A d \in Range(l) : IsFormat(fds[d].fmt)
  PROVE  Sorted(l) \in Seq(Range(l)) /\ Len(Sorted(l)) = Len(l)
<1> DEFINE At(r) == {i \in DOMAIN l : Rank[fds[l[i]].fmt.kind] = r}
           Part(r) == Those(l, At(r))
<1>1. ASSUME NEW r
      PROVE  /\ At(r) \in SUBSET DOMAIN l
             /\ IsFiniteSet(At(r)) /\ Cardinality(At(r)) \in Nat
             /\ Part(r) \in Seq(Range(l)) /\ Len(Part(r)) = Cardinality(At(r))
  <2> DEFINE S == At(r)
  <2>1. S \in SUBSET DOMAIN l
    OBVIOUS
  <2> HIDE DEF S
  <2>2. IsFiniteSet(S) /\ Cardinality(S) \in Nat /\ Those(l, S) \in Seq(Range(l)) /\ Len(Those(l, S)) = Cardinality(S)
    BY <2>1, ThoseAre
  <2>3. QED
    BY <2>1, <2>2 DEF S
<1>2. Sorted(l) = Part(0) \o Part(1) \o Part(2) \o Part(3)
  BY DEF Sorted
<1>3. DOMAIN l = At(0) \cup At(1) \cup At(2) \cup At(3)
  <2>1. ASSUME NEW i \in DOMAIN l
        PROVE  Rank[fds[l[i]].fmt.kind] \in {0, 1, 2, 3}
    <3>1. l[i] \in Range(l)
      BY DEF Range
    <3>2. fds[l[i]].fmt.kind \in {"file", "rec", "data", "record"}
      BY <3>1 DEF IsFormat, Kinds
    <3>3. QED
      BY <3>2 DEF Rank
  <2>2. QED
    BY <2>1
<1>4. /\ At(0) \cap At(1) = {} /\ (At(0) \cup At(1)) \cap At(2) = {}
      /\ (At(0) \cup At(1) \cup At(2)) \cap At(3) = {}
  OBVIOUS
<1> DEFINE A == At(0)
           B == At(1)
           C == At(2)
           D == At(3)
           n == Len(l)
<1>5. /\ IsFiniteSet(A) /\ IsFiniteSet(B) /\ IsFiniteSet(C) /\ IsFiniteSet(D)
      /\ Cardinality(A) \in Nat /\ Cardinality(B) \in Nat /\ Cardinality(C) \in Nat /\ Cardinality(D) \in Nat
  BY <1>1
<1>6. A \cap B = {} /\ (A \cup B) \cap C = {} /\ (A \cup B \cup C) \cap D = {} /\ 1 .. n = A \cup B \cup C \cup D
  <2>1. DOMAIN l = 1 .. n
    OBVIOUS
  <2> HIDE DEF At, n
  <2>2. QED
    BY <1>3, <1>4, <2>1
<1> HIDE DEF At, A, B, C, D
<1> DEFINE AB == A \cup B
           ABC == AB \cup C
<1>7. Cardinality(AB) = Cardinality(A) + Cardinality(B) /\ IsFiniteSet(AB)
  BY <1>5, <1>6, UnionSize
<1>8. Cardinality(ABC) = Cardinality(A) + Cardinality(B) + Cardinality(C) /\ IsFiniteSet(ABC)
  <2>1. AB \cap C = {}
    BY <1>6
  <2> HIDE DEF AB
  <2>2. Cardinality(AB \cup C) = Cardinality(AB) + Cardinality(C) /\ IsFiniteSet(AB \cup C)
    BY <1>5, <1>7, <2>1, UnionSize
  <2>3. QED
    BY <1>7, <2>2
<1>9. Cardinality(ABC \cup D) = Cardinality(A) + Cardinality(B) + Cardinality(C) + Cardinality(D)
  <2>1. ABC \cap D = {}
    BY <1>6
  <2> HIDE DEF ABC
  <2>2. Cardinality(ABC \cup D) = Cardinality(ABC) + Cardinality(D)
    BY <1>5, <1>8, <2>1, UnionSize
  <2>3. QED
    BY <1>8, <2>2
<1>10. n = Cardinality(A) + Cardinality(B) + Cardinality(C) + Cardinality(D)
  <2>1. n \in Nat /\ Cardinality(1 .. n) = n
    <3>1. n \in Nat
      OBVIOUS
    <3> HIDE DEF n
    <3>2. QED
      BY <3>1, FS_Interval
  <2>2. ABC \cup D = 1 .. n
    BY <1>6
  <2>3. QED
    BY <1>9, <2>1, <2>2
<1>11. /\ Part(0) \in Seq(Range(l)) /\ Len(Part(0)) = Cardinality(A)
       /\ Part(1) \in Seq(Range(l)) /\ Len(Part(1)) = Cardinality(B)
       /\ Part(2) \in Seq(Range(l)) /\ Len(Part(2)) = Cardinality(C)
       /\ Part(3) \in Seq(Range(l)) /\ Len(Part(3)) = Cardinality(D)
  BY <1>1 DEF A, B, C, D
<1> HIDE DEF Part
<1>12. /\ Part(0) \o Part(1) \o Part(2) \o Part(3) \in Seq(Range(l))
       /\ Len(Part(0) \o Part(1) \o Part(2) \o Part(3)) =
          Len(Part(0)) + Len(Part(1)) + Len(Part(2)) + Len(Part(3))
  <2> DEFINE p0 == Part(0)
             p1 == Part(1)
             p2 == Part(2)
             p3 == Part(3)
             R == Range(l)
  <2>0. /\ p0 \in Seq(R) /\ p1 \in Seq(R) /\ p2 \in Seq(R) /\ p3 \in Seq(R)
    BY <1>11
  <2> HIDE DEF p0, p1, p2, p3, R
  <2>1. p0 \o p1 \in Seq(R) /\ Len(p0 \o p1) = Len(p0) + Len(p1)
    BY <2>0, Joined
  <2>2. p0 \o p1 \o p2 \in Seq(R) /\ Len(p0 \o p1 \o p2) = Len(p0) + Len(p1) + Len(p2)
    BY <2>0, <2>1, Joined
  <2>3. p0 \o p1 \o p2 \o p3 \in Seq(R) /\ Len(p0 \o p1 \o p2 \o p3) = Len(p0) + Len(p1) + Len(p2) + Len(p3)
    BY <2>0, <2>2, Joined
  <2>4. QED
    BY <2>3 DEF p0, p1, p2, p3, R
<1>13. QED
  BY <1>2, <1>10, <1>11, <1>12 DEF n

-----------------------------------------------------------------------------
(* The users of buffers *)

\* UsageCounts, of any FORMAT_DATAs
Users(heap, b) == {d \in DOMAIN heap : heap[d].buf = b}
Counts(count, heap) ==
    /\ DOMAIN count = {heap[d].buf : d \in DOMAIN heap}
    /\ \A b \in DOMAIN count : count[b] = Cardinality(Users(heap, b))

\* More FORMAT_DATAs, and those that were there
Extends(more, heap, N) ==
    /\ N \cap DOMAIN heap = {} /\ DOMAIN more = DOMAIN heap \cup N
    /\ \A d \in DOMAIN heap : more[d] = heap[d]
OnItsOwn(more, N, count) == \A d \in N : more[d].buf = d /\ d \notin DOMAIN count

\* FORMAT_DATAs with buffers of their own are counted once.
LEMMA OwnBuffers ==
  ASSUME NEW heap, NEW count, Counts(count, heap),
         NEW N, NEW more, Extends(more, heap, N), OnItsOwn(more, N, count)
  PROVE  Counts(OneUser(count, N), more)
<1> USE DEF Extends, OnItsOwn
<1> DEFINE c == OneUser(count, N)
<1>1. c = [b \in DOMAIN count \cup N |-> IF b \in DOMAIN count THEN count[b] ELSE 1]
  BY DEF OneUser
<1>2. DOMAIN c = {more[d].buf : d \in DOMAIN more}
  <2>1. DOMAIN c = DOMAIN count \cup N
    BY <1>1
  <2>2. DOMAIN count = {heap[d].buf : d \in DOMAIN heap}
    BY DEF Counts
  <2> HIDE DEF c
  <2>3. QED
    BY <2>1, <2>2
<1>3. ASSUME NEW b \in DOMAIN count
      PROVE  c[b] = Cardinality(Users(more, b))
  <2>1. Users(more, b) = Users(heap, b)
    <3>1. b \notin N
      OBVIOUS
    <3>2. QED
      BY <3>1 DEF Users
  <2>2. QED
    BY <1>1, <2>1 DEF Counts
<1>4. ASSUME NEW b \in N
      PROVE  c[b] = Cardinality(Users(more, b))
  <2>1. Users(more, b) = {b}
    <3>1. b \notin {heap[d].buf : d \in DOMAIN heap}
      BY DEF Counts
    <3>2. QED
      BY <3>1 DEF Users
  <2>2. c[b] = 1
    BY <1>1
  <2>3. QED
    BY <2>1, <2>2, FS_Singleton
<1>5. DOMAIN c = DOMAIN count \cup N
  BY <1>1
<1> HIDE DEF c
<1>6. \A b \in DOMAIN c : c[b] = Cardinality(Users(more, b))
  BY <1>3, <1>4, <1>5
<1>7. QED
  BY <1>2, <1>6 DEF Counts, c

\* A copy is one more user of the buffer it was copied with.
LEMMA CopyCounted ==
  ASSUME NEW heap, IsFiniteSet(DOMAIN heap), NEW count, Counts(count, heap),
         NEW s \in DOMAIN heap, NEW new,
         NEW more, Extends(more, heap, {new}), more[new] = heap[s]
  PROVE  Counts(Grafted(count, heap[s].buf), more)
<1> USE DEF Extends
<1> DEFINE c == Grafted(count, heap[s].buf)
           o == heap[s].buf
<1>1. o \in DOMAIN count /\ DOMAIN count = {heap[d].buf : d \in DOMAIN heap}
  BY DEF Counts
<1>2. DOMAIN c = DOMAIN count /\ c[o] = count[o] + 1 /\ \A b \in DOMAIN count \ {o} : c[b] = count[b]
  BY <1>1 DEF Grafted
<1>3. DOMAIN c = {more[d].buf : d \in DOMAIN more}
  <2> HIDE DEF c
  <2>1. QED
    BY <1>1, <1>2
<1>4. ASSUME NEW b \in DOMAIN count \ {o}
      PROVE  c[b] = Cardinality(Users(more, b))
  <2>1. Users(more, b) = Users(heap, b)
    BY DEF Users
  <2>2. QED
    BY <1>2, <2>1 DEF Counts
<1>5. c[o] = Cardinality(Users(more, o))
  <2> DEFINE U == Users(heap, o)
  <2>1. Users(more, o) = U \cup {new} /\ new \notin U
    BY DEF Users
  <2>2. IsFiniteSet(U)
    BY FS_Subset DEF Users
  <2>3. count[o] = Cardinality(U)
    BY <1>1 DEF Counts
  <2> HIDE DEF U, c, o
  <2>4. Cardinality(U \cup {new}) = Cardinality(U) + 1
    BY <2>1, <2>2, FS_AddElement
  <2>5. QED
    BY <1>2, <2>1, <2>3, <2>4
<1> HIDE DEF c, o
<1>6. QED
  BY <1>2, <1>3, <1>4, <1>5 DEF Counts, c, o

\* What is destroyed is a user no more, and a buffer goes with its last user.
LEMMA GoneUncounted ==
  ASSUME NEW heap, IsFiniteSet(DOMAIN heap), NEW count, Counts(count, heap), NEW gone
  PROVE  Counts(Released(count, heap, gone), Restrict(heap, DOMAIN heap \ gone))
<1> DEFINE less == Restrict(heap, DOMAIN heap \ gone)
           left == [b \in DOMAIN count |-> count[b] - UsersOf(heap, b, gone)]
           c == Released(count, heap, gone)
<1>1. DOMAIN less = DOMAIN heap \ gone /\ \A d \in DOMAIN heap \ gone : less[d] = heap[d]
  BY DEF Restrict
<1>2. ASSUME NEW b \in DOMAIN count
      PROVE  left[b] = Cardinality(Users(less, b)) /\ IsFiniteSet(Users(less, b))
  <2> DEFINE U == Users(heap, b)
             G == {d \in gone \cap DOMAIN heap : heap[d].buf = b}
             L == Users(less, b)
  <2>1. U \in SUBSET DOMAIN heap /\ L = U \ gone /\ U \cap gone = G
    BY <1>1 DEF Users
  <2>2. count[b] = Cardinality(U)
    BY DEF Counts
  <2>3. left[b] = count[b] - Cardinality(G)
    BY DEF UsersOf
  <2> HIDE DEF U, G, L, left
  <2>4. IsFiniteSet(U)
    BY <2>1, FS_Subset
  <2>5. IsFiniteSet(U \ gone) /\ Cardinality(U \ gone) = Cardinality(U) - Cardinality(U \cap gone)
    BY <2>4, FS_Difference
  <2>6. QED
    BY <2>1, <2>2, <2>3, <2>5 DEF L
<1>3. DOMAIN c = {b \in DOMAIN count : left[b] > 0} /\ \A b \in DOMAIN c : c[b] = left[b]
  BY DEF Released, Restrict
<1>4. ASSUME NEW b \in DOMAIN count
      PROVE  left[b] > 0 <=> \E d \in DOMAIN less : less[d].buf = b
  <2> DEFINE L == Users(less, b)
  <2>1. left[b] = Cardinality(L) /\ IsFiniteSet(L)
    BY <1>2
  <2>2. L # {} <=> \E d \in DOMAIN less : less[d].buf = b
    BY DEF Users
  <2> HIDE DEF L, left, less
  <2>3. Cardinality(L) \in Nat /\ (Cardinality(L) = 0 <=> L = {})
    BY <2>1, FS_CardinalityType, FS_EmptySet
  <2>4. QED
    BY <2>1, <2>2, <2>3
<1>5. \A d \in DOMAIN less : less[d].buf \in DOMAIN count
  BY <1>1 DEF Counts
<1> HIDE DEF less, left, c
<1>6. DOMAIN c = {less[d].buf : d \in DOMAIN less}
  BY <1>3, <1>4, <1>5
<1>7. \A b \in DOMAIN c : c[b] = Cardinality(Users(less, b))
  BY <1>2, <1>3
<1>8. QED
  BY <1>6, <1>7 DEF Counts, c, less

-----------------------------------------------------------------------------
(* The poles of conduits *)

Ends(c) == {p.fd : p \in {c.in, c.out} \ {Nil}}

LEMMA FdsOfAre ==
  ASSUME NEW cs
  PROVE  \A d : d \in FdsOf(cs) <=> \E i \in DOMAIN cs : d \in Ends(cs[i])
<1>1. \A c : c \in Range(cs) <=> \E i \in DOMAIN cs : c = cs[i]
  BY DEF Range
<1>2. \A d : d \in FdsOf(cs) <=> \E c \in Range(cs) : (c.in # Nil /\ d = c.in.fd) \/ (c.out # Nil /\ d = c.out.fd)
  BY DEF FdsOf
<1>3. \A c, d : d \in Ends(c) <=> (c.in # Nil /\ d = c.in.fd) \/ (c.out # Nil /\ d = c.out.fd)
  BY DEF Ends
<1>4. QED
  BY <1>1, <1>2, <1>3

LEMMA FdsOfOne ==
  ASSUME NEW c
  PROVE  FdsOf(<<c>>) = Ends(c)
<1>1. DOMAIN <<c>> = {1} /\ <<c>>[1] = c
  OBVIOUS
<1>2. \A d : d \in FdsOf(<<c>>) <=> d \in Ends(c)
  BY <1>1, FdsOfAre
<1>3. QED
  BY <1>2

LEMMA FdsOfNone == FdsOf(<<>>) = {}
<1>1. DOMAIN <<>> = {}
  OBVIOUS
<1>2. QED
  BY <1>1, FdsOfAre

LEMMA Nothing == Range(<<>>) = {} /\ FdsOf(<<>>) = {} /\ <<>> \in Seq({}) /\ DOMAIN <<>> = {}
<1>1. DOMAIN <<>> = {} /\ Len(<<>>) = 0 /\ <<>> \in Seq({})
  OBVIOUS
<1>2. Range(<<>>) = {}
  BY <1>1 DEF Range
<1>3. QED
  BY <1>1, <1>2, FdsOfNone

LEMMA FdsOfMore ==
  ASSUME NEW cs, cs \in Seq(Range(cs)), NEW c
  PROVE  FdsOf(Append(cs, c)) = FdsOf(cs) \cup Ends(c)
<1> DEFINE ds == Append(cs, c)
           n == Len(cs)
           S == Range(cs) \cup {c}
<1>0. cs \in Seq(S)
  <2>1. Len(cs) \in Nat /\ cs \in [1 .. Len(cs) -> S]
    OBVIOUS
  <2> HIDE DEF S
  <2>2. QED
    BY <2>1
<1> HIDE DEF S
<1>1. /\ n \in Nat /\ DOMAIN cs = 1 .. n
      /\ DOMAIN ds = 1 .. n + 1 /\ ds[n + 1] = c
      /\ \A i \in 1 .. n : ds[i] = cs[i]
  <2>1. c \in S
    BY DEF S
  <2>2. QED
    BY <1>0, <2>1
<1> HIDE DEF ds, n
<1>2. \A d : (\E i \in DOMAIN ds : d \in Ends(ds[i])) <=> (\E i \in DOMAIN cs : d \in Ends(cs[i])) \/ d \in Ends(c)
  BY <1>1
<1>3. \A d : d \in FdsOf(ds) <=> d \in FdsOf(cs) \/ d \in Ends(c)
  BY <1>2, FdsOfAre
<1>4. QED
  BY <1>3 DEF ds

-----------------------------------------------------------------------------
(* The stages *)

LEMMA AfterIs ==
  /\ After("in file") = "in rec" /\ After("in rec") = "in data" /\ After("in data") = "in records"
  /\ After("in records") = "out file" /\ After("out file") = "out rec" /\ After("out rec") = "out data"
  /\ After("out data") = "connect" /\ After("connect") = "free" /\ After("free") = "merge"
  /\ After("merge") = "ready"
<1>1. DOMAIN Order = 1 .. 12
  BY DEF Order
<1>2. \A k \in 1 .. 12, m \in 1 .. 12 : Order[m] = Order[k] => m = k
  <2>1. /\ Order[1] = "in file" /\ Order[2] = "in rec" /\ Order[3] = "in data" /\ Order[4] = "in records"
        /\ Order[5] = "out file" /\ Order[6] = "out rec" /\ Order[7] = "out data" /\ Order[8] = "connect"
        /\ Order[9] = "free" /\ Order[10] = "merge" /\ Order[11] = "ready" /\ Order[12] = "gone"
    BY DEF Order
  <2>2. \A m \in 1 .. 12 : m = 1 \/ m = 2 \/ m = 3 \/ m = 4 \/ m = 5 \/ m = 6 \/ m = 7 \/ m = 8
                            \/ m = 9 \/ m = 10 \/ m = 11 \/ m = 12
    OBVIOUS
  <2> DEFINE Pos(x) == CASE x = "in file" -> 1 [] x = "in rec" -> 2 [] x = "in data" -> 3 [] x = "in records" -> 4
                         [] x = "out file" -> 5 [] x = "out rec" -> 6 [] x = "out data" -> 7 [] x = "connect" -> 8
                         [] x = "free" -> 9 [] x = "merge" -> 10 [] x = "ready" -> 11 [] x = "gone" -> 12
  <2>3. \A m \in 1 .. 12 : Pos(Order[m]) = m
    BY <2>1, <2>2
  <2> HIDE DEF Pos
  <2>4. QED
    BY <2>3
<1>3. ASSUME NEW k \in 1 .. 11
      PROVE  After(Order[k]) = Order[k + 1]
  <2>1. \A i \in DOMAIN Order : Order[i] = Order[k] => i = k
    BY <1>1, <1>2
  <2>2. k \in DOMAIN Order
    BY <1>1
  <2>3. (CHOOSE i \in DOMAIN Order : Order[i] = Order[k]) = k
    BY <2>1, <2>2
  <2> DEFINE c == CHOOSE i \in DOMAIN Order : Order[i] = Order[k]
  <2>4. After(Order[k]) = Order[1 + c]
    BY DEF After
  <2> HIDE DEF c
  <2>5. c = k
    BY <2>3 DEF c
  <2>6. QED
    BY <2>4, <2>5
<1>4. \A k \in 1 .. 11 : After(Order[k]) = Order[k + 1]
  BY <1>3
<1>5. /\ Order[1] = "in file" /\ Order[2] = "in rec" /\ Order[3] = "in data" /\ Order[4] = "in records"
      /\ Order[5] = "out file" /\ Order[6] = "out rec" /\ Order[7] = "out data" /\ Order[8] = "connect"
      /\ Order[9] = "free" /\ Order[10] = "merge" /\ Order[11] = "ready"
  BY DEF Order
<1>6. /\ After(Order[1]) = Order[2] /\ After(Order[2]) = Order[3] /\ After(Order[3]) = Order[4]
      /\ After(Order[4]) = Order[5] /\ After(Order[5]) = Order[6] /\ After(Order[6]) = Order[7]
      /\ After(Order[7]) = Order[8] /\ After(Order[8]) = Order[9] /\ After(Order[9]) = Order[10]
      /\ After(Order[10]) = Order[11]
  BY <1>4
<1>7. QED
  BY <1>5, <1>6

-----------------------------------------------------------------------------
(* The invariant *)

\* What is in memory
InMemory ==
    /\ made \in Nat
    /\ DOMAIN fds \subseteq 1 .. made
    /\ \A d \in DOMAIN fds : IsFormat(fds[d].fmt) /\ fds[d].buf \in 1 .. made
    /\ Counts(usage, fds)

\* The lists are lists, and a conduit has two poles
Listed ==
    /\ AreFormats(flist)
    /\ fdl \in Seq(Range(fdl))
    /\ conduits \in Seq(Range(conduits))
    /\ \A i \in DOMAIN conduits : conduits[i] = [in |-> conduits[i].in, out |-> conduits[i].out]

\* Every FORMAT_DATA has one owner: the list, one pole of one conduit, or nobody
Owned ==
    /\ DOMAIN fds = Range(fdl) \cup FdsOf(conduits) \cup lost
    /\ lost \cap (Range(fdl) \cup FdsOf(conduits)) = {}
    /\ Range(fdl) \cap FdsOf(conduits) = {}
    /\ \A i \in DOMAIN conduits :
          conduits[i].in # Nil /\ conduits[i].out # Nil => conduits[i].in.fd # conduits[i].out.fd
    /\ \A i, j \in DOMAIN conduits : i # j => Ends(conduits[i]) \cap Ends(conduits[j]) = {}

\* What is freed by when
Filling == {"in file", "in rec", "in data", "in records", "out file", "out rec", "out data", "connect", "free"}
Staged ==
    /\ job \in Jobs
    /\ stage \in Filling \cup {"merge", "ready", "gone", "failing", "failed"}
    /\ at = [fd |-> at.fd, var |-> at.var] /\ at.fd \in Nat \ {0}
    /\ stage \notin {"failing", "failed"} => lost = {}
    /\ stage \in {"merge", "ready", "gone", "failed"} => fdl = <<>>
    /\ stage \in {"gone", "failed"} => conduits = <<>>

SInv == InMemory /\ Listed /\ Owned /\ Staged

\* The invariant says that memory is kept.
LEMMA Kept ==
  ASSUME SInv
  PROVE  MemoryKept
<1> USE DEF SInv
<1>1. UsageCounts
  BY DEF InMemory, Counts, Users, UsageCounts
<1>2. \A i \in DOMAIN conduits : FdsOf(<<conduits[i]>>) = Ends(conduits[i])
  BY FdsOfOne
<1>3. Range(<<>>) = {} /\ FdsOf(<<>>) = {}
  BY Nothing
<1>4. OwnedOnce
  <2>1. stage \in {"gone", "failed"} => DOMAIN fds = lost
    BY <1>3 DEF Owned, Staged
  <2>2. stage = "ready" => DOMAIN fds = FdsOf(conduits)
    BY <1>3 DEF Owned, Staged
  <2>3. QED
    BY <1>2, <2>1, <2>2 DEF Owned, OwnedOnce
<1>5. QED
  BY <1>1, <1>4 DEF MemoryKept

LEMMA InitKept == Init => SInv
<1> SUFFICES ASSUME Init
             PROVE  SInv
  OBVIOUS
<1>1. Range(<<>>) = {} /\ FdsOf(<<>>) = {} /\ <<>> \in Seq({}) /\ DOMAIN <<>> = {}
  BY Nothing
<1> USE DEF Init
<1>2. InMemory
  BY <1>1 DEF InMemory, Counts, Users
<1>3. Listed
  <2>1. AreFormats(flist)
    BY JobsAssumption
  <2>2. QED
    BY <1>1, <2>1 DEF Listed
<1>4. Owned
  BY <1>1 DEF Owned
<1>5. Staged
  <2>0. at = [fd |-> 1, var |-> 1]
    OBVIOUS
  <2>1. at = [fd |-> at.fd, var |-> at.var] /\ at.fd \in Nat \ {0}
    <3> HIDE DEF Init
    <3>1. at.fd = 1 /\ at.var = 1
      BY <2>0
    <3>2. QED
      BY <2>0, <3>1
  <2>2. stage = "in file" /\ lost = {} /\ job \in Jobs
    OBVIOUS
  <2>3. QED
    BY <2>1, <2>2 DEF Staged, Filling
<1>6. QED
  BY <1>2, <1>3, <1>4, <1>5 DEF SInv

\* What is in memory is finite, and the buffers are numbered.
LEMMA MemoryIs ==
  ASSUME InMemory
  PROVE  /\ IsFiniteSet(DOMAIN fds)
         /\ DOMAIN usage \subseteq 1 .. made
<1>1. IsFiniteSet(1 .. made)
  BY FS_Interval DEF InMemory
<1>2. QED
  BY <1>1, FS_Subset DEF InMemory, Counts

\* New FORMAT_DATAs with buffers of their own
LEMMA MadeNew ==
  ASSUME InMemory, NEW n \in Nat, made' = made + n,
         DOMAIN fds' = DOMAIN fds \cup (made + 1 .. made + n),
         \A d \in DOMAIN fds : fds'[d] = fds[d],
         \A d \in made + 1 .. made + n : IsFormat(fds'[d].fmt) /\ fds'[d].buf = d,
         usage' = OneUser(usage, made + 1 .. made + n)
  PROVE  InMemory'
<1> DEFINE N == made + 1 .. made + n
<1>1. /\ made \in Nat /\ DOMAIN fds \subseteq 1 .. made /\ DOMAIN usage \subseteq 1 .. made
      /\ Counts(usage, fds)
  BY MemoryIs DEF InMemory
<1>2. N \cap DOMAIN fds = {} /\ N \cap DOMAIN usage = {}
  BY <1>1
<1>3. 1 .. made' = 1 .. made \cup N
  BY <1>1
<1> HIDE DEF N
<1>4. DOMAIN fds' = DOMAIN fds \cup N /\ \A d \in N : IsFormat(fds'[d].fmt) /\ fds'[d].buf = d
  BY DEF N
<1>5. Counts(OneUser(usage, N), fds')
  <2>1. \A d \in N : fds'[d].buf = d
    BY <1>4
  <2>2. DOMAIN fds' = DOMAIN fds \cup N
    BY <1>4
  <2>3. Extends(fds', fds, N) /\ OnItsOwn(fds', N, usage)
    BY <1>2, <2>1, <2>2 DEF Extends, OnItsOwn
  <2>4. QED
    BY <1>1, <2>3, OwnBuffers
<1>6. DOMAIN fds' \subseteq 1 .. made'
  BY <1>1, <1>3, <1>4
<1>7. \A d \in DOMAIN fds' : IsFormat(fds'[d].fmt) /\ fds'[d].buf \in 1 .. made'
  BY <1>1, <1>3, <1>4 DEF InMemory
<1>8. made' \in Nat
  BY <1>1
<1>9. Counts(usage', fds')
  BY <1>5 DEF N
<1>10. QED
  BY <1>6, <1>7, <1>8, <1>9 DEF InMemory

\* FORMAT_DATAs that are destroyed
LEMMA MadeLess ==
  ASSUME InMemory, NEW gone, Destroyed(gone), made' = made
  PROVE  InMemory' /\ DOMAIN fds' = DOMAIN fds \ gone /\ \A d \in DOMAIN fds' : fds'[d] = fds[d]
<1>1. fds' = Restrict(fds, DOMAIN fds \ gone) /\ usage' = Released(usage, fds, gone)
  BY DEF Destroyed
<1>2. DOMAIN fds' = DOMAIN fds \ gone /\ \A d \in DOMAIN fds' : fds'[d] = fds[d]
  BY <1>1 DEF Restrict
<1>3. Counts(usage, fds) /\ IsFiniteSet(DOMAIN fds)
  BY MemoryIs DEF InMemory
<1>4. Counts(Released(usage, fds, gone), Restrict(fds, DOMAIN fds \ gone))
  BY <1>3, GoneUncounted
<1>5. Counts(usage', fds')
  BY <1>1, <1>4
<1>6. QED
  BY <1>2, <1>5 DEF InMemory

-----------------------------------------------------------------------------
(* New owners *)

\* A list with more at its end
LEMMA RangeJoined ==
  ASSUME NEW s, s \in Seq(Range(s)), NEW t, t \in Seq(Range(t))
  PROVE  s \o t \in Seq(Range(s \o t)) /\ Range(s \o t) = Range(s) \cup Range(t)
<1> DEFINE m == Len(s)
           n == Len(t)
           u == s \o t
           R == Range(s) \cup Range(t)
<1>1. m \in Nat /\ n \in Nat /\ DOMAIN s = 1 .. m /\ DOMAIN t = 1 .. n
  OBVIOUS
<1>2. s \in Seq(R) /\ t \in Seq(R)
  <2>1. s \in [1 .. Len(s) -> R] /\ Len(s) \in Nat
    OBVIOUS
  <2>2. t \in [1 .. Len(t) -> R] /\ Len(t) \in Nat
    OBVIOUS
  <2> HIDE DEF R
  <2>3. QED
    BY <2>1, <2>2
<1>3. /\ DOMAIN u = 1 .. m + n
      /\ \A i \in 1 .. m + n : u[i] = IF i <= m THEN s[i] ELSE t[i - m]
  <2> HIDE DEF R
  <2>1. QED
    BY <1>2
<1>4. u \in Seq(R)
  <2> HIDE DEF R
  <2>1. QED
    BY <1>2, Joined
<1>5. \A i \in 1 .. m : i \in 1 .. m + n /\ i <= m
  BY <1>1
<1>6. \A i \in 1 .. n : i + m \in 1 .. m + n /\ ~ (i + m <= m) /\ (i + m) - m = i
  BY <1>1
<1>7. u \in Seq(Range(u)) /\ Range(u) \subseteq R
  <2> HIDE DEF R, u
  <2>1. QED
    BY <1>4, OwnRange
<1> HIDE DEF u, m, n
<1>8. Range(s) \subseteq Range(u)
  <2>1. \A i \in 1 .. m : u[i] = s[i] /\ i \in DOMAIN u
    BY <1>3, <1>5
  <2>2. QED
    BY <1>1, <2>1 DEF Range
<1>9. Range(t) \subseteq Range(u)
  <2>1. \A i \in 1 .. n : u[i + m] = t[i] /\ i + m \in DOMAIN u
    BY <1>3, <1>6
  <2>2. QED
    BY <1>1, <2>1 DEF Range
<1>10. QED
  BY <1>7, <1>8, <1>9 DEF u

LEMMA RangeMore ==
  ASSUME NEW s, s \in Seq(Range(s)), NEW x
  PROVE  Append(s, x) \in Seq(Range(Append(s, x))) /\ Range(Append(s, x)) = Range(s) \cup {x}
<1>1. Append(s, x) = s \o <<x>>
  OBVIOUS
<1>2. DOMAIN <<x>> = {1} /\ <<x>>[1] = x
  OBVIOUS
<1>3. Range(<<x>>) = {x}
  BY <1>2 DEF Range
<1>4. <<x>> \in Seq({x})
  OBVIOUS
<1> DEFINE t == <<x>>
<1>5. t \in Seq(Range(t)) /\ Range(t) = {x} /\ Append(s, x) = s \o t
  BY <1>1, <1>3, <1>4
<1> HIDE DEF t
<1>6. s \o t \in Seq(Range(s \o t)) /\ Range(s \o t) = Range(s) \cup Range(t)
  BY <1>5, RangeJoined
<1>7. QED
  BY <1>5, <1>6

\* What was made is in the list.
LEMMA ListedNew ==
  ASSUME InMemory, Owned, NEW N, Extends(fds', fds, N),
         Range(fdl') = Range(fdl) \cup N, UNCHANGED <<conduits, lost>>
  PROVE  Owned'
BY DEF Owned, Extends

\* What was made is the poles of a new conduit.
LEMMA ConnectedNew ==
  ASSUME InMemory, Listed, Owned, NEW N, Extends(fds', fds, N),
         NEW c, conduits' = Append(conduits, c), Ends(c) = N,
         c.in # Nil /\ c.out # Nil => c.in.fd # c.out.fd,
         c = [in |-> c.in, out |-> c.out],
         UNCHANGED <<fdl, lost>>
  PROVE  /\ Owned'
         /\ conduits' \in Seq(Range(conduits'))
         /\ \A i \in DOMAIN conduits' : conduits'[i] = [in |-> conduits'[i].in, out |-> conduits'[i].out]
<1> DEFINE n == Len(conduits)
<1>1. /\ conduits' \in Seq(Range(conduits')) /\ FdsOf(conduits') = FdsOf(conduits) \cup N
  BY RangeMore, FdsOfMore DEF Listed
<1>2. /\ n \in Nat /\ DOMAIN conduits = 1 .. n
      /\ DOMAIN conduits' = 1 .. n + 1 /\ conduits'[n + 1] = c
      /\ \A i \in 1 .. n : conduits'[i] = conduits[i]
  <2> DEFINE S == Range(conduits) \cup {c}
  <2>1. conduits \in [1 .. Len(conduits) -> S] /\ Len(conduits) \in Nat
    BY DEF Listed
  <2> HIDE DEF S
  <2>2. conduits \in Seq(S)
    BY <2>1
  <2>3. c \in S
    BY DEF S
  <2>4. QED
    BY <2>2, <2>3
<1> HIDE DEF n
<1>3. \A i \in DOMAIN conduits' : i \in DOMAIN conduits \/ conduits'[i] = c
  BY <1>2
<1>4. \A i \in DOMAIN conduits : Ends(conduits[i]) \cap N = {}
  BY FdsOfAre DEF Owned, Extends
<1>5. \A i, j \in DOMAIN conduits' : i # j =>
          \/ i \in DOMAIN conduits /\ j \in DOMAIN conduits
          \/ i \in DOMAIN conduits /\ conduits'[j] = c
          \/ j \in DOMAIN conduits /\ conduits'[i] = c
  BY <1>2
<1>6. \A i, j \in DOMAIN conduits' : i # j => Ends(conduits'[i]) \cap Ends(conduits'[j]) = {}
  <2> TAKE i, j \in DOMAIN conduits'
  <2> HAVE i # j
  <2>1. CASE i \in DOMAIN conduits /\ j \in DOMAIN conduits
    BY <1>2, <2>1 DEF Owned
  <2>2. CASE i \in DOMAIN conduits /\ conduits'[j] = c
    BY <1>2, <1>4, <2>2
  <2>3. CASE j \in DOMAIN conduits /\ conduits'[i] = c
    BY <1>2, <1>4, <2>3
  <2>4. QED
    BY <1>5, <2>1, <2>2, <2>3
<1>7. \A i \in DOMAIN conduits' :
          /\ conduits'[i].in # Nil /\ conduits'[i].out # Nil => conduits'[i].in.fd # conduits'[i].out.fd
          /\ conduits'[i] = [in |-> conduits'[i].in, out |-> conduits'[i].out]
  BY <1>2, <1>3 DEF Owned, Listed
<1>8. /\ DOMAIN fds' = Range(fdl') \cup FdsOf(conduits') \cup lost'
      /\ lost' \cap (Range(fdl') \cup FdsOf(conduits')) = {}
      /\ Range(fdl') \cap FdsOf(conduits') = {}
  BY <1>1 DEF Owned, Extends
<1>9. QED
  BY <1>1, <1>6, <1>7, <1>8 DEF Owned

-----------------------------------------------------------------------------
(* The steps that choose formats *)

LEMMA TakeFormatKept ==
  ASSUME SInv, NEW s \in DOMAIN IoOf, TakeFormat(s)
  PROVE  SInv'
<1> DEFINE io == IoOf[s]
           title == IF KindOf[s] # "data" THEN Nil ELSE IF io = "in" THEN job.inTitle ELSE job.outTitle
           c == Chosen(ListOf(s), KindOf[s], io, title)
<1>1. InMemory /\ Listed /\ Owned /\ Staged
  BY DEF SInv
<1>2. AreFormats(ListOf(s))
  BY <1>1, JobsAssumption DEF ListOf, Listed, Staged
<1>3. AreFormats(c.list) /\ (c.found # Nil => IsFormat(c.found))
  BY <1>2, ChosenIs
<1>4. /\ stage = s
      /\ flist' = c.list
      /\ c.found = Nil => UNCHANGED <<fdl, fds, usage, made>>
      /\ c.found # Nil => /\ made' = made + 1
                          /\ fds' = WithNew(fds, made + 1, c.found)
                          /\ usage' = OneUser(usage, {made + 1})
                          /\ fdl' = Append(fdl, made + 1)
      /\ stage' = "failing" \/ stage' = After(s)
      /\ UNCHANGED <<job, conduits, at, lost>>
  BY DEF TakeFormat
<1> HIDE DEF c
<1>5. s \in {"in file", "in rec", "in data", "out file", "out rec", "out data"}
  BY DEF IoOf
<1>6. After(s) \in Filling /\ s \in Filling
  BY <1>5, AfterIs DEF Filling
<1>7. Staged'
  <2>1. lost = {}
    BY <1>1, <1>4, <1>5 DEF Staged
  <2>2. stage' = "failing" \/ stage' \in Filling
    BY <1>4, <1>6
  <2>3. stage' \notin {"merge", "ready", "gone", "failed"}
    BY <2>2 DEF Filling
  <2>4. QED
    BY <1>1, <1>4, <2>1, <2>2, <2>3 DEF Staged
<1>8. CASE c.found = Nil
  <2>1. UNCHANGED <<fdl, fds, usage, made, conduits, lost>>
    BY <1>4, <1>8
  <2>2. InMemory' /\ Owned'
    BY <1>1, <2>1 DEF InMemory, Owned
  <2>3. Listed'
    BY <1>1, <1>3, <1>4, <2>1 DEF Listed
  <2>4. QED
    BY <1>7, <2>2, <2>3 DEF SInv
<1>9. CASE c.found # Nil
  <2> DEFINE N == made + 1 .. made + 1
  <2>1. N = {made + 1} /\ made \in Nat /\ DOMAIN fds \subseteq 1 .. made
    BY <1>1 DEF InMemory
  <2>2. made + 1 \notin DOMAIN fds
    BY <2>1
  <2>3. /\ DOMAIN fds' = DOMAIN fds \cup N
        /\ \A d \in DOMAIN fds : fds'[d] = fds[d]
        /\ \A d \in N : fds'[d] = [fmt |-> c.found, buf |-> d]
    BY <1>4, <1>9, <2>1, <2>2 DEF WithNew
  <2>4. made' = made + 1 /\ usage' = OneUser(usage, N) /\ fdl' = Append(fdl, made + 1)
    BY <1>4, <1>9, <2>1
  <2>5. \A d \in N : IsFormat(fds'[d].fmt) /\ fds'[d].buf = d
    BY <1>3, <1>9, <2>3
  <2>6. InMemory'
    BY <1>1, <2>3, <2>4, <2>5, MadeNew
  <2>7. fdl' \in Seq(Range(fdl')) /\ Range(fdl') = Range(fdl) \cup N
    BY <1>1, <2>1, <2>4, RangeMore DEF Listed
  <2>8. Extends(fds', fds, N)
    BY <2>1, <2>2, <2>3 DEF Extends
  <2>9. Owned'
    BY <1>1, <1>4, <2>7, <2>8, ListedNew
  <2>10. Listed'
    BY <1>1, <1>3, <1>4, <2>7 DEF Listed
  <2>11. QED
    BY <1>7, <2>6, <2>9, <2>10 DEF SInv
<1>10. QED
  BY <1>8, <1>9

LEMMA TakeRecordsKept ==
  ASSUME SInv, TakeRecords
  PROVE  SInv'
<1> DEFINE S == {i \in DOMAIN flist : flist[i].kind = "record"}
           records == Those(flist, S)
           ids == [i \in DOMAIN records |-> made + i]
           n == Len(records)
           N == made + 1 .. made + n
<1>1. InMemory /\ Listed /\ Owned /\ Staged
  BY DEF SInv
<1>2. /\ stage = "in records"
      /\ fdl' = fdl \o ids
      /\ fds' = [d \in DOMAIN fds \cup Range(ids) |->
                    IF d \in DOMAIN fds THEN fds[d] ELSE [fmt |-> records[d - made], buf |-> d]]
      /\ usage' = OneUser(usage, Range(ids))
      /\ made' = made + n
      /\ stage' = "failing" \/ stage' = After(stage)
      /\ UNCHANGED <<job, flist, conduits, at, lost>>
  BY DEF TakeRecords
<1>3. flist \in Seq(Range(flist)) /\ \A f \in Range(flist) : IsFormat(f)
  BY <1>1, FormatsIn DEF Listed
<1>4. S \in SUBSET DOMAIN flist
  OBVIOUS
<1> HIDE DEF S
<1>5. records \in Seq(Range(flist))
  BY <1>3, <1>4, ThoseAre
<1>6. n \in Nat /\ DOMAIN records = 1 .. n /\ \A k \in 1 .. n : IsFormat(records[k])
  BY <1>3, <1>5
<1> HIDE DEF records, n
<1>7. made \in Nat /\ DOMAIN fds \subseteq 1 .. made
  BY <1>1 DEF InMemory
<1>8. ids \in Seq(Range(ids)) /\ Range(ids) = N
  <2>1. ids = [i \in 1 .. n |-> made + i] /\ \A i \in 1 .. n : made + i \in N
    BY <1>6, <1>7
  <2>2. \A d \in N : d - made \in 1 .. n /\ made + (d - made) = d
    BY <1>6, <1>7
  <2>3. ids \in [1 .. n -> N]
    BY <2>1
  <2>4. DOMAIN ids = 1 .. n /\ \A i \in 1 .. n : ids[i] = made + i
    BY <2>1
  <2> HIDE DEF N, ids
  <2>5. ids \in Seq(N)
    BY <1>6, <2>3
  <2>6. Range(ids) = N
    BY <2>1, <2>2, <2>4 DEF Range
  <2>7. QED
    BY <2>5, <2>6
<1> HIDE DEF ids
<1>9. /\ DOMAIN fds' = DOMAIN fds \cup N
      /\ \A d \in DOMAIN fds : fds'[d] = fds[d]
      /\ \A d \in N : d \notin DOMAIN fds /\ fds'[d] = [fmt |-> records[d - made], buf |-> d]
  <2>1. \A d \in N : d \notin DOMAIN fds
    BY <1>6, <1>7
  <2> HIDE DEF N
  <2>2. QED
    BY <1>2, <1>8, <2>1
<1>10. \A d \in N : IsFormat(fds'[d].fmt) /\ fds'[d].buf = d
  <2>1. \A d \in N : d - made \in 1 .. n
    BY <1>6, <1>7
  <2> HIDE DEF N
  <2>2. QED
    BY <1>6, <1>9, <2>1
<1>11. usage' = OneUser(usage, N)
  BY <1>2, <1>8
<1>12. InMemory'
  BY <1>1, <1>2, <1>6, <1>9, <1>10, <1>11, MadeNew
<1>13. Extends(fds', fds, N)
  BY <1>9 DEF Extends
<1>14. fdl' \in Seq(Range(fdl')) /\ Range(fdl') = Range(fdl) \cup N
  <2>1. fdl \in Seq(Range(fdl))
    BY <1>1 DEF Listed
  <2> HIDE DEF N
  <2>2. QED
    BY <1>2, <1>8, <2>1, RangeJoined
<1> HIDE DEF N
<1>15. Owned'
  BY <1>1, <1>2, <1>13, <1>14, ListedNew
<1>16. Listed'
  BY <1>1, <1>2, <1>14 DEF Listed
<1>17. Staged'
  <2>1. lost = {} /\ (stage' = "failing" \/ stage' = "out file")
    BY <1>1, <1>2, AfterIs DEF Staged
  <2>2. QED
    BY <1>1, <1>2, <2>1 DEF Staged, Filling
<1>18. QED
  BY <1>12, <1>15, <1>16, <1>17 DEF SInv

-----------------------------------------------------------------------------
(* The steps that make conduits *)

\* Nil is nothing that db_init makes
NilIsNothing == Nil \notin Nat /\ \A d, o : Pole(d, o) # Nil

\* The FORMAT_DATA in hand, and the one at the other side
LEMMA InHand ==
  ASSUME SInv, NilIsNothing, stage = "connect", at.fd <= Len(fdl)
  PROVE  /\ Fd \in Range(fdl)
         /\ InFd = Nil \/ InFd \in Range(fdl)
         /\ OutFd = Nil \/ OutFd \in Range(fdl)
         /\ InFd # Nil \/ OutFd # Nil
         /\ \A d \in Range(fdl) : d \in DOMAIN fds /\ d \in Nat
<1>1. InMemory /\ Listed /\ Owned /\ Staged
  BY DEF SInv
<1>2. \A d \in Range(fdl) : d \in DOMAIN fds /\ d \in Nat /\ IsFormat(fds[d].fmt)
  BY <1>1 DEF Owned, InMemory
<1>3. Sorted(fdl) \in Seq(Range(fdl)) /\ Len(Sorted(fdl)) = Len(fdl) /\ Len(fdl) \in Nat
  BY <1>1, <1>2, SortedIs DEF Listed
<1>4. Fd \in Range(fdl)
  <2> DEFINE t == Sorted(fdl)
             R == Range(fdl)
             k == at.fd
  <2>1. t \in Seq(R) /\ k \in 1 .. Len(t)
    BY <1>1, <1>3 DEF Staged
  <2> HIDE DEF t, R, k
  <2>2. t[k] \in R
    BY <2>1
  <2>3. QED
    BY <2>2 DEF t, R, k, Fd
<1>5. Sorted(fdl) \in Seq(Range(Sorted(fdl))) /\ Range(Sorted(fdl)) \subseteq Range(fdl)
  BY <1>3, OwnRange
<1>6. \A f : OutputOf(f) # Nil => OutputOf(f) \in Range(fdl)
  <2> TAKE f
  <2> HAVE OutputOf(f) # Nil
  <2> DEFINE t == Sorted(fdl)
             fitting == {d \in ToSet(t) : fds[d].fmt.io = "out" /\ fds[d].fmt.kind = f.kind}
  <2>1. OutputOf(f) = FirstIn(t, fitting)
    BY DEF OutputOf
  <2> HIDE DEF t, fitting
  <2>2. FirstIn(t, fitting) \in fitting \cap Range(t)
    BY <1>5, <2>1, FirstInIs DEF t
  <2>3. QED
    BY <1>5, <2>1, <2>2 DEF t
<1>7. Fd # Nil
  BY <1>2, <1>4 DEF NilIsNothing
<1>8. QED
  BY <1>2, <1>4, <1>6, <1>7 DEF InFd, OutFd

\* InMemory, of any FORMAT_DATAs
MemoryOf(heap, count, m) ==
    /\ m \in Nat
    /\ DOMAIN heap \subseteq 1 .. m
    /\ \A d \in DOMAIN heap : IsFormat(heap[d].fmt) /\ heap[d].buf \in 1 .. m
    /\ Counts(count, heap)

\* A copy of a FORMAT_DATA on the same buffer
LEMMA CopyMade ==
  ASSUME NEW heap, NEW count, NEW m, MemoryOf(heap, count, m),
         NEW s \in DOMAIN heap, NEW more, Extends(more, heap, {m + 1}), more[m + 1] = heap[s]
  PROVE  MemoryOf(more, Grafted(count, heap[s].buf), m + 1)
<1>1. m \in Nat /\ DOMAIN heap \subseteq 1 .. m /\ Counts(count, heap)
  BY DEF MemoryOf
<1>2. IsFiniteSet(DOMAIN heap)
  <2>1. IsFiniteSet(1 .. m)
    BY <1>1, FS_Interval
  <2>2. QED
    BY <1>1, <2>1, FS_Subset
<1> DEFINE new == m + 1
<1>3. Extends(more, heap, {new}) /\ more[new] = heap[s]
  OBVIOUS
<1>4. 1 .. m \subseteq 1 .. new /\ new \in 1 .. new /\ new \in Nat
  BY <1>1
<1> HIDE DEF new
<1>5. Counts(Grafted(count, heap[s].buf), more)
  BY <1>1, <1>2, <1>3, CopyCounted
<1>6. DOMAIN more = DOMAIN heap \cup {new} /\ \A d \in DOMAIN heap : more[d] = heap[d]
  BY <1>3 DEF Extends
<1>7. DOMAIN more \subseteq 1 .. new
  BY <1>1, <1>4, <1>6
<1>8. \A d \in DOMAIN more : IsFormat(more[d].fmt) /\ more[d].buf \in 1 .. new
  BY <1>3, <1>4, <1>6 DEF MemoryOf
<1>9. MemoryOf(more, Grafted(count, heap[s].buf), new)
  BY <1>4, <1>5, <1>7, <1>8 DEF MemoryOf
<1>10. QED
  BY <1>9 DEF new

LEMMA PoleIs ==
  ASSUME NEW d, NEW o
  PROVE  Pole(d, o).fd = d
BY DEF Pole

\* The ends of a conduit, by its poles
LEMMA EndsAre ==
  ASSUME NEW p, NEW q
  PROVE  LET c == [in |-> p, out |-> q] IN
         /\ c.in = p /\ c.out = q
         /\ p = Nil /\ q = Nil => Ends(c) = {}
         /\ p # Nil /\ q = Nil => Ends(c) = {p.fd}
         /\ p = Nil /\ q # Nil => Ends(c) = {q.fd}
         /\ p # Nil /\ q # Nil => Ends(c) = {p.fd, q.fd}
<1> DEFINE c == [in |-> p, out |-> q]
<1>1. c.in = p /\ c.out = q
  OBVIOUS
<1> HIDE DEF c
<1>2. /\ p = Nil /\ q = Nil => Ends(c) = {}
      /\ p # Nil /\ q = Nil => Ends(c) = {p.fd}
      /\ p = Nil /\ q # Nil => Ends(c) = {q.fd}
      /\ p # Nil /\ q # Nil => Ends(c) = {p.fd, q.fd}
  BY <1>1 DEF Ends
<1>3. QED
  BY <1>1, <1>2 DEF c

\* The last conduit has the FORMAT_DATAs just made for its ends.
LEMMA MakeTabularKept ==
  ASSUME SInv, NilIsNothing, MakeTabular
  PROVE  SInv'
<1> DEFINE ins == IF InFd = Nil THEN <<>> ELSE <<InFd>>
           sides == IF OutFd = Nil THEN ins ELSE Append(ins, OutFd)
           counted == IF InFd = Nil THEN usage ELSE Grafted(usage, fds[InFd].buf)
           p == IF InFd = Nil THEN Nil ELSE Pole(made + 1, 0)
           q == IF OutFd = Nil THEN Nil ELSE Pole(made + Len(sides), 0)
           c == [in |-> p, out |-> q]
           N == made + 1 .. made + Len(sides)
<1>1. InMemory /\ Listed /\ Owned /\ Staged
  BY DEF SInv
<1>2. /\ stage = "connect" /\ at.fd <= Len(fdl)
      /\ fds' = [d \in DOMAIN fds \cup N |-> IF d \in DOMAIN fds THEN fds[d] ELSE fds[sides[d - made]]]
      /\ usage' = IF OutFd = Nil THEN counted ELSE Grafted(counted, fds[OutFd].buf)
      /\ made' = made + Len(sides)
      /\ conduits' = Append(conduits, c)
      /\ at' = Advance
      /\ UNCHANGED <<job, flist, fdl, stage, lost>>
  BY DEF MakeTabular, Due
<1>3. /\ InFd = Nil \/ InFd \in DOMAIN fds
      /\ OutFd = Nil \/ OutFd \in DOMAIN fds
      /\ InFd # Nil \/ OutFd # Nil
  BY <1>2, InHand
<1>4. MemoryOf(fds, usage, made) /\ made \in Nat /\ DOMAIN fds \subseteq 1 .. made
  BY <1>1 DEF InMemory, MemoryOf
<1>5. made + 1 \notin DOMAIN fds /\ made + 2 \notin DOMAIN fds
  BY <1>4
<1>6. \A d, o : Pole(d, o) # Nil /\ Pole(d, o).fd = d
  BY PoleIs DEF NilIsNothing
<1>7. /\ MemoryOf(fds', usage', made') /\ Extends(fds', fds, N)
      /\ Ends(c) = N /\ c.in = p /\ c.out = q
      /\ p # Nil /\ q # Nil => p.fd # q.fd
  <2>1. CASE InFd # Nil /\ OutFd = Nil
    <3>1. Len(sides) = 1 /\ sides[1] = InFd
      BY <2>1
    <3>2. N = {made + 1} /\ (made + 1) - made = 1
      BY <1>4, <3>1
    <3>3. /\ Extends(fds', fds, N) /\ fds'[made + 1] = fds[InFd]
          /\ usage' = Grafted(usage, fds[InFd].buf) /\ made' = made + 1
      <4> HIDE DEF sides, N
      <4>1. QED
        BY <1>2, <1>5, <2>1, <3>1, <3>2 DEF Extends
    <3>4. MemoryOf(fds', usage', made')
      <4> HIDE DEF N
      <4>1. Extends(fds', fds, {made + 1}) /\ InFd \in DOMAIN fds
        BY <1>3, <2>1, <3>2, <3>3
      <4>2. MemoryOf(fds', Grafted(usage, fds[InFd].buf), made + 1)
        BY <1>4, <3>3, <4>1, CopyMade
      <4>3. QED
        BY <3>3, <4>2
    <3>5. Ends(c) = N /\ c.in = p /\ c.out = q /\ (p # Nil /\ q # Nil => p.fd # q.fd)
      BY <1>6, <2>1, <3>2, EndsAre
    <3> HIDE DEF c, N, p, q, sides
    <3>6. QED
      BY <3>3, <3>4, <3>5
  <2>2. CASE InFd = Nil /\ OutFd # Nil
    <3>1. Len(sides) = 1 /\ sides[1] = OutFd
      BY <2>2
    <3>2. N = {made + 1} /\ (made + 1) - made = 1
      BY <1>4, <3>1
    <3>3. /\ Extends(fds', fds, N) /\ fds'[made + 1] = fds[OutFd]
          /\ usage' = Grafted(usage, fds[OutFd].buf) /\ made' = made + 1
      <4> HIDE DEF sides, N
      <4>1. QED
        BY <1>2, <1>5, <2>2, <3>1, <3>2 DEF Extends
    <3>4. MemoryOf(fds', usage', made')
      <4> HIDE DEF N
      <4>1. Extends(fds', fds, {made + 1}) /\ OutFd \in DOMAIN fds
        BY <1>3, <2>2, <3>2, <3>3
      <4>2. MemoryOf(fds', Grafted(usage, fds[OutFd].buf), made + 1)
        BY <1>4, <3>3, <4>1, CopyMade
      <4>3. QED
        BY <3>3, <4>2
    <3>5. Ends(c) = N /\ c.in = p /\ c.out = q /\ (p # Nil /\ q # Nil => p.fd # q.fd)
      BY <1>6, <2>2, <3>1, <3>2, EndsAre
    <3> HIDE DEF c, N, p, q, sides
    <3>6. QED
      BY <3>3, <3>4, <3>5
  <2>3. CASE InFd # Nil /\ OutFd # Nil
    <3>1. Len(sides) = 2 /\ sides[1] = InFd /\ sides[2] = OutFd
      BY <2>3
    <3>2. /\ N = {made + 1, made + 2} /\ (made + 1) - made = 1 /\ (made + 2) - made = 2
          /\ made + 1 # made + 2 /\ (made + 1) + 1 = made + 2
      BY <1>4, <3>1
    <3> DEFINE half == [d \in DOMAIN fds \cup {made + 1} |-> IF d \in DOMAIN fds THEN fds[d] ELSE fds[InFd]]
    <3>3. /\ DOMAIN fds' = DOMAIN fds \cup {made + 1, made + 2}
          /\ \A d \in DOMAIN fds : fds'[d] = fds[d]
          /\ fds'[made + 1] = fds[InFd] /\ fds'[made + 2] = fds[OutFd]
          /\ usage' = Grafted(Grafted(usage, fds[InFd].buf), fds[OutFd].buf) /\ made' = made + 2
      <4> HIDE DEF sides, N
      <4>1. QED
        BY <1>2, <1>5, <2>3, <3>1, <3>2
    <3>4. Extends(half, fds, {made + 1}) /\ half[made + 1] = fds[InFd] /\ half[OutFd] = fds[OutFd]
          /\ OutFd \in DOMAIN half
      BY <1>3, <1>5, <2>3 DEF Extends
    <3>5. Extends(fds', half, {made + 2})
      BY <1>5, <3>2, <3>3 DEF Extends
    <3> HIDE DEF half
    <3>6. MemoryOf(half, Grafted(usage, fds[InFd].buf), made + 1)
      BY <1>3, <1>4, <2>3, <3>4, CopyMade
    <3>7. MemoryOf(fds', usage', made')
      <4> DEFINE m == made + 1
                 one == Grafted(usage, fds[InFd].buf)
      <4>1. /\ MemoryOf(half, one, m) /\ OutFd \in DOMAIN half
            /\ Extends(fds', half, {m + 1}) /\ fds'[m + 1] = half[OutFd]
        BY <3>2, <3>3, <3>4, <3>5, <3>6
      <4> HIDE DEF m, one
      <4>2. MemoryOf(fds', Grafted(one, half[OutFd].buf), m + 1)
        BY <4>1, CopyMade
      <4>3. QED
        BY <3>2, <3>3, <3>4, <4>2 DEF m, one
    <3>8. Ends(c) = N /\ c.in = p /\ c.out = q /\ (p # Nil /\ q # Nil => p.fd # q.fd)
      <4>1. p # Nil /\ q # Nil /\ p.fd = made + 1 /\ q.fd = made + 2
        BY <1>6, <2>3, <3>1
      <4> HIDE DEF p, q, N
      <4>2. QED
        BY <3>2, <4>1, EndsAre
    <3>9. Extends(fds', fds, N)
      <4> HIDE DEF N
      <4>1. QED
        BY <1>5, <3>2, <3>3 DEF Extends
    <3> HIDE DEF c, N, p, q, sides
    <3>10. QED
      BY <3>7, <3>8, <3>9
  <2>4. QED
    BY <1>3, <2>1, <2>2, <2>3
<1>8. c = [in |-> c.in, out |-> c.out] /\ (c.in # Nil /\ c.out # Nil => c.in.fd # c.out.fd)
  BY <1>7
<1> HIDE DEF c, N, p, q, sides, counted
<1>9. /\ Owned'
      /\ conduits' \in Seq(Range(conduits'))
      /\ \A i \in DOMAIN conduits' : conduits'[i] = [in |-> conduits'[i].in, out |-> conduits'[i].out]
  BY <1>1, <1>2, <1>7, <1>8, ConnectedNew
<1>10. InMemory'
  BY <1>7 DEF InMemory, MemoryOf
<1>11. Listed'
  BY <1>1, <1>2, <1>9 DEF Listed
<1>12. Staged'
  <2>1. at' = [fd |-> at.fd + 1, var |-> 1]
    BY <1>2 DEF Advance
  <2>2. at'.fd = at.fd + 1 /\ at'.var = 1
    BY <2>1
  <2>3. at' = [fd |-> at'.fd, var |-> at'.var] /\ at'.fd \in Nat \ {0}
    BY <1>1, <2>1, <2>2 DEF Staged
  <2>4. QED
    BY <1>1, <1>2, <2>3 DEF Staged
<1>13. QED
  BY <1>9, <1>10, <1>11, <1>12 DEF SInv

\* What is spawned is a format.
LEMMA SpawnedIs ==
  ASSUME NEW f, f.kind \in Kinds, NEW x
  PROVE  IsFormat(Spawned(f, x)) /\ \A v : IsFormat(AsPlaced(Spawned(f, x), v))
<1> DEFINE vs == IF RecordFd(x) # Nil THEN fds[RecordFd(x)].fmt.vars ELSE <<x>>
           name == Append(f.name, x.name)
           g == Spawned(f, x)
<1>1. g = [name |-> name, kind |-> f.kind, enc |-> f.enc, io |-> f.io, array |-> TRUE, vars |-> vs]
  BY DEF Spawned
<1> HIDE DEF vs, name, g
<1>2. ASSUME NEW n, NEW k \in Kinds, NEW e, NEW i, NEW a, NEW v,
             NEW h, h = [name |-> n, kind |-> k, enc |-> e, io |-> i, array |-> a, vars |-> v]
      PROVE  IsFormat(h)
  <2>1. h.name = n /\ h.kind = k /\ h.enc = e /\ h.io = i /\ h.array = a /\ h.vars = v
    BY <1>2
  <2>2. QED
    BY <1>2, <2>1 DEF IsFormat
<1>3. IsFormat(g)
  BY <1>1, <1>2
<1> DEFINE h == [g EXCEPT !.vars[1] = Placed(@)]
           ws == [vs EXCEPT ![1] = Placed(@)]
<1>4. h = [name |-> name, kind |-> f.kind, enc |-> f.enc, io |-> f.io, array |-> TRUE, vars |-> ws]
  <2>1. g.vars = vs
    BY <1>1
  <2>2. h = [g EXCEPT !.vars = [g.vars EXCEPT ![1] = Placed(g.vars[1])]]
    OBVIOUS
  <2>3. h = [g EXCEPT !.vars = ws]
    BY <2>1, <2>2
  <2> HIDE DEF h, ws
  <2>4. QED
    BY <1>1, <2>3
<1> HIDE DEF h, ws
<1>5. IsFormat(h)
  BY <1>2, <1>4
<1>6. \A v : AsPlaced(g, v) = g \/ AsPlaced(g, v) = h
  BY DEF AsPlaced, h
<1>7. \A v : IsFormat(AsPlaced(g, v))
  BY <1>3, <1>5, <1>6
<1>8. QED
  BY <1>3, <1>7 DEF g

\* A conduit has the FORMAT_DATAs that were spawned for it; what was spawned for
\* a conduit that was not made is lost.
LEMMA SpawnVarKept ==
  ASSUME SInv, NilIsNothing, SpawnVar
  PROVE  SInv'
<1> DEFINE vlist == VarsOf(IF OutFd = Nil THEN Fd ELSE OutFd)
           v == vlist[at.var]
           inVar == IF OutFd = Nil THEN v ELSE Named(fds[Fd].fmt, v)
           ins == IF inVar = Nil THEN <<>> ELSE <<Spawned(fds[Fd].fmt, inVar)>>
           outs == IF OutFd = Nil THEN <<>> ELSE <<Spawned(fds[OutFd].fmt, v)>>
           f1 == AsPlaced(ins[1], v)
           f2 == AsPlaced(outs[1], v)
           a == IF ins = <<>> THEN fds ELSE WithNew(fds, made + 1, f1)
           last == made + Len(ins) + Len(outs)
           p == IF ins = <<>> THEN Nil ELSE Pole(made + 1, Offset(inVar, ins[1], v, job.inFile))
           q == IF outs = <<>> THEN Nil ELSE Pole(last, Offset(v, outs[1], v, job.outFile))
           c == [in |-> p, out |-> q]
           half == v.array /\ inVar # Nil /\ ~Refused(inVar)
           Done == at.var > Len(vlist)
           Stop == ~v.array \/ (inVar # Nil /\ Refused(inVar)) \/ (OutFd # Nil /\ Refused(v))
<1>1. InMemory /\ Listed /\ Owned /\ Staged
  BY DEF SInv
<1>2. /\ stage = "connect" /\ at.fd <= Len(fdl)
      /\ UNCHANGED <<job, flist, fdl>>
  BY DEF SpawnVar, Due
<1>3. \/ Done /\ at' = Advance /\ UNCHANGED <<fds, usage, conduits, stage, made, lost>>
      \/ /\ Stop /\ stage' = "failing"
         /\ half => /\ fds' = WithNew(fds, made + 1, ins[1])
                    /\ usage' = OneUser(usage, {made + 1})
                    /\ lost' = lost \cup {made + 1}
                    /\ made' = made + 1
         /\ ~half => UNCHANGED <<fds, usage, lost, made>>
         /\ UNCHANGED <<conduits, at>>
      \/ /\ fds' = IF outs = <<>> THEN a ELSE WithNew(a, last, f2)
         /\ usage' = OneUser(usage, made + 1 .. last)
         /\ made' = last
         /\ conduits' = Append(conduits, c)
         /\ at' = [at EXCEPT !.var = @ + 1]
         /\ UNCHANGED <<stage, lost>>
  BY ZenonT(60) DEF SpawnVar
<1>4. /\ Fd \in DOMAIN fds
      /\ OutFd = Nil \/ OutFd \in DOMAIN fds
  BY <1>2, InHand
<1>5. made \in Nat /\ DOMAIN fds \subseteq 1 .. made
  BY <1>1 DEF InMemory
<1>6. made + 1 \notin DOMAIN fds /\ made + 2 \notin DOMAIN fds /\ made + 1 # made + 2
  BY <1>5
<1>7. \A d \in DOMAIN fds : fds[d].fmt.kind \in Kinds
  BY <1>1 DEF InMemory, IsFormat
<1>8. lost = {}
  BY <1>1, <1>2 DEF Staged
<1>9. ASSUME NEW g
      PROVE  <<g>> # <<>> /\ Len(<<g>>) = 1 /\ <<g>>[1] = g /\ Len(<<>>) = 0
  OBVIOUS
<1>10. \A d \in DOMAIN fds : \A x : /\ IsFormat(Spawned(fds[d].fmt, x))
                                     /\ IsFormat(AsPlaced(Spawned(fds[d].fmt, x), v))
  BY <1>7, SpawnedIs
<1>11. /\ inVar = Nil => ins = <<>> /\ Len(ins) = 0
       /\ inVar # Nil => ins # <<>> /\ Len(ins) = 1 /\ IsFormat(ins[1]) /\ IsFormat(f1)
  <2> HIDE DEF inVar, v
  <2>1. QED
    BY <1>4, <1>9, <1>10
<1>12. /\ OutFd = Nil => outs = <<>> /\ Len(outs) = 0
       /\ OutFd # Nil => outs # <<>> /\ Len(outs) = 1 /\ IsFormat(f2)
  <2> HIDE DEF v
  <2>1. QED
    BY <1>4, <1>9, <1>10
<1>13. \A d, o : Pole(d, o) # Nil /\ Pole(d, o).fd = d
  BY PoleIs DEF NilIsNothing
<1> HIDE DEF ins, outs, f1, f2, inVar, v, vlist, Stop, Done
<1>14. CASE Done /\ at' = Advance /\ UNCHANGED <<fds, usage, conduits, stage, made, lost>>
  <2>1. InMemory' /\ Listed' /\ Owned'
    BY <1>1, <1>2, <1>14 DEF InMemory, Listed, Owned
  <2>2. at' = [fd |-> at.fd + 1, var |-> 1]
    BY <1>14 DEF Advance
  <2>3. at'.fd = at.fd + 1 /\ at'.var = 1
    BY <2>2
  <2>4. at' = [fd |-> at'.fd, var |-> at'.var] /\ at'.fd \in Nat \ {0}
    BY <1>1, <2>2, <2>3 DEF Staged
  <2>5. Staged'
    BY <1>1, <1>2, <1>14, <2>4 DEF Staged
  <2>6. QED
    BY <2>1, <2>5 DEF SInv
<1>15. CASE /\ Stop /\ stage' = "failing"
            /\ half => /\ fds' = WithNew(fds, made + 1, ins[1])
                       /\ usage' = OneUser(usage, {made + 1})
                       /\ lost' = lost \cup {made + 1}
                       /\ made' = made + 1
            /\ ~half => UNCHANGED <<fds, usage, lost, made>>
            /\ UNCHANGED <<conduits, at>>
  <2>1. Staged' /\ Listed'
    BY <1>1, <1>2, <1>15 DEF Staged, Listed
  <2>2. CASE ~half
    <3>1. UNCHANGED <<fds, usage, lost, made, fdl, conduits>>
      BY <1>2, <1>15, <2>2
    <3>2. InMemory' /\ Owned'
      BY <1>1, <3>1 DEF InMemory, Owned
    <3>3. QED
      BY <2>1, <3>2 DEF SInv
  <2>3. CASE half
    <3> DEFINE N == made + 1 .. made + 1
    <3>1. N = {made + 1}
      BY <1>5
    <3>2. IsFormat(ins[1])
      BY <1>11, <2>3
    <3>3. /\ DOMAIN fds' = DOMAIN fds \cup N
          /\ \A d \in DOMAIN fds : fds'[d] = fds[d]
          /\ \A d \in N : fds'[d] = [fmt |-> ins[1], buf |-> d]
      BY <1>6, <1>15, <2>3, <3>1 DEF WithNew
    <3>4. \A d \in N : IsFormat(fds'[d].fmt) /\ fds'[d].buf = d
      BY <3>2, <3>3
    <3>5. made' = made + 1 /\ usage' = OneUser(usage, N) /\ lost' = lost \cup N
      BY <1>15, <2>3, <3>1
    <3>6. InMemory'
      BY <1>1, <3>3, <3>4, <3>5, MadeNew
    <3>7. Extends(fds', fds, N)
      BY <1>6, <3>1, <3>3 DEF Extends
    <3> HIDE DEF N
    <3>8. Owned'
      BY <1>1, <1>2, <1>15, <3>5, <3>7 DEF Owned, Extends
    <3>9. QED
      BY <2>1, <3>6, <3>8 DEF SInv
  <2>4. QED
    BY <2>2, <2>3
<1>16. CASE /\ fds' = IF outs = <<>> THEN a ELSE WithNew(a, last, f2)
            /\ usage' = OneUser(usage, made + 1 .. last)
            /\ made' = last
            /\ conduits' = Append(conduits, c)
            /\ at' = [at EXCEPT !.var = @ + 1]
            /\ UNCHANGED <<stage, lost>>
  <2> DEFINE N == made + 1 .. last
             n == Len(ins) + Len(outs)
  <2>1. /\ n \in Nat /\ last = made + n
        /\ DOMAIN fds' = DOMAIN fds \cup N
        /\ \A d \in DOMAIN fds : fds'[d] = fds[d]
        /\ \A d \in N : IsFormat(fds'[d].fmt) /\ fds'[d].buf = d
        /\ Ends(c) = N /\ c.in = p /\ c.out = q
        /\ p # Nil /\ q # Nil => p.fd # q.fd
    <3>1. CASE ins = <<>> /\ outs = <<>>
      <4>1. n = 0 /\ last = made /\ N = {} /\ fds' = fds /\ p = Nil /\ q = Nil
        <5>1. Len(ins) = 0 /\ Len(outs) = 0
          BY <1>11, <1>12, <3>1
        <5>2. QED
          BY <1>5, <1>16, <3>1, <5>1
      <4> HIDE DEF n, last, N, p, q
      <4>2. QED
        BY <1>5, <4>1, EndsAre
    <3>2. CASE ins # <<>> /\ outs = <<>>
      <4>1. IsFormat(f1) /\ Len(ins) = 1 /\ Len(outs) = 0
        BY <1>11, <1>12, <3>2
      <4>2. n = 1 /\ last = made + 1 /\ N = {made + 1}
        BY <1>5, <4>1
      <4>3. p # Nil /\ p.fd = made + 1 /\ q = Nil
        BY <1>13, <3>2
      <4>4. fds' = WithNew(fds, made + 1, f1)
        BY <1>16, <3>2
      <4> HIDE DEF n, last, N, p, q
      <4>5. /\ DOMAIN fds' = DOMAIN fds \cup N
            /\ \A d \in DOMAIN fds : fds'[d] = fds[d]
            /\ fds'[made + 1] = [fmt |-> f1, buf |-> made + 1]
        BY <1>6, <4>2, <4>4 DEF WithNew
      <4>6. \A d \in N : IsFormat(fds'[d].fmt) /\ fds'[d].buf = d
        BY <4>1, <4>2, <4>5
      <4>7. Ends(c) = N /\ c.in = p /\ c.out = q
        BY <4>2, <4>3, EndsAre
      <4>8. QED
        BY <4>2, <4>3, <4>5, <4>6, <4>7
    <3>3. CASE ins = <<>> /\ outs # <<>>
      <4>1. IsFormat(f2) /\ Len(ins) = 0 /\ Len(outs) = 1
        BY <1>11, <1>12, <3>3
      <4>2. n = 1 /\ last = made + 1 /\ N = {made + 1}
        BY <1>5, <4>1
      <4>3. p = Nil /\ q # Nil /\ q.fd = made + 1
        BY <1>13, <3>3, <4>2
      <4>4. fds' = WithNew(fds, made + 1, f2)
        BY <1>16, <3>3, <4>2
      <4> HIDE DEF n, last, N, p, q
      <4>5. /\ DOMAIN fds' = DOMAIN fds \cup N
            /\ \A d \in DOMAIN fds : fds'[d] = fds[d]
            /\ fds'[made + 1] = [fmt |-> f2, buf |-> made + 1]
        BY <1>6, <4>2, <4>4 DEF WithNew
      <4>6. \A d \in N : IsFormat(fds'[d].fmt) /\ fds'[d].buf = d
        BY <4>1, <4>2, <4>5
      <4>7. Ends(c) = N /\ c.in = p /\ c.out = q
        BY <4>2, <4>3, EndsAre
      <4>8. QED
        BY <4>2, <4>3, <4>5, <4>6, <4>7
    <3>4. CASE ins # <<>> /\ outs # <<>>
      <4>1. IsFormat(f1) /\ IsFormat(f2) /\ Len(ins) = 1 /\ Len(outs) = 1
        BY <1>11, <1>12, <3>4
      <4>2. n = 2 /\ last = made + 2 /\ N = {made + 1, made + 2}
        BY <1>5, <4>1
      <4>3. p # Nil /\ q # Nil /\ p.fd = made + 1 /\ q.fd = made + 2
        BY <1>13, <3>4, <4>2
      <4>4. a = WithNew(fds, made + 1, f1) /\ fds' = WithNew(a, made + 2, f2)
        BY <1>16, <3>4, <4>2
      <4> HIDE DEF n, last, N, p, q, a
      <4>5. /\ DOMAIN a = DOMAIN fds \cup {made + 1}
            /\ \A d \in DOMAIN fds : a[d] = fds[d]
            /\ a[made + 1] = [fmt |-> f1, buf |-> made + 1]
        BY <1>6, <4>4 DEF WithNew
      <4>6. /\ DOMAIN fds' = DOMAIN fds \cup N
            /\ \A d \in DOMAIN fds : fds'[d] = fds[d]
            /\ fds'[made + 1] = [fmt |-> f1, buf |-> made + 1]
            /\ fds'[made + 2] = [fmt |-> f2, buf |-> made + 2]
        BY <1>6, <4>2, <4>4, <4>5 DEF WithNew
      <4>7. \A d \in N : IsFormat(fds'[d].fmt) /\ fds'[d].buf = d
        BY <4>1, <4>2, <4>6
      <4>8. Ends(c) = N /\ c.in = p /\ c.out = q
        BY <4>2, <4>3, EndsAre
      <4>9. p.fd # q.fd
        BY <1>6, <4>3
      <4>10. QED
        BY <4>2, <4>6, <4>7, <4>8, <4>9
    <3>5. QED
      BY <3>1, <3>2, <3>3, <3>4
  <2>2. Extends(fds', fds, N)
    <3>1. N \cap DOMAIN fds = {}
      BY <1>5, <2>1
    <3>2. QED
      BY <2>1, <3>1 DEF Extends
  <2>3. c = [in |-> c.in, out |-> c.out] /\ (c.in # Nil /\ c.out # Nil => c.in.fd # c.out.fd)
    BY <2>1
  <2>4. made' = made + n /\ N = made + 1 .. made + n /\ usage' = OneUser(usage, N)
    BY <1>16, <2>1
  <2> HIDE DEF N, c, p, q, n, a, last
  <2>5. InMemory'
    BY <1>1, <2>1, <2>4, MadeNew
  <2>6. /\ Owned'
        /\ conduits' \in Seq(Range(conduits'))
        /\ \A i \in DOMAIN conduits' : conduits'[i] = [in |-> conduits'[i].in, out |-> conduits'[i].out]
    BY <1>1, <1>2, <1>16, <2>1, <2>2, <2>3, ConnectedNew
  <2>7. Listed'
    BY <1>1, <1>2, <2>6 DEF Listed
  <2>8. at' = [fd |-> at'.fd, var |-> at'.var] /\ at'.fd \in Nat \ {0}
    <3>1. at' = [fd |-> at.fd, var |-> at.var + 1]
      BY <1>1, <1>16 DEF Staged
    <3>2. at'.fd = at.fd /\ at'.var = at.var + 1
      BY <3>1
    <3>3. QED
      BY <1>1, <3>1, <3>2 DEF Staged
  <2>9. Staged'
    BY <1>1, <1>2, <1>16, <2>8 DEF Staged
  <2>10. QED
    BY <2>5, <2>6, <2>7, <2>9 DEF SInv
<1>17. QED
  BY <1>3, <1>14, <1>15, <1>16

-----------------------------------------------------------------------------
(* The steps that destroy *)

LEMMA FreeListKept ==
  ASSUME SInv, FreeList
  PROVE  SInv'
<1>1. InMemory /\ Listed /\ Owned /\ Staged
  BY DEF SInv
<1>2. /\ stage = "free" /\ Destroyed(Range(fdl)) /\ fdl' = <<>> /\ stage' = After(stage)
      /\ UNCHANGED <<job, flist, conduits, at, made, lost>>
  BY DEF FreeList
<1>3. InMemory' /\ DOMAIN fds' = DOMAIN fds \ Range(fdl)
  BY <1>1, <1>2, MadeLess
<1>4. Range(<<>>) = {} /\ <<>> \in Seq({})
  BY Nothing
<1>5. Range(fdl') = {} /\ fdl' \in Seq(Range(fdl')) /\ lost = {}
  BY <1>1, <1>2, <1>4 DEF Staged
<1>6. Owned'
  BY <1>1, <1>2, <1>3, <1>5 DEF Owned
<1>7. Listed'
  BY <1>1, <1>2, <1>5 DEF Listed
<1>8. Staged'
  <2>1. stage' = "merge"
    BY <1>2, AfterIs
  <2>2. QED
    BY <1>1, <1>2, <2>1 DEF Staged
<1>9. QED
  BY <1>3, <1>6, <1>7, <1>8 DEF SInv

\* When both lists are gone, nothing is owned.
LEMMA NothingOwned ==
  ASSUME fdl' = <<>>, conduits' = <<>>, DOMAIN fds' = lost', AreFormats(flist)'
  PROVE  Owned' /\ Listed'
<1>1. Range(<<>>) = {} /\ FdsOf(<<>>) = {} /\ <<>> \in Seq({}) /\ DOMAIN <<>> = {}
  BY Nothing
<1>2. Range(fdl') = {} /\ FdsOf(conduits') = {} /\ DOMAIN conduits' = {} /\ Range(conduits') = {}
  BY <1>1
<1>3. Owned'
  BY <1>2 DEF Owned
<1>4. Listed'
  BY <1>1, <1>2 DEF Listed
<1>5. QED
  BY <1>3, <1>4

LEMMA FreeAllKept ==
  ASSUME SInv, FreeAll
  PROVE  SInv'
<1> DEFINE gone == Range(fdl) \cup FdsOf(conduits)
<1>1. InMemory /\ Listed /\ Owned /\ Staged
  BY DEF SInv
<1>2. /\ stage = "failing" /\ Destroyed(gone) /\ fdl' = <<>> /\ conduits' = <<>> /\ stage' = "failed"
      /\ UNCHANGED <<job, flist, at, made, lost>>
  BY DEF FreeAll
<1> HIDE DEF gone
<1>3. InMemory' /\ DOMAIN fds' = DOMAIN fds \ gone
  BY <1>1, <1>2, MadeLess
<1>4. DOMAIN fds' = lost'
  BY <1>1, <1>2, <1>3 DEF Owned, gone
<1>5. Owned' /\ Listed'
  BY <1>1, <1>2, <1>4, NothingOwned DEF Listed
<1>6. Staged'
  BY <1>1, <1>2 DEF Staged
<1>7. QED
  BY <1>3, <1>5, <1>6 DEF SInv

LEMMA DestroyKept ==
  ASSUME SInv, Destroy
  PROVE  SInv'
<1>1. InMemory /\ Listed /\ Owned /\ Staged
  BY DEF SInv
<1>2. /\ stage = "ready" /\ Destroyed(FdsOf(conduits)) /\ conduits' = <<>> /\ stage' = "gone"
      /\ UNCHANGED <<job, flist, fdl, at, made, lost>>
  BY DEF Destroy
<1>3. InMemory' /\ DOMAIN fds' = DOMAIN fds \ FdsOf(conduits)
  BY <1>1, <1>2, MadeLess
<1>4. fdl = <<>> /\ fdl' = <<>> /\ Range(fdl) = {}
  BY <1>1, <1>2, Nothing DEF Staged
<1>5. DOMAIN fds' = lost'
  BY <1>1, <1>2, <1>3, <1>4 DEF Owned
<1>6. Owned' /\ Listed'
  BY <1>1, <1>2, <1>4, <1>5, NothingOwned DEF Listed
<1>7. Staged'
  BY <1>1, <1>2, <1>4 DEF Staged
<1>8. QED
  BY <1>3, <1>6, <1>7 DEF SInv

\* What a merged conduit had goes, and what is left has what it had.
LEMMA MergeKept ==
  ASSUME SInv, Merge
  PROVE  SInv'
<1> DEFINE kept == {i \in DOMAIN conduits : \A j \in i + 1 .. Len(conduits) : ~Alike(conduits[i], conduits[j])}
           left == Those(conduits, kept)
           gone == FdsOf(conduits) \ FdsOf(left)
<1>1. InMemory /\ Listed /\ Owned /\ Staged
  BY DEF SInv
<1>2. /\ stage = "merge" /\ conduits' = left /\ Destroyed(gone) /\ stage' = After(stage)
      /\ UNCHANGED <<job, flist, fdl, at, made, lost>>
  BY DEF Merge
<1>3. kept \in SUBSET DOMAIN conduits
  OBVIOUS
<1> HIDE DEF kept
<1>4. /\ left \in Seq(Range(conduits))
      /\ \A k \in DOMAIN left : Nth(kept, k) \in kept /\ left[k] = conduits[Nth(kept, k)]
      /\ \A k, m \in DOMAIN left : Nth(kept, k) = Nth(kept, m) => k = m
  BY <1>1, <1>3, ThoseAre DEF Listed
<1> HIDE DEF left, gone
<1>5. InMemory' /\ DOMAIN fds' = DOMAIN fds \ gone
  BY <1>1, <1>2, MadeLess
<1>6. FdsOf(left) \subseteq FdsOf(conduits)
  <2>1. ASSUME NEW d \in FdsOf(left)
        PROVE  d \in FdsOf(conduits)
    <3>1. PICK k \in DOMAIN left : d \in Ends(left[k])
      BY <2>1, FdsOfAre
    <3>2. Nth(kept, k) \in DOMAIN conduits /\ d \in Ends(conduits[Nth(kept, k)])
      BY <1>3, <1>4, <3>1
    <3>3. QED
      BY <3>2, FdsOfAre
  <2>2. QED
    BY <2>1
<1>7. \A k, m \in DOMAIN left : k # m => Ends(left[k]) \cap Ends(left[m]) = {}
  BY <1>1, <1>3, <1>4 DEF Owned
<1>8. \A k \in DOMAIN left : /\ left[k].in # Nil /\ left[k].out # Nil => left[k].in.fd # left[k].out.fd
                             /\ left[k] = [in |-> left[k].in, out |-> left[k].out]
  BY <1>1, <1>3, <1>4 DEF Owned, Listed
<1>9. Owned'
  <2>1. /\ DOMAIN fds' = Range(fdl) \cup FdsOf(left) \cup lost
        /\ lost \cap (Range(fdl) \cup FdsOf(left)) = {}
        /\ Range(fdl) \cap FdsOf(left) = {}
    BY <1>1, <1>5, <1>6 DEF Owned, gone
  <2>2. QED
    BY <1>2, <1>7, <1>8, <2>1 DEF Owned
<1>10. Listed'
  <2>1. left \in Seq(Range(left))
    BY <1>4, OwnRange
  <2>2. QED
    BY <1>1, <1>2, <1>8, <2>1 DEF Listed
<1>11. Staged'
  <2>1. stage' = "ready"
    BY <1>2, AfterIs
  <2>2. QED
    BY <1>1, <1>2, <2>1 DEF Staged
<1>12. QED
  BY <1>5, <1>9, <1>10, <1>11 DEF SInv

\* The header goes from its conduit, and no other conduit had it.
LEMMA DropHeaderKept ==
  ASSUME SInv, DropHeader
  PROVE  SInv'
<1>1. InMemory /\ Listed /\ Owned /\ Staged
  BY DEF SInv
<1>2. stage = "ready" /\ UNCHANGED <<job, flist, fdl, stage, at, made, lost>>
  BY DEF DropHeader
<1>3. PICK i \in DOMAIN conduits :
         /\ conduits[i].out # Nil
         /\ Destroyed({conduits[i].out.fd})
         /\ conduits' = [conduits EXCEPT ![i].out = Nil]
  BY DEF DropHeader
<1> DEFINE d0 == conduits[i].out.fd
           b == [conduits[i] EXCEPT !.out = Nil]
<1>4. InMemory' /\ DOMAIN fds' = DOMAIN fds \ {d0}
  BY <1>1, <1>2, <1>3, MadeLess
<1>5. b = [in |-> conduits[i].in, out |-> Nil] /\ b.in = conduits[i].in /\ b.out = Nil
  <2>1. conduits[i] = [in |-> conduits[i].in, out |-> conduits[i].out]
    BY <1>1 DEF Listed
  <2>2. b = [in |-> conduits[i].in, out |-> Nil]
    BY <2>1
  <2> HIDE DEF b
  <2>3. QED
    BY <2>2
<1>6. /\ DOMAIN conduits' = DOMAIN conduits /\ conduits'[i] = b
      /\ \A j \in DOMAIN conduits \ {i} : conduits'[j] = conduits[j]
  <2>1. conduits' = [conduits EXCEPT ![i] = b]
    BY <1>3
  <2> HIDE DEF b
  <2>2. QED
    BY <2>1
<1>7. d0 \in Ends(conduits[i]) /\ Ends(b) = Ends(conduits[i]) \ {d0}
  BY <1>1, <1>3, <1>5 DEF Ends, Owned
<1>8. conduits' \in Seq(Range(conduits'))
  <2> DEFINE n == Len(conduits)
  <2>1. n \in Nat /\ DOMAIN conduits = 1 .. n /\ conduits = [j \in 1 .. n |-> conduits[j]]
    BY <1>1 DEF Listed
  <2>2. conduits' = [j \in 1 .. n |-> conduits'[j]]
    BY <1>3, <2>1
  <2>3. \A j \in 1 .. n : conduits'[j] \in Range(conduits')
    BY <1>6, <2>1 DEF Range
  <2> HIDE DEF n
  <2>4. conduits' \in [1 .. n -> Range(conduits')]
    BY <2>2, <2>3
  <2>5. QED
    BY <2>1, <2>4
<1> HIDE DEF b, d0
<1>9. \A j \in DOMAIN conduits : Ends(conduits'[j]) = Ends(conduits[j]) \ {d0}
  <2>1. \A j \in DOMAIN conduits \ {i} : d0 \notin Ends(conduits[j])
    BY <1>1, <1>7 DEF Owned
  <2>2. QED
    BY <1>6, <1>7, <2>1
<1>10. FdsOf(conduits') = FdsOf(conduits) \ {d0} /\ d0 \in FdsOf(conduits)
  <2>1. \A d : (\E j \in DOMAIN conduits' : d \in Ends(conduits'[j])) <=>
               (\E j \in DOMAIN conduits : d \in Ends(conduits[j])) /\ d # d0
    BY <1>6, <1>9
  <2>2. \A d : d \in FdsOf(conduits') <=> d \in FdsOf(conduits) /\ d # d0
    BY <2>1, FdsOfAre
  <2>3. d0 \in FdsOf(conduits)
    BY <1>7, FdsOfAre
  <2>4. QED
    BY <2>2, <2>3
<1>11. /\ DOMAIN fds' = Range(fdl') \cup FdsOf(conduits') \cup lost'
       /\ lost' \cap (Range(fdl') \cup FdsOf(conduits')) = {}
       /\ Range(fdl') \cap FdsOf(conduits') = {}
  BY <1>1, <1>2, <1>4, <1>10 DEF Owned
<1>12. \A j \in DOMAIN conduits' :
          /\ conduits'[j].in # Nil /\ conduits'[j].out # Nil => conduits'[j].in.fd # conduits'[j].out.fd
          /\ conduits'[j] = [in |-> conduits'[j].in, out |-> conduits'[j].out]
  BY <1>1, <1>5, <1>6 DEF Owned, Listed
<1>13. \A j, k \in DOMAIN conduits' : j # k => Ends(conduits'[j]) \cap Ends(conduits'[k]) = {}
  BY <1>1, <1>6, <1>9 DEF Owned
<1>14. Owned' /\ Listed'
  BY <1>1, <1>2, <1>8, <1>11, <1>12, <1>13 DEF Owned, Listed
<1>15. Staged'
  BY <1>1, <1>2 DEF Staged
<1>16. QED
  BY <1>4, <1>14, <1>15 DEF SInv

-----------------------------------------------------------------------------
(* The theorem about memory *)

\* The steps that make and destroy nothing
LEMMA RestKept ==
  ASSUME SInv, PassedBy \/ Mismatch \/ AllConnected \/ UNCHANGED vars
  PROVE  SInv'
<1>1. InMemory /\ Listed /\ Owned /\ Staged
  BY DEF SInv
<1>2. UNCHANGED <<job, flist, fdl, fds, usage, conduits, made, lost>>
  BY DEF PassedBy, Mismatch, AllConnected, vars
<1>3. InMemory' /\ Listed' /\ Owned'
  BY <1>1, <1>2 DEF InMemory, Listed, Owned
<1>4. Staged'
  <2>1. CASE PassedBy
    <3>1. at' = [fd |-> at.fd + 1, var |-> 1] /\ stage' = stage
      BY <2>1 DEF PassedBy, Advance
    <3>2. at'.fd = at.fd + 1 /\ at'.var = 1
      BY <3>1
    <3>3. at' = [fd |-> at'.fd, var |-> at'.var] /\ at'.fd \in Nat \ {0}
      BY <1>1, <3>1, <3>2 DEF Staged
    <3>4. QED
      BY <1>1, <1>2, <3>1, <3>3 DEF Staged
  <2>2. CASE Mismatch
    <3>1. stage = "connect" /\ stage' = "failing" /\ at' = at
      BY <2>2 DEF Mismatch, Due
    <3>2. QED
      BY <1>1, <1>2, <3>1 DEF Staged
  <2>3. CASE AllConnected
    <3>1. stage = "connect" /\ stage' = "free" /\ at' = at
      BY <2>3, AfterIs DEF AllConnected
    <3>2. QED
      BY <1>1, <1>2, <3>1 DEF Staged, Filling
  <2>4. CASE UNCHANGED vars
    BY <1>1, <2>4 DEF Staged, vars
  <2>5. QED
    BY <2>1, <2>2, <2>3, <2>4
<1>5. QED
  BY <1>3, <1>4 DEF SInv

\* Every step keeps the invariant.
LEMMA NextKept ==
  ASSUME SInv, NilIsNothing, [Next]_vars
  PROVE  SInv'
<1>1. CASE TakeFormats
  BY <1>1, TakeFormatKept DEF TakeFormats
<1>2. CASE TakeRecords
  BY <1>2, TakeRecordsKept
<1>3. CASE PassedBy \/ Mismatch \/ AllConnected \/ UNCHANGED vars
  BY <1>3, RestKept
<1>4. CASE MakeTabular
  BY <1>4, MakeTabularKept
<1>5. CASE SpawnVar
  BY <1>5, SpawnVarKept
<1>6. CASE FreeList
  BY <1>6, FreeListKept
<1>7. CASE FreeAll
  BY <1>7, FreeAllKept
<1>8. CASE Merge
  BY <1>8, MergeKept
<1>9. CASE DropHeader
  BY <1>9, DropHeaderKept
<1>10. CASE Destroy
  BY <1>10, DestroyKept
<1>11. QED
  BY <1>1, <1>2, <1>3, <1>4, <1>5, <1>6, <1>7, <1>8, <1>9, <1>10 DEF Next

\* Whatever format files a data bin is set up from, and however the set-up ends,
\* every buffer has the users that are counted, every FORMAT_DATA has one owner,
\* and after db_destroy, or after an error, nothing is in memory but what the
\* error path of spawn_array_conduits forgot.
THEOREM MemoryIsKept ==
  ASSUME NilIsNothing
  PROVE  Spec => []MemoryKept
<1>1. Init => SInv
  BY InitKept
<1>2. SInv /\ [Next]_vars => SInv'
  BY NextKept
<1>3. SInv => MemoryKept
  BY Kept
<1>4. QED
  BY <1>1, <1>2, <1>3, PTL DEF Spec

-----------------------------------------------------------------------------
(* The invariant about conduits *)

\* A format is one of the files', but for what it is for; without titles that is
\* what its encoding says, if the file does not
ForIts(g, f) ==
    job.inTitle = Nil /\ job.outTitle = Nil => g.io = f.io \/ (f.io = "none" /\ g.enc = Encoding(g.io))
Known(g) ==
    /\ IsFormat(g)
    /\ \E f \in Formats(job) :
          /\ g.name = f.name /\ g.kind = f.kind /\ g.enc = f.enc /\ g.array = f.array /\ g.vars = f.vars
          /\ ForIts(g, f)
Sourced ==
    /\ \A i \in DOMAIN flist : Known(flist[i])
    /\ \A d \in Range(fdl) : Known(fds[d].fmt)

\* The list is in the order of the stages, records aside
Slot(f) == IF f.io = "in" THEN Rank[f.kind] ELSE 4 + Rank[f.kind]
Turn(s) == CASE s = "in file" -> 1 [] s = "in rec" -> 2 [] s = "in data" -> 3 [] s = "in records" -> 4
             [] s = "out file" -> 5 [] s = "out rec" -> 6 [] s = "out data" -> 7 [] OTHER -> 8
Typed(i) == fds[fdl[i]].fmt.kind # "record"
InTurn ==
    /\ \A i \in DOMAIN fdl : Typed(i) => fds[fdl[i]].fmt.io \in {"in", "out"} /\ Slot(fds[fdl[i]].fmt) < Turn(stage)
    /\ \A i, k \in DOMAIN fdl : Typed(i) /\ Typed(k) /\ i < k => Slot(fds[fdl[i]].fmt) < Slot(fds[fdl[k]].fmt)

\* The FORMAT_DATA at a place of the sorted list, and its other side
FdAt(p) == Sorted(fdl)[p]
FmtAt(p) == fds[FdAt(p)].fmt
InAt(p) == IF FmtAt(p).io = "in" THEN FdAt(p) ELSE Nil
OutAt(p) == IF FmtAt(p).io = "in" THEN OutputOf(FmtAt(p)) ELSE FdAt(p)
ListAt(p) == VarsOf(IF OutAt(p) = Nil THEN FdAt(p) ELSE OutAt(p))
InVarAt(p, j) == IF OutAt(p) = Nil THEN ListAt(p)[j] ELSE Named(FmtAt(p), ListAt(p)[j])

\* What a place makes: a conduit, or one for each variable, unless it is a record, or
\* an output with an input of its kind
HasInput(p) == \E q \in 1 .. Len(fdl) : FmtAt(q).kind = FmtAt(p).kind /\ FmtAt(q).io = "in"
Skipped(p) == FmtAt(p).kind = "record" \/ (FmtAt(p).io = "out" /\ HasInput(p))
Size(p) == IF Skipped(p) THEN 0 ELSE IF FmtAt(p).array THEN Len(ListAt(p)) ELSE 1
Makes(p, j) == p \in 1 .. Len(fdl) /\ j \in 1 .. Size(p)
Before(p, j) == p < at.fd \/ (p = at.fd /\ j < at.var)

\* The conduit that a place makes, of a table or of its j-th variable
TablePole(p, fmt) == fds[p.fd].fmt = fmt
ArrayPole(p, f, x, v, file) ==
    fds[p.fd].fmt = AsPlaced(Spawned(f, x), v) /\ p.offset = Offset(x, Spawned(f, x), v, file)
MadeFor(c, p, j) ==
    IF ~FmtAt(p).array
    THEN /\ c.in = Nil <=> InAt(p) = Nil
         /\ c.out = Nil <=> OutAt(p) = Nil
         /\ c.in # Nil => TablePole(c.in, FmtAt(p))
         /\ c.out # Nil => TablePole(c.out, fds[OutAt(p)].fmt)
    ELSE /\ c.in = Nil <=> InVarAt(p, j) = Nil
         /\ c.out = Nil <=> OutAt(p) = Nil
         /\ c.in # Nil => ArrayPole(c.in, FmtAt(p), InVarAt(p, j), ListAt(p)[j], job.inFile)
         /\ c.out # Nil => ArrayPole(c.out, fds[OutAt(p)].fmt, ListAt(p)[j], ListAt(p)[j], job.outFile)

\* What each conduit was made for: every place before `at' has made its conduits, once
Traced(from) ==
    /\ DOMAIN from = DOMAIN conduits
    /\ \A i \in DOMAIN conduits :
          LET p == from[i][1]
              j == from[i][2]
          IN  Makes(p, j) /\ Before(p, j) /\ MadeFor(conduits[i], p, j)
    /\ \A i, k \in DOMAIN conduits : from[i][1] = from[k][1] /\ from[i][2] = from[k][2] => i = k
    /\ \A p \in 1 .. Len(fdl) : \A j \in 1 .. Size(p) :
          Before(p, j) => \E i \in DOMAIN conduits : from[i][1] = p /\ from[i][2] = j
Mates(p) ==
    FmtAt(p).kind # "record" /\ InAt(p) # Nil /\ OutAt(p) # Nil => FmtAt(p).array = fds[OutAt(p)].fmt.array
Halfway == at.fd <= Len(fdl) /\ ~Skipped(at.fd) /\ FmtAt(at.fd).array
Connecting ==
    /\ at.var \in Nat \ {0}
    /\ at.var > 1 => Halfway
    /\ \A p \in 1 .. Len(fdl) : p < at.fd => Mates(p)
    /\ \E from : Traced(from)

\* A pole is of a format of the files
Told(g) == \E f \in Formats(job) : g.name[1] = f.name[1] /\ g.enc = f.enc /\ ForIts(g, f)
PolesTold ==
    \A i \in DOMAIN conduits :
        /\ conduits[i].in # Nil => Told(fds[conduits[i].in.fd].fmt)
        /\ conduits[i].out # Nil => Told(fds[conduits[i].out.fd].fmt) /\ fds[conduits[i].out.fd].fmt.io = "out"

Begun == at = [fd |-> 1, var |-> 1] /\ conduits = <<>>
CInv ==
    /\ SInv
    /\ stage \in Filling => Sourced /\ InTurn
    /\ stage \notin Filling => PolesTold
    /\ stage \in Filling \ {"connect", "free"} => Begun
    /\ stage \in {"connect", "free"} => Connecting
    /\ stage = "free" => at.fd > Len(fdl)

-----------------------------------------------------------------------------
(* Sorting keeps the order of what is alike *)

\* The places of a list are counted in their order.
LEMMA NthRises ==
  ASSUME NEW n \in Nat, NEW S \in SUBSET (1 .. n), NEW k \in 1 .. Cardinality(S), NEW m \in 1 .. Cardinality(S), k < m
  PROVE  Nth(S, k) < Nth(S, m)
<1> DEFINE UpTo(i) == {j \in S : j <= i}
           a == Nth(S, k)
           b == Nth(S, m)
<1>1. IsFiniteSet(S) /\ Cardinality(S) \in Nat /\ a \in S /\ b \in S
  BY NthIs
<1>2. \A i \in 1 .. Cardinality(S) : Cardinality(UpTo(Nth(S, i))) = i
  BY NthIs
<1>3. Cardinality(UpTo(a)) = k /\ Cardinality(UpTo(b)) = m
  BY <1>2
<1> HIDE DEF a, b, UpTo
<1>4. a \in Int /\ b \in Int /\ \A j \in S : j \in Int
  <2>1. \A j \in S : j \in Int
    OBVIOUS
  <2>2. QED
    BY <1>1, <2>1
<1>5. SUFFICES ASSUME b <= a
               PROVE  FALSE
  BY <1>4 DEF a, b
<1>6. UpTo(b) \in SUBSET UpTo(a) /\ UpTo(a) \in SUBSET S
  <2> USE DEF UpTo
  <2>1. \A j \in S : j <= b => j <= a
    BY <1>4, <1>5
  <2>2. QED
    BY <2>1
<1>7. IsFiniteSet(UpTo(a))
  BY <1>1, <1>6, FS_Subset
<1>8. Cardinality(UpTo(b)) <= Cardinality(UpTo(a))
  BY <1>6, <1>7, FS_Subset
<1>9. QED
  BY <1>3, <1>8

\* A list that has what l has at the places S, in the order Goes of the places
Goes(l, a, b) ==
    LET r(i) == Rank[fds[l[i]].fmt.kind] IN r(a) < r(b) \/ (r(a) = r(b) /\ a < b)
Arranged(t, l, S, pi) ==
    /\ pi \in Seq(S) /\ t \in Seq(Range(l)) /\ Len(t) = Len(pi)
    /\ \A i \in 1 .. Len(t) : t[i] = l[pi[i]]
    /\ \A a \in S : \E i \in 1 .. Len(t) : pi[i] = a
    /\ \A i, k \in 1 .. Len(t) : i < k => Goes(l, pi[i], pi[k])

\* The places of one rank
LEMMA PartArranged ==
  ASSUME NEW l, l \in Seq(Range(l)), NEW r
  PROVE  LET S == {i \in DOMAIN l : Rank[fds[l[i]].fmt.kind] = r}
         IN  \E pi : Arranged(Those(l, S), l, S, pi)
<1> DEFINE S == {i \in DOMAIN l : Rank[fds[l[i]].fmt.kind] = r}
           n == Len(l)
           C == Cardinality(S)
           t == Those(l, S)
           pi == [k \in 1 .. C |-> Nth(S, k)]
<1>1. S \in SUBSET DOMAIN l /\ \A i \in S : Rank[fds[l[i]].fmt.kind] = r
  OBVIOUS
<1> HIDE DEF S
<1>2. /\ IsFiniteSet(S) /\ C \in Nat /\ t \in Seq(Range(l)) /\ Len(t) = C
      /\ \A k \in DOMAIN t : Nth(S, k) \in S /\ t[k] = l[Nth(S, k)]
  BY <1>1, ThoseAre
<1>3. n \in Nat /\ S \in SUBSET (1 .. n)
  BY <1>1
<1>4. \A k, m \in 1 .. C : k < m => Nth(S, k) < Nth(S, m)
  <2> HIDE DEF n
  <2>1. QED
    BY <1>3, NthRises
<1>5. \A a \in S : \E k \in 1 .. C : Nth(S, k) = a
  <2> HIDE DEF n
  <2>1. QED
    BY <1>3, NthIs
<1> HIDE DEF t, C
<1>6. DOMAIN t = 1 .. C
  BY <1>2
<1>7. pi \in Seq(S) /\ Len(pi) = C /\ \A k \in 1 .. C : pi[k] = Nth(S, k)
  <2>1. pi \in [1 .. C -> S]
    BY <1>2, <1>6
  <2>2. QED
    BY <1>2, <2>1
<1> HIDE DEF pi
<1>8. \A i, k \in 1 .. C : i < k => Goes(l, pi[i], pi[k])
  <2> TAKE i, k \in 1 .. C
  <2> HAVE i < k
  <2>1. pi[i] < pi[k]
    BY <1>4, <1>7
  <2>2. pi[i] \in S /\ pi[k] \in S
    BY <1>2, <1>6, <1>7
  <2>3. QED
    BY <1>1, <2>1, <2>2 DEF Goes
<1>9. Arranged(t, l, S, pi)
  BY <1>2, <1>5, <1>6, <1>7, <1>8 DEF Arranged
<1>10. QED
  BY <1>9 DEF t, S

\* Two such lists, if every place of the first goes before every place of the second
LEMMA JoinArranged ==
  ASSUME NEW l, NEW S, NEW T, NEW s, NEW t, NEW pi, NEW rho,
         Arranged(s, l, S, pi), Arranged(t, l, T, rho),
         \A a \in S, b \in T : Goes(l, a, b)
  PROVE  Arranged(s \o t, l, S \cup T, pi \o rho)
<1> DEFINE m == Len(s)
           n == Len(t)
           u == s \o t
           tau == pi \o rho
<1>1. /\ s \in Seq(Range(l)) /\ t \in Seq(Range(l)) /\ pi \in Seq(S) /\ rho \in Seq(T)
      /\ m \in Nat /\ n \in Nat /\ Len(pi) = m /\ Len(rho) = n
  BY DEF Arranged
<1>2. pi \in Seq(S \cup T) /\ rho \in Seq(S \cup T)
  <2>1. pi \in [1 .. Len(pi) -> S] /\ rho \in [1 .. Len(rho) -> T] /\ Len(pi) \in Nat /\ Len(rho) \in Nat
    BY <1>1
  <2> DEFINE U == S \cup T
  <2>2. pi \in [1 .. Len(pi) -> U] /\ rho \in [1 .. Len(rho) -> U]
    BY <2>1
  <2> HIDE DEF U
  <2>3. pi \in Seq(U) /\ rho \in Seq(U)
    BY <2>1, <2>2
  <2>4. QED
    BY <2>3 DEF U
<1>3. /\ u \in Seq(Range(l)) /\ Len(u) = m + n
      /\ \A i \in 1 .. m + n : u[i] = IF i <= m THEN s[i] ELSE t[i - m]
  BY <1>1
<1>4. /\ tau \in Seq(S \cup T) /\ Len(tau) = m + n
      /\ \A i \in 1 .. m + n : tau[i] = IF i <= m THEN pi[i] ELSE rho[i - m]
  <2> DEFINE U == S \cup T
  <2>1. pi \in Seq(U) /\ rho \in Seq(U)
    BY <1>2
  <2> HIDE DEF U
  <2>2. QED
    BY <1>1, <2>1 DEF U
<1>5. \A i \in 1 .. m : pi[i] \in S
  BY <1>1
<1>6. \A i \in 1 .. n : rho[i] \in T
  BY <1>1
<1> HIDE DEF u, tau, m, n
<1>7. \A i \in 1 .. m + n : (i \in 1 .. m /\ i <= m) \/ (i - m \in 1 .. n /\ ~(i <= m))
  BY <1>1
<1>8. \A i \in 1 .. m + n : u[i] = l[tau[i]]
  <2>1. (\A i \in 1 .. m : s[i] = l[pi[i]]) /\ (\A i \in 1 .. n : t[i] = l[rho[i]])
    BY DEF Arranged, m, n
  <2>2. QED
    BY <1>3, <1>4, <1>7, <2>1
<1>9. \A a \in S \cup T : \E i \in 1 .. m + n : tau[i] = a
  <2> TAKE a \in S \cup T
  <2>1. CASE a \in S
    <3>1. PICK i \in 1 .. m : pi[i] = a
      BY <2>1 DEF Arranged, m
    <3>2. i \in 1 .. m + n /\ i <= m
      BY <1>1
    <3>3. QED
      BY <1>4, <3>1, <3>2
  <2>2. CASE a \in T
    <3>1. PICK i \in 1 .. n : rho[i] = a
      BY <2>2 DEF Arranged, n
    <3>2. i + m \in 1 .. m + n /\ ~(i + m <= m) /\ (i + m) - m = i
      BY <1>1
    <3>3. QED
      BY <1>4, <3>1, <3>2
  <2>3. QED
    BY <2>1, <2>2
<1>10. \A i, k \in 1 .. m + n : i < k => Goes(l, tau[i], tau[k])
  <2> TAKE i, k \in 1 .. m + n
  <2> HAVE i < k
  <2>1. CASE k <= m
    <3>1. i \in 1 .. m /\ k \in 1 .. m /\ i <= m
      BY <1>1, <2>1
    <3>2. Goes(l, pi[i], pi[k])
      BY <3>1 DEF Arranged, m
    <3>3. QED
      BY <1>4, <2>1, <3>1, <3>2
  <2>2. CASE ~(k <= m) /\ i <= m
    <3>1. i \in 1 .. m /\ k - m \in 1 .. n
      BY <1>1, <2>2
    <3>2. Goes(l, pi[i], rho[k - m])
      BY <1>5, <1>6, <3>1
    <3>3. QED
      BY <1>4, <2>2, <3>2
  <2>3. CASE ~(k <= m) /\ ~(i <= m)
    <3>1. i - m \in 1 .. n /\ k - m \in 1 .. n /\ i - m < k - m
      BY <1>1, <2>3
    <3>2. Goes(l, rho[i - m], rho[k - m])
      BY <3>1 DEF Arranged, n
    <3>3. QED
      BY <1>4, <2>3, <3>2
  <2>4. QED
    BY <2>1, <2>2, <2>3
<1>11. Arranged(u, l, S \cup T, tau)
  BY <1>1, <1>3, <1>4, <1>8, <1>9, <1>10 DEF Arranged
<1>12. QED
  BY <1>11 DEF u, tau

\* The sorted list has the whole list, by rank, and by place within a rank.
LEMMA SortedArranged ==
  ASSUME NEW l, l \in Seq(Range(l)), \A d \in Range(l) : IsFormat(fds[d].fmt)
  PROVE  \E pi : Arranged(Sorted(l), l, DOMAIN l, pi)
<1> DEFINE At(r) == {i \in DOMAIN l : Rank[fds[l[i]].fmt.kind] = r}
           P(r) == Those(l, At(r))
<1>1. Sorted(l) = P(0) \o P(1) \o P(2) \o P(3)
  BY DEF Sorted
<1>2. DOMAIN l = At(0) \cup At(1) \cup At(2) \cup At(3)
  <2>1. ASSUME NEW i \in DOMAIN l
        PROVE  Rank[fds[l[i]].fmt.kind] \in {0, 1, 2, 3}
    <3>1. l[i] \in Range(l)
      BY DEF Range
    <3>2. fds[l[i]].fmt.kind \in {"file", "rec", "data", "record"}
      BY <3>1 DEF IsFormat, Kinds
    <3>3. QED
      BY <3>2 DEF Rank
  <2>2. QED
    BY <2>1
<1>3. \A r, q \in 0 .. 3 : r < q => \A a \in At(r), b \in At(q) : Goes(l, a, b)
  BY DEF Goes
<1>4. \A r : \E pi : Arranged(P(r), l, At(r), pi)
  BY PartArranged
<1> HIDE DEF At, P
<1>5. PICK p0 : Arranged(P(0), l, At(0), p0)
  BY <1>4
<1>6. PICK p1 : Arranged(P(1), l, At(1), p1)
  BY <1>4
<1>7. PICK p2 : Arranged(P(2), l, At(2), p2)
  BY <1>4
<1>8. PICK p3 : Arranged(P(3), l, At(3), p3)
  BY <1>4
<1>9. Arranged(P(0) \o P(1), l, At(0) \cup At(1), p0 \o p1)
  BY <1>3, <1>5, <1>6, JoinArranged
<1>10. Arranged(P(0) \o P(1) \o P(2), l, At(0) \cup At(1) \cup At(2), p0 \o p1 \o p2)
  <2>1. \A a \in At(0) \cup At(1), b \in At(2) : Goes(l, a, b)
    BY <1>3
  <2>2. QED
    BY <1>7, <1>9, <2>1, JoinArranged
<1>11. Arranged(P(0) \o P(1) \o P(2) \o P(3), l, At(0) \cup At(1) \cup At(2) \cup At(3), p0 \o p1 \o p2 \o p3)
  <2>1. \A a \in At(0) \cup At(1) \cup At(2), b \in At(3) : Goes(l, a, b)
    BY <1>3
  <2>2. QED
    BY <1>8, <1>10, <2>1, JoinArranged
<1>12. QED
  BY <1>1, <1>2, <1>11

-----------------------------------------------------------------------------
(* The places of the sorted list *)

\* The list is a list of formats in memory (part of SInv)
Held ==
    /\ fdl \in Seq(Range(fdl)) /\ Nil \notin Nat
    /\ \A d \in Range(fdl) : d \in DOMAIN fds /\ d \in Nat /\ IsFormat(fds[d].fmt)
Typical(p) == FmtAt(p).kind # "record"
Placings ==
    /\ Len(fdl) \in Nat /\ Sorted(fdl) \in Seq(Range(fdl)) /\ Len(Sorted(fdl)) = Len(fdl)
    /\ \A p \in 1 .. Len(fdl) : FdAt(p) \in Range(fdl)
    /\ \A d \in Range(fdl) : \E p \in 1 .. Len(fdl) : FdAt(p) = d
    /\ \A p \in 1 .. Len(fdl) : Typical(p) => FmtAt(p).io \in {"in", "out"}
    /\ \A p, q \in 1 .. Len(fdl) :
          Typical(p) /\ FmtAt(p).kind = FmtAt(q).kind =>
              /\ FmtAt(p).io = FmtAt(q).io => p = q
              /\ FmtAt(p).io = "in" /\ FmtAt(q).io = "out" => p < q

\* In the sorted list there is one input and one output of a kind, the input first.
LEMMA PlacesAre ==
  ASSUME Held, InTurn
  PROVE  Placings
<1> DEFINE n == Len(fdl)
           t == Sorted(fdl)
<1>1. /\ fdl \in Seq(Range(fdl)) /\ n \in Nat /\ DOMAIN fdl = 1 .. n
      /\ \A d \in Range(fdl) : IsFormat(fds[d].fmt)
  BY DEF Held
<1>2. t \in Seq(Range(fdl)) /\ Len(t) = n
  BY <1>1, SortedIs
<1>3. PICK pi : Arranged(t, fdl, DOMAIN fdl, pi)
  BY <1>1, SortedArranged
<1> HIDE DEF t, n
<1>4. /\ pi \in Seq(1 .. n) /\ Len(pi) = n
      /\ \A i \in 1 .. n : t[i] = fdl[pi[i]] /\ pi[i] \in 1 .. n
      /\ \A a \in 1 .. n : \E i \in 1 .. n : pi[i] = a
      /\ \A i, k \in 1 .. n : i < k => Goes(fdl, pi[i], pi[k])
  <2>1. pi \in Seq(1 .. n) /\ Len(pi) = n
    BY <1>1, <1>2, <1>3 DEF Arranged
  <2>2. \A i \in 1 .. n : pi[i] \in 1 .. n
    BY <2>1
  <2>3. QED
    BY <1>1, <1>2, <1>3, <2>1, <2>2 DEF Arranged
<1>5. \A p \in 1 .. n : FdAt(p) = fdl[pi[p]] /\ FdAt(p) \in Range(fdl) /\ FmtAt(p) = fds[fdl[pi[p]]].fmt
  BY <1>1, <1>4 DEF FdAt, FmtAt, Range, t
<1>6. \A d \in Range(fdl) : \E p \in 1 .. n : FdAt(p) = d
  BY <1>1, <1>4, <1>5 DEF Range
<1>7. \A p \in 1 .. n : Typical(p) => FmtAt(p).io \in {"in", "out"} /\ Typed(pi[p])
  BY <1>1, <1>4, <1>5 DEF Typical, Typed, InTurn
<1>8. \A p \in 1 .. n : FmtAt(p).kind \in {"record", "file", "rec", "data"}
  BY <1>1, <1>5 DEF IsFormat, Kinds
<1>9. \A k \in {"record", "file", "rec", "data"} : Rank[k] \in 0 .. 3
  BY DEF Rank
<1>10. ASSUME NEW p \in 1 .. n, NEW q \in 1 .. n, Typical(p), FmtAt(p).kind = FmtAt(q).kind
       PROVE  /\ FmtAt(p).io = FmtAt(q).io => p = q
              /\ FmtAt(p).io = "in" /\ FmtAt(q).io = "out" => p < q
  <2> DEFINE a == pi[p]
             b == pi[q]
             f == FmtAt(p)
             g == FmtAt(q)
             r == Rank[f.kind]
  <2>1. Typical(q) /\ Typed(a) /\ Typed(b) /\ a \in 1 .. n /\ b \in 1 .. n
    BY <1>4, <1>7, <1>10 DEF Typical
  <2>2. f = fds[fdl[a]].fmt /\ g = fds[fdl[b]].fmt /\ f.io \in {"in", "out"} /\ g.io \in {"in", "out"}
    BY <1>5, <1>7, <1>10, <2>1
  <2>3. f.kind = g.kind /\ r \in 0 .. 3
    BY <1>8, <1>9, <1>10
  <2>4. /\ a < b => Slot(f) < Slot(g)
        /\ b < a => Slot(g) < Slot(f)
    BY <1>1, <2>1, <2>2 DEF InTurn
  <2>5. /\ p < q => Goes(fdl, a, b)
        /\ q < p => Goes(fdl, b, a)
    BY <1>4
  <2>6. /\ Goes(fdl, a, b) => a < b
        /\ Goes(fdl, b, a) => b < a
    <3>1. Rank[fds[fdl[a]].fmt.kind] = r /\ Rank[fds[fdl[b]].fmt.kind] = r
      BY <2>2, <2>3
    <3> HIDE DEF r, a, b
    <3>2. QED
      BY <2>3, <3>1 DEF Goes
  <2>7. /\ f.io = "in" => Slot(f) = r
        /\ f.io = "out" => Slot(f) = 4 + r
        /\ g.io = "in" => Slot(g) = r
        /\ g.io = "out" => Slot(g) = 4 + r
    BY <2>3 DEF Slot
  <2> HIDE DEF a, b, f, g, r
  <2>8. f.io = g.io => p = q
    <3>1. f.io = g.io => Slot(f) = Slot(g) /\ Slot(f) \in Int
      BY <2>2, <2>3, <2>7
    <3>2. f.io = g.io => ~(a < b) /\ ~(b < a)
      BY <2>4, <3>1
    <3>3. f.io = g.io => ~(p < q) /\ ~(q < p)
      BY <2>5, <2>6, <3>2
    <3>4. p \in Int /\ q \in Int
      OBVIOUS
    <3>5. QED
      BY <3>3, <3>4
  <2>9. f.io = "in" /\ g.io = "out" => p < q
    <3>1. f.io = "in" /\ g.io = "out" => ~(b < a)
      BY <2>3, <2>4, <2>7
    <3>2. f.io = "in" /\ g.io = "out" => ~(q < p)
      BY <2>5, <2>6, <3>1
    <3>3. f.io = "in" /\ g.io = "out" => p # q
      BY DEF f, g
    <3>4. p \in Int /\ q \in Int
      OBVIOUS
    <3>5. QED
      BY <3>2, <3>3, <3>4
  <2>10. QED
    BY <2>8, <2>9 DEF f, g
<1>11. QED
  BY <1>1, <1>2, <1>5, <1>6, <1>7, <1>10 DEF Placings, n, t

\* Something that fits is found if there is something that fits.
LEMMA FirstInFound ==
  ASSUME NEW s, s \in Seq(Range(s)), NEW fitting
  PROVE  /\ fitting \cap Range(s) # {} => FirstIn(s, fitting) \in fitting \cap Range(s)
         /\ fitting \cap Range(s) = {} => FirstIn(s, fitting) = Nil
<1> DEFINE fit == {i \in DOMAIN s : s[i] \in fitting}
<1>1. fit \in SUBSET DOMAIN s /\ \A i \in fit : s[i] \in fitting /\ s[i] \in Range(s)
  BY DEF Range
<1>2. FirstIn(s, fitting) = IF fit = {} THEN Nil ELSE s[Nth(fit, 1)]
  BY DEF FirstIn
<1>3. fit = {} <=> fitting \cap Range(s) = {}
  BY DEF Range
<1> HIDE DEF fit
<1>4. ASSUME fit # {}
      PROVE  Nth(fit, 1) \in fit
  <2>1. IsFiniteSet(fit) /\ Cardinality(fit) \in Nat
    BY <1>1, ThoseAre
  <2>2. Cardinality(fit) # 0
    BY <1>4, <2>1, FS_EmptySet
  <2>3. 1 \in DOMAIN Those(s, fit)
    BY <2>1, <2>2 DEF Those
  <2>4. QED
    BY <1>1, <2>3, ThoseAre
<1>5. QED
  BY <1>1, <1>2, <1>3, <1>4

\* The two sides of a place
Sided(p) ==
    /\ InAt(p) = IF FmtAt(p).io = "in" THEN FdAt(p) ELSE Nil
    /\ FdAt(p) # Nil
    /\ FmtAt(p).io = "out" => OutAt(p) = FdAt(p)
    /\ OutAt(p) # Nil => \E q \in 1 .. Len(fdl) :
          FdAt(q) = OutAt(p) /\ Typical(q) /\ FmtAt(q).io = "out" /\ FmtAt(q).kind = FmtAt(p).kind
    /\ \A q \in 1 .. Len(fdl) :
          FmtAt(q).io = "out" /\ FmtAt(q).kind = FmtAt(p).kind => OutAt(p) = FdAt(q) /\ OutAt(p) # Nil

\* The output of a place is the output of its kind.
LEMMA SidesAre ==
  ASSUME Held, Placings, NEW p \in 1 .. Len(fdl), Typical(p)
  PROVE  Sided(p)
<1> DEFINE n == Len(fdl)
           t == Sorted(fdl)
           Fitting(f) == {d \in ToSet(t) : fds[d].fmt.io = "out" /\ fds[d].fmt.kind = f.kind}
<1>1. /\ n \in Nat /\ p \in 1 .. n /\ t \in Seq(Range(fdl)) /\ Len(t) = n
      /\ \A q \in 1 .. n : FdAt(q) \in Range(fdl) /\ FdAt(q) # Nil
  BY DEF Placings, Held
<1>2. t \in Seq(Range(t)) /\ DOMAIN t = 1 .. n
  BY <1>1, OwnRange
<1>3. \A d : d \in Range(t) <=> \E q \in 1 .. n : d = FdAt(q)
  BY <1>2 DEF Range, FdAt
<1>4. ToSet(t) = Range(t)
  BY DEF ToSet, Range
<1> HIDE DEF t, n
<1>5. \A f : OutputOf(f) = FirstIn(t, Fitting(f))
  BY DEF OutputOf, t
<1>6. \A f : \A d : d \in Fitting(f) \cap Range(t) <=>
                    \E q \in 1 .. n : d = FdAt(q) /\ FmtAt(q).io = "out" /\ FmtAt(q).kind = f.kind
  BY <1>3, <1>4 DEF FmtAt
<1> HIDE DEF Fitting
<1>7. \A f : /\ Fitting(f) \cap Range(t) # {} => OutputOf(f) \in Fitting(f) \cap Range(t)
             /\ Fitting(f) \cap Range(t) = {} => OutputOf(f) = Nil
  BY <1>2, <1>5, FirstInFound
<1>8. \A q \in 1 .. n : FmtAt(q).kind = FmtAt(p).kind => Typical(q)
  BY DEF Typical
<1>9. \A q, r \in 1 .. n : FmtAt(q).kind = FmtAt(r).kind /\ Typical(q) /\ FmtAt(q).io = FmtAt(r).io => q = r
  BY DEF Placings, n
<1>10. CASE FmtAt(p).io = "in"
  <2>1. OutAt(p) = OutputOf(FmtAt(p))
    BY <1>10 DEF OutAt
  <2>2. OutAt(p) # Nil => \E q \in 1 .. n : FdAt(q) = OutAt(p) /\ Typical(q) /\ FmtAt(q).io = "out" /\ FmtAt(q).kind = FmtAt(p).kind
    BY <1>6, <1>7, <1>8, <2>1
  <2>3. ASSUME NEW q \in 1 .. n, FmtAt(q).io = "out", FmtAt(q).kind = FmtAt(p).kind
        PROVE  OutAt(p) = FdAt(q) /\ OutAt(p) # Nil
    <3>1. OutAt(p) \in Fitting(FmtAt(p)) \cap Range(t)
      BY <1>6, <1>7, <2>1, <2>3
    <3>2. PICK r \in 1 .. n : OutAt(p) = FdAt(r) /\ FmtAt(r).io = "out" /\ FmtAt(r).kind = FmtAt(p).kind
      BY <1>6, <3>1
    <3>3. r = q
      BY <1>8, <1>9, <2>3, <3>2
    <3>4. QED
      BY <1>1, <3>2, <3>3
  <2>4. QED
    BY <1>1, <1>10, <2>2, <2>3 DEF Sided, InAt, n
<1>11. CASE FmtAt(p).io = "out"
  <2>1. OutAt(p) = FdAt(p) /\ OutAt(p) # Nil
    BY <1>1, <1>11 DEF OutAt
  <2>2. \A q \in 1 .. n : FmtAt(q).io = "out" /\ FmtAt(q).kind = FmtAt(p).kind => q = p
    BY <1>1, <1>8, <1>9, <1>11
  <2>3. QED
    BY <1>1, <1>11, <2>1, <2>2 DEF Sided, InAt, n
<1>12. QED
  BY <1>1, <1>10, <1>11 DEF Placings, n

-----------------------------------------------------------------------------
(* What stays the same while conduits are made *)

Steady ==
    /\ UNCHANGED <<job, fdl>>
    /\ \A d \in Range(fdl) : fds'[d] = fds[d]

\* The sorted list stays the same.
LEMMA SortedSame ==
  ASSUME Held, Placings, Steady
  PROVE  /\ Sorted(fdl)' = Sorted(fdl)
         /\ \A d \in ToSet(Sorted(fdl)) : fds'[d] = fds[d]
<1>1. fdl' = fdl /\ \A i \in DOMAIN fdl : fds'[fdl[i]] = fds[fdl[i]]
  BY DEF Steady, Range
<1>2. \A r : {i \in DOMAIN fdl : Rank[fds'[fdl[i]].fmt.kind] = r} = {i \in DOMAIN fdl : Rank[fds[fdl[i]].fmt.kind] = r}
  BY <1>1
<1>3. Sorted(fdl)' = Sorted(fdl)
  BY <1>1, <1>2 DEF Sorted
<1>4. Range(Sorted(fdl)) \subseteq Range(fdl)
  BY OwnRange DEF Placings
<1>5. \A d \in ToSet(Sorted(fdl)) : fds'[d] = fds[d]
  BY <1>4 DEF Steady, ToSet, Range
<1>6. QED
  BY <1>3, <1>5

\* Variables and formats do not depend on what else is in memory.
LEMMA VariablesSame ==
  ASSUME Held, Placings, Steady, NEW v
  PROVE  /\ RecordFd(v)' = RecordFd(v)
         /\ RecordFd(v) # Nil => RecordFd(v) \in Range(fdl)
         /\ Refused(v)' = Refused(v)
         /\ \A f : Spawned(f, v)' = Spawned(f, v) /\ AsPlaced(f, v)' = AsPlaced(f, v)
         /\ \A x, f, file : Offset(x, f, v, file)' = Offset(x, f, v, file)
         /\ \A f : Named(f, v)' = Named(f, v)
<1> DEFINE t == Sorted(fdl)
<1>1. Sorted(fdl)' = t /\ \A d \in ToSet(t) : fds'[d] = fds[d]
  BY SortedSame
<1>2. t \in Seq(Range(t)) /\ Range(t) \subseteq Range(fdl) /\ ToSet(t) = Range(t)
  BY OwnRange DEF Placings, ToSet, Range
<1> HIDE DEF t
<1>3. {d \in ToSet(t) : fds'[d].fmt.name = v.rec} = {d \in ToSet(t) : fds[d].fmt.name = v.rec}
  BY <1>1
<1>4. RecordFd(v)' = RecordFd(v)
  BY <1>1, <1>3 DEF RecordFd, t
<1>5. RecordFd(v) # Nil => RecordFd(v) \in Range(fdl)
  <2>1. RecordFd(v) = Nil \/ RecordFd(v) = FirstIn(t, {d \in ToSet(t) : fds[d].fmt.name = v.rec})
    BY DEF RecordFd, t
  <2>2. \A fitting : FirstIn(t, fitting) = Nil \/ FirstIn(t, fitting) \in Range(t)
    BY <1>2, FirstInFound
  <2>3. QED
    BY <1>2, <2>1, <2>2
<1>6. RecordFd(v) # Nil => fds'[RecordFd(v)] = fds[RecordFd(v)]
  BY <1>5 DEF Steady
<1>7. \A f : Spawned(f, v)' = Spawned(f, v) /\ AsPlaced(f, v)' = AsPlaced(f, v)
  BY <1>4, <1>6 DEF Spawned, AsPlaced
<1>8. \A x, f, file : Offset(x, f, v, file)' = Offset(x, f, v, file)
  BY <1>4 DEF Offset
<1>9. Refused(v)' = Refused(v)
  BY <1>4, <1>6 DEF Refused
<1>10. \A f : Named(f, v)' = Named(f, v)
  BY DEF Named, Steady
<1>11. QED
  BY <1>4, <1>5, <1>7, <1>8, <1>9, <1>10

\* The other side of a place is in the list.
LEMMA OtherSide ==
  ASSUME Held, Placings, NEW p \in 1 .. Len(fdl)
  PROVE  FdAt(p) \in Range(fdl) /\ (OutAt(p) = Nil \/ OutAt(p) \in Range(fdl))
<1> DEFINE t == Sorted(fdl)
           F == {d \in ToSet(t) : fds[d].fmt.io = "out" /\ fds[d].fmt.kind = FmtAt(p).kind}
<1>1. t \in Seq(Range(t)) /\ Range(t) \subseteq Range(fdl)
  BY OwnRange DEF Placings
<1>2. OutputOf(FmtAt(p)) = FirstIn(t, F)
  BY DEF OutputOf
<1> HIDE DEF t, F
<1>3. FirstIn(t, F) = Nil \/ FirstIn(t, F) \in Range(t)
  BY <1>1, FirstInFound
<1>4. QED
  BY <1>1, <1>2, <1>3 DEF OutAt, Placings

\* Nor does what a place has.
LEMMA PlacesSame ==
  ASSUME Held, Placings, Steady
  PROVE  /\ Len(fdl)' = Len(fdl)
         /\ \A p \in 1 .. Len(fdl) :
               /\ FdAt(p)' = FdAt(p) /\ FmtAt(p)' = FmtAt(p) /\ InAt(p)' = InAt(p) /\ OutAt(p)' = OutAt(p)
               /\ OutAt(p) # Nil => fds'[OutAt(p)] = fds[OutAt(p)]
               /\ ListAt(p)' = ListAt(p)
               /\ \A j : InVarAt(p, j)' = InVarAt(p, j)
               /\ HasInput(p)' = HasInput(p) /\ Skipped(p)' = Skipped(p) /\ Size(p)' = Size(p)
               /\ Mates(p)' = Mates(p)
<1> DEFINE t == Sorted(fdl)
<1>1. fdl' = fdl /\ Len(fdl)' = Len(fdl) /\ job' = job
  BY DEF Steady
<1>2. Sorted(fdl)' = t /\ \A d \in ToSet(t) : fds'[d] = fds[d]
  BY SortedSame
<1>3. \A p \in 1 .. Len(fdl) : FdAt(p) \in Range(fdl) /\ (OutAt(p) = Nil \/ OutAt(p) \in Range(fdl))
  BY OtherSide
<1>4. \A d \in Range(fdl) : fds'[d] = fds[d]
  BY DEF Steady
<1>5. \A f : {d \in ToSet(t) : fds'[d].fmt.io = "out" /\ fds'[d].fmt.kind = f.kind}
             = {d \in ToSet(t) : fds[d].fmt.io = "out" /\ fds[d].fmt.kind = f.kind}
  BY <1>2
<1>6. \A f : OutputOf(f)' = OutputOf(f)
  BY <1>2, <1>5 DEF OutputOf
<1>7. \A p : FdAt(p)' = FdAt(p)
  BY <1>2 DEF FdAt
<1> HIDE DEF t
<1>8. \A p \in 1 .. Len(fdl) : FmtAt(p)' = FmtAt(p)
  BY <1>3, <1>4, <1>7 DEF FmtAt
<1>9. \A p \in 1 .. Len(fdl) : InAt(p)' = InAt(p) /\ OutAt(p)' = OutAt(p)
  BY <1>6, <1>7, <1>8 DEF InAt, OutAt
<1>10. \A p \in 1 .. Len(fdl) : OutAt(p) # Nil => fds'[OutAt(p)] = fds[OutAt(p)]
  BY <1>3, <1>4
<1>11. \A p \in 1 .. Len(fdl) : ListAt(p)' = ListAt(p)
  BY <1>3, <1>4, <1>7, <1>9, <1>10 DEF ListAt, VarsOf
<1>12. \A f, v : Named(f, v)' = Named(f, v)
  BY <1>1 DEF Named
<1>13. \A p \in 1 .. Len(fdl) : \A j : InVarAt(p, j)' = InVarAt(p, j)
  BY <1>8, <1>9, <1>11, <1>12 DEF InVarAt
<1>14. \A p \in 1 .. Len(fdl) : HasInput(p)' = HasInput(p)
  BY <1>1, <1>8 DEF HasInput
<1>15. \A p \in 1 .. Len(fdl) : Skipped(p)' = Skipped(p)
  BY <1>8, <1>14 DEF Skipped
<1>16. \A p \in 1 .. Len(fdl) : Size(p)' = Size(p)
  BY <1>8, <1>11, <1>15 DEF Size
<1>17. \A p \in 1 .. Len(fdl) : Mates(p)' = Mates(p)
  BY <1>8, <1>9, <1>10 DEF Mates
<1>18. QED
  BY <1>1, <1>7, <1>8, <1>9, <1>10, <1>11, <1>13, <1>14, <1>15, <1>16, <1>17

\* What a conduit was made for, if its ends are as they were
LEMMA MadeForSame ==
  ASSUME Held, Placings, Steady, NEW p \in 1 .. Len(fdl), NEW j, NEW c,
         c.in # Nil => fds'[c.in.fd] = fds[c.in.fd],
         c.out # Nil => fds'[c.out.fd] = fds[c.out.fd]
  PROVE  MadeFor(c, p, j)' = MadeFor(c, p, j)
<1>1. /\ FmtAt(p)' = FmtAt(p) /\ InAt(p)' = InAt(p) /\ OutAt(p)' = OutAt(p)
      /\ OutAt(p) # Nil => fds'[OutAt(p)] = fds[OutAt(p)]
      /\ ListAt(p)' = ListAt(p) /\ InVarAt(p, j)' = InVarAt(p, j)
  BY PlacesSame
<1>2. job' = job
  BY DEF Steady
<1>3. \A v, f : Spawned(f, v)' = Spawned(f, v)
  BY VariablesSame
<1>4. \A v, f : AsPlaced(f, v)' = AsPlaced(f, v)
  BY VariablesSame
<1>5. \A v, x, f, file : Offset(x, f, v, file)' = Offset(x, f, v, file)
  BY VariablesSame
<1> DEFINE x == InVarAt(p, j)
           v == ListAt(p)[j]
           f == FmtAt(p)
           g == fds[OutAt(p)].fmt
<1>6. /\ AsPlaced(Spawned(f, x), v)' = AsPlaced(Spawned(f, x), v)
      /\ Offset(x, Spawned(f, x), v, job.inFile)' = Offset(x, Spawned(f, x), v, job.inFile)
  BY <1>1, <1>2, <1>3, <1>4, <1>5
<1>7. OutAt(p) # Nil =>
      /\ AsPlaced(Spawned(g, v), v)' = AsPlaced(Spawned(g, v), v)
      /\ Offset(v, Spawned(g, v), v, job.outFile)' = Offset(v, Spawned(g, v), v, job.outFile)
  BY <1>1, <1>2, <1>3, <1>4, <1>5
<1>8. QED
  BY <1>1, <1>2, <1>6, <1>7 DEF MadeFor, TablePole, ArrayPole

\* The poles of the conduits are as they were.
EndsKept ==
    \A i \in DOMAIN conduits :
        /\ conduits[i].in # Nil => fds'[conduits[i].in.fd] = fds[conduits[i].in.fd]
        /\ conduits[i].out # Nil => fds'[conduits[i].out.fd] = fds[conduits[i].out.fd]

\* A conduit that is there still, for what it was made for
LEMMA StillMadeFor ==
  ASSUME Held, Placings, Steady, EndsKept, NEW i \in DOMAIN conduits, conduits'[i] = conduits[i],
         NEW p \in 1 .. Len(fdl), NEW j, MadeFor(conduits[i], p, j)
  PROVE  MadeFor(conduits[i], p, j)'
<1>1. \A c : c = conduits[i] =>
         (/\ c.in # Nil => fds'[c.in.fd] = fds[c.in.fd]
          /\ c.out # Nil => fds'[c.out.fd] = fds[c.out.fd])
  BY DEF EndsKept
<1>2. SUFFICES ASSUME NEW c, c = conduits[i], c = conduits'[i]
               PROVE  MadeFor(conduits[i], p, j)'
  OBVIOUS
<1>3. /\ c.in # Nil => fds'[c.in.fd] = fds[c.in.fd]
      /\ c.out # Nil => fds'[c.out.fd] = fds[c.out.fd]
  BY <1>1, <1>2
<1>4. MadeFor(c, p, j)
  BY <1>2 DEF MadeFor, TablePole, ArrayPole
<1>5. MadeFor(c, p, j)'
  BY <1>3, <1>4, MadeForSame
<1>6. QED
  BY <1>2, <1>5 DEF MadeFor, TablePole, ArrayPole

\* No conduit was made, and no place has been passed that makes one.
LEMMA TracedSame ==
  ASSUME Held, Placings, Steady, EndsKept, conduits' = conduits, NEW from, Traced(from),
         \A p \in 1 .. Len(fdl) : \A j \in 1 .. Size(p) : Before(p, j)' <=> Before(p, j)
  PROVE  Traced(from)'
<1>1. /\ Len(fdl)' = Len(fdl)
      /\ \A p \in 1 .. Len(fdl) : Size(p)' = Size(p)
  BY PlacesSame
<1>2. DOMAIN from = DOMAIN conduits'
  BY DEF Traced
<1>3. ASSUME NEW i \in DOMAIN conduits
      PROVE  /\ Makes(from[i][1], from[i][2])'
             /\ Before(from[i][1], from[i][2])'
             /\ MadeFor(conduits[i], from[i][1], from[i][2])'
  <2> DEFINE p == from[i][1]
             j == from[i][2]
  <2>1. Makes(p, j) /\ Before(p, j) /\ MadeFor(conduits[i], p, j)
    BY DEF Traced
  <2>2. p \in 1 .. Len(fdl) /\ j \in 1 .. Size(p)
    BY <2>1 DEF Makes
  <2> HIDE DEF p, j
  <2>3. Makes(p, j)'
    BY <1>1, <2>2 DEF Makes
  <2>4. Before(p, j)'
    BY <2>1, <2>2
  <2>5. MadeFor(conduits[i], p, j)'
    BY <2>1, <2>2, StillMadeFor
  <2>6. QED
    BY <2>3, <2>4, <2>5 DEF p, j
<1>4. \A i, k \in DOMAIN conduits' : from[i][1] = from[k][1] /\ from[i][2] = from[k][2] => i = k
  BY DEF Traced
<1>5. ASSUME NEW p \in 1 .. Len(fdl), NEW j \in 1 .. Size(p), Before(p, j)'
      PROVE  \E i \in DOMAIN conduits' : from[i][1] = p /\ from[i][2] = j
  <2>1. Before(p, j)
    BY <1>5
  <2>2. QED
    BY <2>1 DEF Traced
<1>6. \A p \in 1 .. Len(fdl)' : \A j \in 1 .. Size(p)' : Before(p, j)' =>
         \E i \in DOMAIN conduits' : from[i][1] = p /\ from[i][2] = j
  BY <1>1, <1>5
<1>7. QED
  BY <1>2, <1>3, <1>4, <1>6 DEF Traced

\* A conduit was made, the one that was due.
LEMMA TracedMore ==
  ASSUME Held, Placings, Steady, EndsKept, NEW from, Traced(from),
         NEW n \in Nat, DOMAIN conduits = 1 .. n, DOMAIN conduits' = 1 .. n + 1,
         \A i \in 1 .. n : conduits'[i] = conduits[i],
         NEW p0 \in 1 .. Len(fdl), NEW j0 \in 1 .. Size(p0), ~Before(p0, j0),
         NEW c, conduits'[n + 1] = c, MadeFor(c, p0, j0)',
         \A p \in 1 .. Len(fdl) : \A j \in 1 .. Size(p) :
             Before(p, j)' <=> Before(p, j) \/ (p = p0 /\ j = j0)
  PROVE  \E more : Traced(more)'
<1> DEFINE more == [i \in 1 .. n + 1 |-> IF i = n + 1 THEN <<p0, j0>> ELSE from[i]]
<1>1. /\ Len(fdl)' = Len(fdl)
      /\ \A p \in 1 .. Len(fdl) : Size(p)' = Size(p)
  BY PlacesSame
<1>2. /\ DOMAIN more = 1 .. n + 1 /\ more[n + 1][1] = p0 /\ more[n + 1][2] = j0
      /\ \A i \in 1 .. n : more[i] = from[i]
  OBVIOUS
<1> HIDE DEF more
<1>3. \A i \in 1 .. n + 1 : i \in 1 .. n \/ i = n + 1
  OBVIOUS
<1>4. ASSUME NEW i \in 1 .. n
      PROVE  /\ Makes(from[i][1], from[i][2])'
             /\ Before(from[i][1], from[i][2])'
             /\ MadeFor(conduits[i], from[i][1], from[i][2])'
             /\ ~(from[i][1] = p0 /\ from[i][2] = j0)
  <2> DEFINE p == from[i][1]
             j == from[i][2]
  <2>0. i \in DOMAIN conduits
    OBVIOUS
  <2>1. Makes(p, j) /\ Before(p, j) /\ MadeFor(conduits[i], p, j)
    BY <2>0 DEF Traced
  <2>2. p \in 1 .. Len(fdl) /\ j \in 1 .. Size(p)
    BY <2>1 DEF Makes
  <2> HIDE DEF p, j
  <2>3. Makes(p, j)'
    BY <1>1, <2>2 DEF Makes
  <2>4. Before(p, j)'
    BY <2>1, <2>2
  <2>5. MadeFor(conduits[i], p, j)'
    BY <2>0, <2>1, <2>2, StillMadeFor
  <2>6. ~(p = p0 /\ j = j0)
    BY <2>1
  <2>7. QED
    BY <2>3, <2>4, <2>5, <2>6 DEF p, j
<1>5. /\ Makes(p0, j0)'
      /\ Before(p0, j0)'
      /\ MadeFor(conduits[n + 1], p0, j0)'
  <2>1. Makes(p0, j0)'
    BY <1>1 DEF Makes
  <2>2. MadeFor(conduits[n + 1], p0, j0)'
    BY DEF MadeFor, TablePole, ArrayPole
  <2>3. QED
    BY <2>1, <2>2
<1>6. ASSUME NEW i \in 1 .. n + 1
      PROVE  /\ Makes(more[i][1], more[i][2])'
             /\ Before(more[i][1], more[i][2])'
             /\ MadeFor(conduits[i], more[i][1], more[i][2])'
  <2>1. CASE i \in 1 .. n
    <3>1. more[i] = from[i]
      BY <1>2, <2>1
    <3>2. QED
      BY <1>4, <2>1, <3>1
  <2>2. CASE i = n + 1
    BY <1>2, <1>5, <2>2
  <2>3. QED
    BY <1>3, <2>1, <2>2
<1>7. ASSUME NEW i \in 1 .. n + 1, NEW k \in 1 .. n + 1, more[i][1] = more[k][1], more[i][2] = more[k][2]
      PROVE  i = k
  <2>1. CASE i \in 1 .. n /\ k \in 1 .. n
    <3>1. from[i][1] = from[k][1] /\ from[i][2] = from[k][2]
      BY <1>2, <1>7, <2>1
    <3>2. QED
      BY <2>1, <3>1 DEF Traced
  <2>2. CASE i = n + 1 /\ k = n + 1
    BY <2>2
  <2>3. CASE i = n + 1 /\ k \in 1 .. n
    BY <1>2, <1>4, <1>7, <2>3
  <2>4. CASE k = n + 1 /\ i \in 1 .. n
    BY <1>2, <1>4, <1>7, <2>4
  <2>5. QED
    BY <1>3, <2>1, <2>2, <2>3, <2>4
<1>8. ASSUME NEW p \in 1 .. Len(fdl), NEW j \in 1 .. Size(p), Before(p, j)'
      PROVE  \E i \in 1 .. n + 1 : more[i][1] = p /\ more[i][2] = j
  <2>1. CASE Before(p, j)
    <3>1. PICK i \in 1 .. n : from[i][1] = p /\ from[i][2] = j
      BY <2>1 DEF Traced
    <3>2. more[i] = from[i] /\ i \in 1 .. n + 1
      BY <1>2
    <3>3. QED
      BY <3>1, <3>2
  <2>2. CASE p = p0 /\ j = j0
    <3>1. n + 1 \in 1 .. n + 1
      OBVIOUS
    <3>2. QED
      BY <1>2, <2>2, <3>1
  <2>3. QED
    BY <1>8, <2>1, <2>2
<1>9. DOMAIN more = DOMAIN conduits'
  BY <1>2
<1>10. \A p \in 1 .. Len(fdl)' : \A j \in 1 .. Size(p)' : Before(p, j)' =>
          \E i \in DOMAIN conduits' : more[i][1] = p /\ more[i][2] = j
  BY <1>1, <1>8
<1>11. \A i \in DOMAIN conduits' :
          /\ Makes(more[i][1], more[i][2])'
          /\ Before(more[i][1], more[i][2])'
          /\ MadeFor(conduits[i], more[i][1], more[i][2])'
  BY <1>6
<1>12. \A i, k \in DOMAIN conduits' : more[i][1] = more[k][1] /\ more[i][2] = more[k][2] => i = k
  BY <1>7
<1>13. Traced(more)'
  BY <1>9, <1>10, <1>11, <1>12 DEF Traced
<1>14. QED
  BY <1>13

-----------------------------------------------------------------------------
(* Names *)

\* A name of one part, and one more
LEMMA TwoNames ==
  ASSUME NEW t, NEW a, NEW y, t = <<a>>
  PROVE  /\ Len(t) = 1 /\ Len(Append(t, y)) = 2
         /\ Append(t, y)[1] = a /\ Append(t, y)[2] = y
<1> DEFINE U == {a, y}
<1>1. a \in U /\ y \in U
  OBVIOUS
<1> HIDE DEF U
<1>2. <<a>> \in Seq(U) /\ Len(<<a>>) = 1 /\ <<a>>[1] = a
  BY <1>1
<1>3. t \in Seq(U) /\ Len(t) = 1 /\ t[1] = a
  BY <1>2
<1>4. QED
  BY <1>1, <1>3

\* The name of an array is its format's and its variable's.
LEMMA ArrayNames ==
  ASSUME NEW s, OneName(s), NEW x
  PROVE  /\ Len(s) = 1 /\ Len(Append(s, x)) = 2
         /\ Append(s, x)[1] = s[1] /\ Append(s, x)[2] = x
         /\ \A t, y : OneName(t) /\ Append(s, x) = Append(t, y) => s = t /\ x = y
<1>1. ASSUME NEW t, NEW y, OneName(t)
      PROVE  Len(t) = 1 /\ Len(Append(t, y)) = 2 /\ Append(t, y)[1] = t[1] /\ Append(t, y)[2] = y
  <2> DEFINE a == t[1]
  <2>1. t = <<a>>
    BY <1>1 DEF OneName
  <2> HIDE DEF a
  <2>2. Len(t) = 1 /\ Len(Append(t, y)) = 2 /\ Append(t, y)[1] = a /\ Append(t, y)[2] = y
    BY <2>1, TwoNames
  <2>3. QED
    BY <2>2 DEF a
<1>2. /\ Len(s) = 1 /\ Len(Append(s, x)) = 2
      /\ Append(s, x)[1] = s[1] /\ Append(s, x)[2] = x
  BY <1>1
<1>3. ASSUME NEW t, NEW y, OneName(t), Append(s, x) = Append(t, y)
      PROVE  s = t /\ x = y
  <2>1. Append(t, y)[1] = t[1] /\ Append(t, y)[2] = y
    BY <1>1, <1>3
  <2>2. s[1] = t[1] /\ x = y
    <3> DEFINE u == Append(s, x)
               w == Append(t, y)
    <3>1. u = w /\ u[1] = s[1] /\ u[2] = x /\ w[1] = t[1] /\ w[2] = y
      BY <1>2, <1>3, <2>1
    <3> HIDE DEF u, w
    <3>2. QED
      BY <3>1
  <2>3. <<s[1]>> = <<t[1]>>
    BY <2>2
  <2>4. s = t
    BY <1>3, <2>3, Zenon DEF OneName
  <2>5. QED
    BY <2>2, <2>4
<1>4. QED
  BY <1>2, <1>3

\* What an array has of its format
LEMMA SpawnedHas ==
  ASSUME NEW f, NEW x, NEW v
  PROVE  LET g == AsPlaced(Spawned(f, x), v)
         IN  g.name = Append(f.name, x.name) /\ g.enc = f.enc /\ g.io = f.io /\ g.array
<1> DEFINE s == Spawned(f, x)
           g == AsPlaced(s, v)
           name == Append(f.name, x.name)
           vs == IF RecordFd(x) # Nil THEN fds[RecordFd(x)].fmt.vars ELSE <<x>>
<1>1. s = [name |-> name, kind |-> f.kind, enc |-> f.enc, io |-> f.io, array |-> TRUE, vars |-> vs]
  BY DEF Spawned
<1> HIDE DEF name, vs, s
<1>2. s.name = name /\ s.enc = f.enc /\ s.io = f.io /\ s.array
  BY <1>1
<1>3. g = s \/ \E w : g = [s EXCEPT !.vars = w]
  BY DEF AsPlaced
<1> HIDE DEF g
<1>4. \A w : LET h == [s EXCEPT !.vars = w] IN h.name = s.name /\ h.enc = s.enc /\ h.io = s.io /\ h.array = s.array
  BY <1>1
<1>5. g.name = name /\ g.enc = f.enc /\ g.io = f.io /\ g.array
  BY <1>2, <1>3, <1>4
<1>6. QED
  BY <1>5 DEF g, s, name

\* A format of the files is named once, and its variables are.
LEMMA KnownIs ==
  ASSUME FormatsAreNamed, job \in Jobs, NEW g, Known(g)
  PROVE  /\ IsFormat(g) /\ Described(g) /\ Told(g)
         /\ \A h : Known(h) /\ h.name[1] = g.name[1] => h.name = g.name /\ h.kind = g.kind /\ h.array = g.array /\ h.vars = g.vars
<1>1. PICK f \in Formats(job) :
         /\ g.name = f.name /\ g.kind = f.kind /\ g.enc = f.enc /\ g.array = f.array /\ g.vars = f.vars
         /\ ForIts(g, f)
  BY DEF Known
<1>2. /\ \A h \in Formats(job) : Described(h)
      /\ \A e, h \in Formats(job) : e.name = h.name => e = h
  BY DEF FormatsAreNamed
<1>3. IsFormat(g)
  BY DEF Known
<1>4. Described(g)
  BY <1>1, <1>2 DEF Described
<1>5. Told(g)
  BY <1>1 DEF Told
<1>6. ASSUME NEW h, Known(h), h.name[1] = g.name[1]
      PROVE  h.name = g.name /\ h.kind = g.kind /\ h.array = g.array /\ h.vars = g.vars
  <2>1. PICK e \in Formats(job) : h.name = e.name /\ h.kind = e.kind /\ h.array = e.array /\ h.vars = e.vars
    BY <1>6 DEF Known
  <2>2. OneName(e.name) /\ OneName(f.name)
    BY <1>2 DEF Described
  <2>3. e.name = f.name
    <3>1. e.name[1] = f.name[1]
      BY <1>1, <1>6, <2>1
    <3>2. <<e.name[1]>> = <<f.name[1]>>
      BY <3>1
    <3>3. QED
      BY <2>2, <3>2, Zenon DEF OneName
  <2>4. e = f
    BY <1>2, <2>3
  <2>5. QED
    BY <1>1, <2>1, <2>4
<1>7. QED
  BY <1>3, <1>4, <1>5, <1>6

-----------------------------------------------------------------------------
(* What a conduit has of its place *)

\* What is known of the list while conduits are made
Known0 == Held /\ InTurn /\ Sourced /\ job \in Jobs /\ FormatsAreNamed

\* The formats of a place are of the files, and its sides are those of its kind.
LEMMA PlaceIs ==
  ASSUME Known0, NEW p \in 1 .. Len(fdl)
  PROVE  /\ Placings /\ Known(FmtAt(p)) /\ Described(FmtAt(p)) /\ Told(FmtAt(p)) /\ IsFormat(FmtAt(p))
         /\ Typical(p) => Sided(p)
         /\ OutAt(p) # Nil => /\ Known(fds[OutAt(p)].fmt) /\ Described(fds[OutAt(p)].fmt)
                              /\ Told(fds[OutAt(p)].fmt) /\ IsFormat(fds[OutAt(p)].fmt)
<1>1. Held /\ Placings /\ Sourced /\ job \in Jobs /\ FormatsAreNamed
  BY PlacesAre DEF Known0
<1>2. FdAt(p) \in Range(fdl) /\ (OutAt(p) = Nil \/ OutAt(p) \in Range(fdl))
  BY <1>1, OtherSide
<1>3. \A d \in Range(fdl) : Known(fds[d].fmt)
  BY <1>1 DEF Sourced
<1>4. \A g : Known(g) => Described(g) /\ Told(g) /\ IsFormat(g)
  BY <1>1, KnownIs
<1>5. Known(FmtAt(p))
  BY <1>2, <1>3 DEF FmtAt
<1>6. OutAt(p) # Nil => Known(fds[OutAt(p)].fmt)
  BY <1>2, <1>3
<1>7. Typical(p) => Sided(p)
  BY <1>1, SidesAre
<1>8. QED
  BY <1>1, <1>4, <1>5, <1>6, <1>7

\* A place that makes something is no record, and is passed by by nothing.
LEMMA MakerIs ==
  ASSUME Known0, NEW p, NEW j, Makes(p, j)
  PROVE  /\ p \in 1 .. Len(fdl) /\ ~Skipped(p) /\ Typical(p) /\ Sided(p) /\ FmtAt(p).io \in {"in", "out"}
         /\ FmtAt(p).array => Size(p) = Len(ListAt(p)) /\ j \in 1 .. Len(ListAt(p))
         /\ ~FmtAt(p).array => Size(p) = 1 /\ j = 1
<1>1. p \in 1 .. Len(fdl) /\ j \in 1 .. Size(p)
  BY DEF Makes
<1>2. ~Skipped(p)
  BY <1>1 DEF Size
<1>3. Typical(p)
  BY <1>2 DEF Skipped, Typical
<1>4. Sided(p) /\ FmtAt(p).io \in {"in", "out"}
  BY <1>1, <1>3, PlaceIs DEF Placings
<1>5. /\ FmtAt(p).array => Size(p) = Len(ListAt(p))
      /\ ~FmtAt(p).array => Size(p) = 1
  BY <1>2 DEF Size
<1>6. ~FmtAt(p).array => j = 1
  BY <1>1, <1>5
<1>7. QED
  BY <1>1, <1>2, <1>3, <1>4, <1>5, <1>6

\* Two that make something are of different kinds.
LEMMA OneMaker ==
  ASSUME Known0, NEW p \in 1 .. Len(fdl), NEW q \in 1 .. Len(fdl), ~Skipped(p), ~Skipped(q),
         FmtAt(p).kind = FmtAt(q).kind
  PROVE  p = q
<1>1. Typical(p) /\ Typical(q)
  BY DEF Skipped, Typical
<1>2. Placings
  BY PlaceIs
<1>3. FmtAt(p).io \in {"in", "out"} /\ FmtAt(q).io \in {"in", "out"}
  BY <1>1, <1>2 DEF Placings
<1>4. FmtAt(p).io = FmtAt(q).io
  BY <1>3 DEF Skipped, HasInput
<1>5. QED
  BY <1>1, <1>2, <1>4 DEF Placings

\* The input of a conduit
InOf(p, j, g) ==
    /\ g.io = FmtAt(p).io /\ g.enc = FmtAt(p).enc /\ g.name[1] = FmtAt(p).name[1]
    /\ ~FmtAt(p).array => g = FmtAt(p) /\ FmtAt(p).io = "in" /\ Len(g.name) = 1
    /\ FmtAt(p).array => /\ InVarAt(p, j) # Nil /\ Len(g.name) = 2
                         /\ g.name = Append(FmtAt(p).name, InVarAt(p, j).name)
LEMMA MadeIn ==
  ASSUME Known0, NEW p, NEW j, Makes(p, j), NEW c, MadeFor(c, p, j), c.in # Nil
  PROVE  InOf(p, j, fds[c.in.fd].fmt)
<1> DEFINE g == fds[c.in.fd].fmt
           f == FmtAt(p)
<1>1. p \in 1 .. Len(fdl) /\ Sided(p)
  BY MakerIs
<1>2. OneName(f.name)
  BY <1>1, PlaceIs DEF Described
<1>3. CASE ~f.array
  <2>1. g = f /\ InAt(p) # Nil
    BY <1>3 DEF MadeFor, TablePole
  <2>2. f.io = "in"
    BY <1>1, <2>1 DEF Sided
  <2>3. Len(f.name) = 1
    BY <1>2, ArrayNames
  <2>4. QED
    BY <1>3, <2>1, <2>2, <2>3 DEF InOf
<1>4. CASE f.array
  <2> DEFINE x == InVarAt(p, j)
             v == ListAt(p)[j]
  <2>1. g = AsPlaced(Spawned(f, x), v) /\ x # Nil
    BY <1>4 DEF MadeFor, ArrayPole
  <2>2. g.name = Append(f.name, x.name) /\ g.enc = f.enc /\ g.io = f.io
    BY <2>1, SpawnedHas
  <2>3. Len(Append(f.name, x.name)) = 2 /\ Append(f.name, x.name)[1] = f.name[1]
    BY <1>2, ArrayNames
  <2> HIDE DEF g, x
  <2>4. g.name[1] = f.name[1] /\ Len(g.name) = 2
    BY <2>2, <2>3
  <2>5. QED
    BY <1>4, <2>1, <2>2, <2>4 DEF InOf, g, x
<1>5. QED
  BY <1>3, <1>4

\* The output of a conduit
OutOf(p, j, g, o) ==
    /\ OutAt(p) # Nil /\ o.io = "out" /\ o.kind = FmtAt(p).kind
    /\ g.io = "out" /\ g.enc = o.enc /\ g.name[1] = o.name[1]
    /\ ~FmtAt(p).array => g = o /\ Len(g.name) = 1
    /\ FmtAt(p).array => g.name = Append(o.name, ListAt(p)[j].name) /\ Len(g.name) = 2
LEMMA MadeOut ==
  ASSUME Known0, NEW p, NEW j, Makes(p, j), NEW c, MadeFor(c, p, j), c.out # Nil
  PROVE  OutOf(p, j, fds[c.out.fd].fmt, fds[OutAt(p)].fmt)
<1> DEFINE g == fds[c.out.fd].fmt
           f == FmtAt(p)
           o == fds[OutAt(p)].fmt
<1>1. p \in 1 .. Len(fdl) /\ Sided(p)
  BY MakerIs
<1>2. OutAt(p) # Nil
  BY DEF MadeFor
<1>3. o.io = "out" /\ o.kind = f.kind
  BY <1>1, <1>2 DEF Sided, FmtAt
<1>4. OneName(o.name)
  BY <1>1, <1>2, PlaceIs DEF Described
<1>5. CASE ~f.array
  <2>1. g = o
    BY <1>5 DEF MadeFor, TablePole
  <2>2. Len(o.name) = 1
    BY <1>4, ArrayNames
  <2>3. QED
    BY <1>2, <1>3, <1>5, <2>1, <2>2 DEF OutOf
<1>6. CASE f.array
  <2> DEFINE v == ListAt(p)[j]
  <2>1. g = AsPlaced(Spawned(o, v), v)
    BY <1>6 DEF MadeFor, ArrayPole
  <2>2. g.name = Append(o.name, v.name) /\ g.enc = o.enc /\ g.io = o.io
    BY <2>1, SpawnedHas
  <2>3. Len(Append(o.name, v.name)) = 2 /\ Append(o.name, v.name)[1] = o.name[1]
    BY <1>4, ArrayNames
  <2> HIDE DEF g, v, o
  <2>4. g.name[1] = o.name[1] /\ Len(g.name) = 2
    BY <2>2, <2>3
  <2>5. QED
    BY <1>2, <1>3, <1>6, <2>2, <2>4 DEF OutOf, g, v, o
<1>7. QED
  BY <1>5, <1>6

-----------------------------------------------------------------------------
(* What the conduits have *)

\* A pole is of a format of the files.
LEMMA TracedTold ==
  ASSUME Known0, NEW from, Traced(from)
  PROVE  PolesTold
<1>1. ASSUME NEW g, NEW h, Told(h), g.io = h.io, g.enc = h.enc, g.name[1] = h.name[1]
      PROVE  Told(g)
  BY <1>1 DEF Told, ForIts
<1>2. ASSUME NEW i \in DOMAIN conduits
      PROVE  /\ conduits[i].in # Nil => Told(fds[conduits[i].in.fd].fmt)
             /\ conduits[i].out # Nil => Told(fds[conduits[i].out.fd].fmt) /\ fds[conduits[i].out.fd].fmt.io = "out"
  <2> DEFINE p == from[i][1]
             j == from[i][2]
             c == conduits[i]
  <2>1. Makes(p, j) /\ MadeFor(c, p, j)
    BY DEF Traced
  <2>2. p \in 1 .. Len(fdl)
    BY <2>1 DEF Makes
  <2> HIDE DEF p, j, c
  <2>3. ASSUME c.in # Nil
        PROVE  Told(fds[c.in.fd].fmt)
    <3>1. InOf(p, j, fds[c.in.fd].fmt)
      BY <2>1, <2>3, MadeIn
    <3>2. Told(FmtAt(p))
      BY <2>2, PlaceIs
    <3>3. QED
      BY <1>1, <3>1, <3>2 DEF InOf
  <2>4. ASSUME c.out # Nil
        PROVE  Told(fds[c.out.fd].fmt) /\ fds[c.out.fd].fmt.io = "out"
    <3>1. OutOf(p, j, fds[c.out.fd].fmt, fds[OutAt(p)].fmt)
      BY <2>1, <2>4, MadeOut
    <3>2. Told(fds[OutAt(p)].fmt)
      BY <2>2, <3>1, PlaceIs DEF OutOf
    <3>3. QED
      BY <1>1, <3>1, <3>2 DEF OutOf
  <2>5. QED
    BY <2>3, <2>4 DEF c
<1>3. QED
  BY <1>2 DEF PolesTold

\* An output that has a conduit has an input of its kind, and the other way around,
\* but for an array without variables.
LEMMA PairedIs ==
  ASSUME Known0, NEW from, Traced(from), NEW p \in 1 .. Len(fdl), at.fd = p, at.var = 1,
         \A q \in 1 .. Len(fdl) : q < p => Mates(q),
         Typical(p), FmtAt(p).io = "out"
  PROVE  /\ HasConduit(FmtAt(p)) => HasInput(p)
         /\ HasInput(p) => HasConduit(FmtAt(p)) \/ (FmtAt(p).array /\ Len(ListAt(p)) < 1)
<1> DEFINE f == FmtAt(p)
<1>1. /\ Placings /\ Known(f) /\ Described(f) /\ Sided(p) /\ p \in Int
      /\ \A q \in 1 .. Len(fdl) : Known(FmtAt(q))
  BY PlaceIs
<1>2. job \in Jobs /\ FormatsAreNamed
  BY DEF Known0
<1>3. OutAt(p) = FdAt(p) /\ FdAt(p) # Nil
  BY <1>1 DEF Sided
<1>4. ASSUME HasConduit(f)
      PROVE  HasInput(p)
  <2>1. PICK i \in DOMAIN conduits :
          /\ conduits[i].out # Nil
          /\ LET g == fds[conduits[i].out.fd].fmt IN
             IF f.array THEN Len(g.name) = 2 /\ g.name[1] = f.name[1] ELSE g = f
    BY <1>4 DEF HasConduit
  <2> DEFINE q == from[i][1]
             j == from[i][2]
             g == fds[conduits[i].out.fd].fmt
             o == fds[OutAt(q)].fmt
  <2>2. Makes(q, j) /\ Before(q, j) /\ MadeFor(conduits[i], q, j)
    BY DEF Traced
  <2>3. q \in 1 .. Len(fdl) /\ j \in 1 .. Size(q) /\ Typical(q) /\ Sided(q) /\ FmtAt(q).io \in {"in", "out"}
    <3> HIDE DEF q, j
    <3>1. QED
      BY <2>2, MakerIs DEF Makes
  <2>4. OutOf(q, j, g, o)
    <3> HIDE DEF q, j
    <3>1. QED
      BY <2>1, <2>2, MadeOut
  <2>5. q < p
    <3>1. j \in Int /\ j >= 1
      BY <2>3
    <3> HIDE DEF q, j
    <3>2. QED
      BY <2>2, <3>1 DEF Before
  <2> HIDE DEF q, j
  <2>6. g.name[1] = f.name[1]
    BY <2>1
  <2>7. Known(o) /\ o.name[1] = f.name[1]
    BY <2>3, <2>4, <2>6, PlaceIs DEF OutOf
  <2>8. o.kind = f.kind
    BY <1>1, <1>2, <2>7, KnownIs
  <2>9. FmtAt(q).kind = f.kind
    BY <2>4, <2>8 DEF OutOf
  <2>10. FmtAt(q).io # "out"
    <3>1. q # p
      BY <1>1, <2>5
    <3>2. \A m, n \in 1 .. Len(fdl) : Typical(m) /\ FmtAt(m).kind = FmtAt(n).kind /\ FmtAt(m).io = FmtAt(n).io => m = n
      BY <1>1 DEF Placings
    <3>3. QED
      BY <2>3, <2>9, <3>1, <3>2
  <2>11. QED
    BY <2>3, <2>9, <2>10 DEF HasInput
<1>5. ASSUME HasInput(p), ~(f.array /\ Len(ListAt(p)) < 1)
      PROVE  HasConduit(f)
  <2>1. PICK q \in 1 .. Len(fdl) : FmtAt(q).kind = f.kind /\ FmtAt(q).io = "in"
    BY <1>5 DEF HasInput
  <2>2. Typical(q) /\ q < p /\ ~Skipped(q) /\ Sided(q)
    <3>1. Typical(q) /\ q < p
      BY <1>1, <2>1 DEF Typical, Placings
    <3>2. QED
      BY <2>1, <3>1, PlaceIs DEF Skipped, Typical
  <2>3. OutAt(q) = FdAt(p) /\ OutAt(q) # Nil /\ InAt(q) # Nil
    BY <2>1, <2>2 DEF Sided
  <2>4. FmtAt(q).array = f.array /\ ListAt(q) = ListAt(p)
    <3>1. FmtAt(q).kind # "record"
      BY <2>2 DEF Typical
    <3>2. FmtAt(q).array = f.array
      BY <2>2, <2>3, <3>1 DEF Mates, FmtAt
    <3>3. QED
      BY <1>3, <2>3, <3>2 DEF ListAt
  <2>5. 1 \in 1 .. Size(q)
    <3>1. CASE f.array
      <4>1. Size(q) = Len(ListAt(p))
        BY <2>2, <2>4, <3>1 DEF Size
      <4>2. Len(ListAt(p)) \in Nat
        BY <1>1, <1>3 DEF ListAt, VarsOf, Described, FmtAt
      <4>3. QED
        BY <1>5, <3>1, <4>1, <4>2
    <3>2. CASE ~f.array
      BY <2>2, <2>4, <3>2 DEF Size
    <3>3. QED
      BY <3>1, <3>2
  <2>6. Before(q, 1)
    BY <2>2 DEF Before
  <2>7. PICK i \in DOMAIN conduits : from[i][1] = q /\ from[i][2] = 1
    BY <2>5, <2>6 DEF Traced
  <2>8. Makes(q, 1) /\ MadeFor(conduits[i], q, 1)
    BY <2>7 DEF Traced
  <2>9. conduits[i].out # Nil
    BY <2>3, <2>8 DEF MadeFor
  <2>10. OutOf(q, 1, fds[conduits[i].out.fd].fmt, fds[OutAt(q)].fmt)
    BY <2>8, <2>9, MadeOut
  <2>11. fds[OutAt(q)].fmt = f
    BY <2>3 DEF FmtAt
  <2>12. QED
    BY <2>4, <2>9, <2>10, <2>11 DEF OutOf, HasConduit
<1>6. QED
  BY <1>4, <1>5

-----------------------------------------------------------------------------
(* The steps that make conduits *)

\* While conduits are made, the list is known.
LEMMA ListKnown ==
  ASSUME CInv, NilIsNothing, FormatsAreNamed, stage \in {"connect", "free"}
  PROVE  Known0 /\ Placings /\ Connecting
<1>1. SInv /\ Sourced /\ InTurn /\ Connecting
  BY DEF CInv, Filling
<1>2. Held /\ job \in Jobs
  <2>1. \A d \in Range(fdl) : d \in DOMAIN fds /\ d \in Nat /\ IsFormat(fds[d].fmt)
    BY <1>1 DEF SInv, Owned, InMemory
  <2>2. QED
    BY <1>1, <2>1 DEF Held, SInv, Listed, Staged, NilIsNothing
<1>3. Placings
  BY <1>1, <1>2, PlacesAre
<1>4. QED
  BY <1>1, <1>2, <1>3 DEF Known0

\* More FORMAT_DATAs change none that are there.
LEMMA MemoryGrows ==
  ASSUME SInv, UNCHANGED <<job, fdl>>, \A d \in DOMAIN fds : fds'[d] = fds[d]
  PROVE  Steady /\ EndsKept
<1>1. Range(fdl) \subseteq DOMAIN fds
  BY DEF SInv, Owned
<1>2. Steady
  BY <1>1 DEF Steady
<1>3. ASSUME NEW i \in DOMAIN conduits
      PROVE  /\ conduits[i].in # Nil => fds'[conduits[i].in.fd] = fds[conduits[i].in.fd]
             /\ conduits[i].out # Nil => fds'[conduits[i].out.fd] = fds[conduits[i].out.fd]
  <2>1. Ends(conduits[i]) \subseteq FdsOf(conduits)
    BY FdsOfAre
  <2>2. Ends(conduits[i]) \subseteq DOMAIN fds
    BY <2>1 DEF SInv, Owned
  <2>3. QED
    BY <2>2 DEF Ends
<1>4. QED
  BY <1>2, <1>3 DEF EndsKept

\* The formats are still of the files.
LEMMA StillSourced ==
  ASSUME Steady, flist' = flist, Sourced
  PROVE  Sourced'
<1>1. job' = job /\ fdl' = fdl /\ \A d \in Range(fdl) : fds'[d] = fds[d]
  BY DEF Steady
<1>2. \A i \in DOMAIN flist : Known(flist[i])'
  BY <1>1 DEF Sourced, Known, ForIts, Encoding, Formats
<1>3. \A d \in Range(fdl) : Known(fds[d].fmt)'
  <2> TAKE d \in Range(fdl)
  <2>1. Known(fds[d].fmt)
    BY DEF Sourced
  <2>2. fds'[d] = fds[d]
    BY <1>1
  <2>3. QED
    BY <1>1, <2>1, <2>2 DEF Known, ForIts, Encoding, Formats
<1>4. QED
  BY <1>1, <1>2, <1>3 DEF Sourced

\* The list is still in the order of the stages.
LEMMA StillInTurn ==
  ASSUME Steady, InTurn, Turn(stage)' = Turn(stage)
  PROVE  InTurn'
<1>1. fdl' = fdl /\ \A d \in Range(fdl) : fds'[d] = fds[d]
  BY DEF Steady
<1>2. \A i \in DOMAIN fdl : fds'[fdl[i]] = fds[fdl[i]]
  BY <1>1 DEF Range
<1>3. \A i \in DOMAIN fdl : Typed(i)' = Typed(i)
  BY <1>1, <1>2 DEF Typed
<1>4. QED
  BY <1>1, <1>2, <1>3 DEF InTurn, Slot

\* A step among these keeps the invariant, if it traces its conduits.
LEMMA ConnectStep ==
  ASSUME CInv, NilIsNothing, FormatsAreNamed, stage = "connect", stage' \in {"connect", "free"},
         stage' = "free" => at'.fd > Len(fdl),
         SInv', UNCHANGED <<job, flist, fdl>>, \A d \in DOMAIN fds : fds'[d] = fds[d],
         at'.var \in Nat \ {0}, at'.var > 1 => Halfway',
         \A p \in 1 .. Len(fdl) : p < at'.fd => Mates(p),
         \E from : Traced(from)'
  PROVE  CInv'
<1>1. Known0 /\ Placings /\ SInv
  BY ListKnown DEF CInv
<1>2. Steady /\ EndsKept
  BY <1>1, MemoryGrows
<1>3. Sourced'
  BY <1>1, <1>2, StillSourced DEF Known0
<1>4. Turn(stage)' = Turn(stage)
  BY DEF Turn
<1>5. InTurn'
  BY <1>1, <1>2, <1>4, StillInTurn DEF Known0
<1>6. /\ Len(fdl)' = Len(fdl)
      /\ \A p \in 1 .. Len(fdl) : Mates(p)' = Mates(p)
  BY <1>1, <1>2, PlacesSame DEF Known0
<1>7. Connecting'
  BY <1>6 DEF Connecting
<1>8. QED
  BY <1>3, <1>5, <1>6, <1>7 DEF CInv, Filling

\* What the steps call by other names
LEMMA PlaceInHand ==
  ASSUME Known0, NEW p \in 1 .. Len(fdl), at.fd = p
  PROVE  /\ Fd = FdAt(p) /\ fds[Fd].fmt = FmtAt(p) /\ InFd = InAt(p) /\ OutFd = OutAt(p)
         /\ Typical(p) => (Matching <=> Mates(p))
<1>1. Fd = FdAt(p)
  BY DEF Fd, FdAt
<1>2. fds[Fd].fmt = FmtAt(p)
  BY <1>1 DEF FmtAt
<1>3. InFd = InAt(p) /\ OutFd = OutAt(p)
  BY <1>1, <1>2 DEF InFd, OutFd, InAt, OutAt
<1>4. InAt(p) # Nil => fds[InAt(p)].fmt = FmtAt(p)
  BY DEF InAt, FmtAt
<1>5. Typical(p) => (Matching <=> Mates(p))
  BY <1>3, <1>4 DEF Matching, Mates, Typical
<1>6. QED
  BY <1>1, <1>2, <1>3, <1>5

\* What is passed by makes nothing, and what is due makes what it is to make.
LEMMA PassedByIs ==
  ASSUME CInv, NilIsNothing, FormatsAreNamed, PassedBy
  PROVE  at.fd \in 1 .. Len(fdl) /\ Skipped(at.fd)
<1>1. stage = "connect" /\ at.fd <= Len(fdl) /\ (fds[Fd].fmt.kind = "record" \/ Paired(fds[Fd].fmt))
  BY DEF PassedBy
<1>2. Known0 /\ Placings /\ Connecting
  BY <1>1, ListKnown
<1>3. at.fd \in 1 .. Len(fdl)
  BY <1>1, <1>2 DEF CInv, SInv, Staged, Placings
<1>4. SUFFICES ASSUME NEW p \in 1 .. Len(fdl), at.fd = p
               PROVE  Skipped(p)
  BY <1>3
<1>5. fds[Fd].fmt = FmtAt(p)
  BY <1>2, <1>4, PlaceInHand
<1>6. CASE FmtAt(p).kind = "record"
  BY <1>6 DEF Skipped
<1>7. CASE FmtAt(p).kind # "record" /\ Paired(FmtAt(p))
  <2>1. Typical(p) /\ FmtAt(p).io = "out" /\ at.var = 1 /\ HasConduit(FmtAt(p))
    BY <1>7 DEF Typical, Paired
  <2>2. PICK from : Traced(from)
    BY <1>2 DEF Connecting
  <2>3. \A q \in 1 .. Len(fdl) : q < p => Mates(q)
    BY <1>2, <1>4 DEF Connecting
  <2>4. HasInput(p)
    BY <1>2, <1>4, <2>1, <2>2, <2>3, PairedIs
  <2>5. QED
    BY <2>1, <2>4 DEF Skipped
<1>8. QED
  BY <1>1, <1>5, <1>6, <1>7

\* What is due makes something, unless it is an output array without variables.
LEMMA DueIs ==
  ASSUME CInv, NilIsNothing, FormatsAreNamed, Due
  PROVE  /\ at.fd \in 1 .. Len(fdl) /\ Typical(at.fd)
         /\ Skipped(at.fd) => at.var = 1 /\ FmtAt(at.fd).array /\ Len(ListAt(at.fd)) < 1
<1>1. stage = "connect" /\ at.fd <= Len(fdl) /\ fds[Fd].fmt.kind # "record" /\ ~Paired(fds[Fd].fmt)
  BY DEF Due
<1>2. Known0 /\ Placings /\ Connecting
  BY <1>1, ListKnown
<1>3. at.fd \in 1 .. Len(fdl)
  BY <1>1, <1>2 DEF CInv, SInv, Staged, Placings
<1>4. SUFFICES ASSUME NEW p \in 1 .. Len(fdl), at.fd = p
               PROVE  /\ Typical(p)
                      /\ Skipped(p) => at.var = 1 /\ FmtAt(p).array /\ Len(ListAt(p)) < 1
  BY <1>3
<1>5. fds[Fd].fmt = FmtAt(p)
  BY <1>2, <1>4, PlaceInHand
<1>6. Typical(p)
  BY <1>1, <1>5 DEF Typical
<1>7. ASSUME Skipped(p)
      PROVE  at.var = 1 /\ FmtAt(p).array /\ Len(ListAt(p)) < 1
  <2>1. FmtAt(p).io = "out" /\ HasInput(p)
    BY <1>6, <1>7 DEF Skipped, Typical
  <2>2. at.var = 1
    BY <1>2, <1>4, <1>7 DEF Connecting, Halfway
  <2>3. ~HasConduit(FmtAt(p))
    BY <1>1, <1>5, <2>1, <2>2 DEF Paired
  <2>4. PICK from : Traced(from)
    BY <1>2 DEF Connecting
  <2>5. \A q \in 1 .. Len(fdl) : q < p => Mates(q)
    BY <1>2, <1>4 DEF Connecting
  <2>6. HasInput(p) => HasConduit(FmtAt(p)) \/ (FmtAt(p).array /\ Len(ListAt(p)) < 1)
    BY <1>2, <1>4, <1>6, <2>1, <2>2, <2>4, <2>5, PairedIs
  <2>7. QED
    BY <2>1, <2>2, <2>3, <2>6
<1>8. QED
  BY <1>6, <1>7

\* A place that is gone on from has made what it makes.
LEMMA AdvanceKept ==
  ASSUME CInv, NilIsNothing, FormatsAreNamed, SInv', stage = "connect", at.fd \in 1 .. Len(fdl),
         UNCHANGED <<job, flist, fdl, fds, conduits, stage>>, at' = Advance, Mates(at.fd),
         \A j \in 1 .. Size(at.fd) : j < at.var
  PROVE  CInv'
<1>1. Known0 /\ Placings /\ Connecting
  BY ListKnown
<1>2. SUFFICES ASSUME NEW p \in 1 .. Len(fdl), at.fd = p, at'.fd = p + 1, at'.var = 1,
                      Mates(p), \A j \in 1 .. Size(p) : j < at.var
               PROVE  CInv'
  <2>1. at' = [fd |-> at.fd + 1, var |-> 1]
    BY DEF Advance
  <2>2. at'.fd = at.fd + 1 /\ at'.var = 1
    BY <2>1
  <2>3. QED
    BY <2>2
<1>3. PICK from : Traced(from)
  BY <1>1 DEF Connecting
<1>4. Steady /\ EndsKept
  BY MemoryGrows DEF CInv
<1>5. \A q \in 1 .. Len(fdl) : \A j \in 1 .. Size(q) : Before(q, j)' <=> Before(q, j)
  <2> TAKE q \in 1 .. Len(fdl)
  <2> TAKE j \in 1 .. Size(q)
  <2>1. Before(q, j)' <=> q < p + 1 \/ (q = p + 1 /\ j < 1)
    BY <1>2 DEF Before
  <2>2. Before(q, j) <=> q < p \/ (q = p /\ j < at.var)
    BY <1>2 DEF Before
  <2>3. q = p => j < at.var
    BY <1>2
  <2>4. j \in Int /\ j >= 1 /\ q \in Int /\ p \in Int
    OBVIOUS
  <2>5. QED
    BY <2>1, <2>2, <2>3, <2>4
<1>6. Traced(from)'
  BY <1>1, <1>3, <1>4, <1>5, TracedSame DEF Known0
<1>7. \A q \in 1 .. Len(fdl) : q < at'.fd => Mates(q)
  <2> TAKE q \in 1 .. Len(fdl)
  <2> HAVE q < at'.fd
  <2>1. q < p \/ q = p
    BY <1>2
  <2>2. QED
    BY <1>1, <1>2, <2>1 DEF Connecting
<1>8. QED
  BY <1>2, <1>6, <1>7, ConnectStep

\* A place that is passed by makes nothing.
LEMMA PassedByConnected ==
  ASSUME CInv, NilIsNothing, FormatsAreNamed, SInv', PassedBy
  PROVE  CInv'
<1>1. at.fd \in 1 .. Len(fdl) /\ Skipped(at.fd)
  BY PassedByIs
<1>2. /\ stage = "connect" /\ at' = Advance
      /\ UNCHANGED <<job, flist, fdl, fds, usage, conduits, stage, made, lost>>
  BY DEF PassedBy
<1>3. \A j \in 1 .. Size(at.fd) : j < at.var
  BY <1>1 DEF Size
<1>4. Mates(at.fd)
  BY <1>1 DEF Skipped, Mates, InAt
<1>5. QED
  BY <1>1, <1>2, <1>3, <1>4, AdvanceKept

\* A conduit more is traced to the place, or the variable, that was due.
LEMMA ConduitMade ==
  ASSUME CInv, NilIsNothing, FormatsAreNamed, SInv', stage = "connect",
         UNCHANGED <<job, flist, fdl, stage>>, \A d \in DOMAIN fds : fds'[d] = fds[d],
         NEW p0 \in 1 .. Len(fdl), NEW j0 \in 1 .. Size(p0), at.fd = p0, at.var = j0, Mates(p0),
         NEW c, conduits' = Append(conduits, c), MadeFor(c, p0, j0)',
         \/ at'.fd = p0 + 1 /\ at'.var = 1 /\ Size(p0) = 1
         \/ at'.fd = p0 /\ at'.var = j0 + 1 /\ ~Skipped(p0) /\ FmtAt(p0).array
  PROVE  CInv'
<1> DEFINE n == Len(conduits)
           S == Range(conduits) \cup {c}
<1>1. Known0 /\ Placings /\ Connecting /\ SInv /\ Held
  BY ListKnown DEF CInv, Known0
<1>2. Steady /\ EndsKept
  BY <1>1, MemoryGrows
<1>3. /\ n \in Nat /\ DOMAIN conduits = 1 .. n /\ DOMAIN conduits' = 1 .. n + 1
      /\ \A i \in 1 .. n : conduits'[i] = conduits[i]
      /\ conduits'[n + 1] = c
  <2>1. conduits \in Seq(Range(conduits))
    BY <1>1 DEF SInv, Listed
  <2>2. conduits \in Seq(S) /\ c \in S
    <3>1. Len(conduits) \in Nat /\ conduits \in [1 .. Len(conduits) -> S] /\ c \in S
      BY <2>1
    <3> HIDE DEF S
    <3>2. QED
      BY <3>1
  <2> HIDE DEF S
  <2>3. QED
    BY <2>2
<1>4. PICK from : Traced(from)
  BY <1>1 DEF Connecting
<1>5. ~Before(p0, j0)
  BY DEF Before
<1>6. \A p \in 1 .. Len(fdl) : \A j \in 1 .. Size(p) :
         Before(p, j)' <=> Before(p, j) \/ (p = p0 /\ j = j0)
  <2> TAKE p \in 1 .. Len(fdl)
  <2> TAKE j \in 1 .. Size(p)
  <2>1. j \in Int /\ j >= 1 /\ p \in Int /\ p0 \in Int /\ j0 \in Int
    OBVIOUS
  <2>2. Before(p, j) <=> p < p0 \/ (p = p0 /\ j < j0)
    BY DEF Before
  <2>3. Before(p, j)' <=> p < at'.fd \/ (p = at'.fd /\ j < at'.var)
    BY DEF Before
  <2>4. CASE at'.fd = p0 + 1 /\ at'.var = 1 /\ Size(p0) = 1
    <3>1. p = p0 => j = j0
      BY <2>4
    <3>2. QED
      BY <2>1, <2>2, <2>3, <2>4, <3>1
  <2>5. CASE at'.fd = p0 /\ at'.var = j0 + 1
    BY <2>1, <2>2, <2>3, <2>5
  <2>6. QED
    BY <2>4, <2>5
<1> HIDE DEF n, S
<1>7. \E from1 : Traced(from1)'
  BY <1>1, <1>2, <1>3, <1>4, <1>5, <1>6, TracedMore
<1>8. Len(fdl)' = Len(fdl) /\ Skipped(p0)' = Skipped(p0) /\ FmtAt(p0)' = FmtAt(p0)
  BY <1>1, <1>2, PlacesSame
<1>9. at'.var \in Nat \ {0} /\ (at'.var > 1 => Halfway')
  <2>1. at'.var \in Nat \ {0}
    OBVIOUS
  <2>2. ASSUME at'.fd = p0, ~Skipped(p0), FmtAt(p0).array
        PROVE  Halfway'
    <3>1. at'.fd <= Len(fdl)'
      BY <1>8, <2>2
    <3>2. ~Skipped(at.fd)'
      BY <1>2, <1>8, <2>2 DEF Skipped, HasInput
    <3>3. FmtAt(at.fd)'.array
      BY <1>8, <2>2 DEF FmtAt, FdAt
    <3>4. QED
      BY <3>1, <3>2, <3>3 DEF Halfway
  <2>3. QED
    BY <2>1, <2>2
<1>10. \A p \in 1 .. Len(fdl) : p < at'.fd => Mates(p)
  <2> TAKE p \in 1 .. Len(fdl)
  <2> HAVE p < at'.fd
  <2>1. p < p0 \/ p = p0
    OBVIOUS
  <2>2. QED
    BY <1>1, <2>1 DEF Connecting
<1>11. QED
  BY <1>1, <1>7, <1>9, <1>10, ConnectStep

\* What is told of the poles stays so.
LEMMA ToldKept ==
  ASSUME PolesTold, EndsKept, job' = job, conduits' = conduits
  PROVE  PolesTold'
<1>1. ASSUME NEW i \in DOMAIN conduits
      PROVE  /\ conduits[i].in # Nil => Told(fds[conduits[i].in.fd].fmt)'
             /\ conduits[i].out # Nil => Told(fds[conduits[i].out.fd].fmt)' /\ fds'[conduits[i].out.fd].fmt.io = "out"
  BY DEF PolesTold, EndsKept, Told, ForIts, Formats, Encoding
<1>2. QED
  BY <1>1 DEF PolesTold

\* The conduit of a variable, if its poles have what was spawned
LEMMA ArrayMade ==
  ASSUME Held, Placings, Steady, NEW p \in 1 .. Len(fdl), NEW j, FmtAt(p).array, NEW c,
         c.in = Nil <=> InVarAt(p, j) = Nil,
         c.out = Nil <=> OutAt(p) = Nil,
         c.in # Nil => LET f == Spawned(FmtAt(p), InVarAt(p, j))
                           v == ListAt(p)[j]
                       IN  fds'[c.in.fd].fmt = AsPlaced(f, v) /\ c.in.offset = Offset(InVarAt(p, j), f, v, job.inFile),
         c.out # Nil => LET v == ListAt(p)[j]
                            f == Spawned(fds[OutAt(p)].fmt, v)
                        IN  fds'[c.out.fd].fmt = AsPlaced(f, v) /\ c.out.offset = Offset(v, f, v, job.outFile)
  PROVE  MadeFor(c, p, j)'
<1>1. /\ FmtAt(p)' = FmtAt(p) /\ InAt(p)' = InAt(p) /\ OutAt(p)' = OutAt(p)
      /\ OutAt(p) # Nil => fds'[OutAt(p)] = fds[OutAt(p)]
      /\ ListAt(p)' = ListAt(p) /\ InVarAt(p, j)' = InVarAt(p, j)
  BY PlacesSame
<1>2. job' = job
  BY DEF Steady
<1>3. \A v, f : Spawned(f, v)' = Spawned(f, v)
  BY VariablesSame
<1>4. \A v, f : AsPlaced(f, v)' = AsPlaced(f, v)
  BY VariablesSame
<1>5. \A v, x, f, file : Offset(x, f, v, file)' = Offset(x, f, v, file)
  BY VariablesSame
<1> DEFINE x == InVarAt(p, j)
           v == ListAt(p)[j]
           f == FmtAt(p)
           g == fds[OutAt(p)].fmt
<1>6. /\ AsPlaced(Spawned(f, x), v)' = AsPlaced(Spawned(f, x), v)
      /\ Offset(x, Spawned(f, x), v, job.inFile)' = Offset(x, Spawned(f, x), v, job.inFile)
  BY <1>1, <1>2, <1>3, <1>4, <1>5
<1>7. OutAt(p) # Nil =>
      /\ AsPlaced(Spawned(g, v), v)' = AsPlaced(Spawned(g, v), v)
      /\ Offset(v, Spawned(g, v), v, job.outFile)' = Offset(v, Spawned(g, v), v, job.outFile)
  BY <1>1, <1>2, <1>3, <1>4, <1>5
<1>8. QED
  BY <1>1, <1>2, <1>6, <1>7 DEF MadeFor, ArrayPole

\* A table's conduit has copies of its formats.
LEMMA MakeTabularConnected ==
  ASSUME CInv, NilIsNothing, FormatsAreNamed, SInv', MakeTabular
  PROVE  CInv'
<1> DEFINE ins == IF InFd = Nil THEN <<>> ELSE <<InFd>>
           sides == IF OutFd = Nil THEN ins ELSE Append(ins, OutFd)
           N == made + 1 .. made + Len(sides)
           in1 == IF InFd = Nil THEN Nil ELSE Pole(made + 1, 0)
           out1 == IF OutFd = Nil THEN Nil ELSE Pole(made + Len(sides), 0)
<1>1. /\ Due /\ Matching /\ ~fds[Fd].fmt.array /\ stage = "connect"
      /\ fds' = [d \in DOMAIN fds \cup N |-> IF d \in DOMAIN fds THEN fds[d] ELSE fds[sides[d - made]]]
      /\ conduits' = Append(conduits, [in |-> in1, out |-> out1])
      /\ at' = Advance
      /\ UNCHANGED <<job, flist, fdl, stage>>
  BY DEF MakeTabular, Due
<1>2. Known0 /\ Placings /\ Connecting /\ SInv /\ Held
  BY <1>1, ListKnown DEF CInv, Known0
<1>3. at.fd \in 1 .. Len(fdl) /\ Typical(at.fd)
      /\ (Skipped(at.fd) => FmtAt(at.fd).array)
  BY <1>1, DueIs
<1>4. SUFFICES ASSUME NEW p \in 1 .. Len(fdl), at.fd = p
               PROVE  CInv'
  BY <1>3
<1>5. /\ fds[Fd].fmt = FmtAt(p) /\ InFd = InAt(p) /\ OutFd = OutAt(p)
      /\ Mates(p) /\ ~FmtAt(p).array /\ ~Skipped(p) /\ Sided(p)
  BY <1>1, <1>2, <1>3, <1>4, PlaceInHand, PlaceIs
<1>6. Size(p) = 1 /\ at.var = 1
  BY <1>2, <1>4, <1>5 DEF Size, Connecting, Halfway
<1>7. at'.fd = p + 1 /\ at'.var = 1
  <2>1. at' = [fd |-> at.fd + 1, var |-> 1]
    BY <1>1 DEF Advance
  <2>2. QED
    BY <1>4, <2>1
<1>8. made \in Nat /\ made + 1 \notin DOMAIN fds /\ made + 2 \notin DOMAIN fds
  BY <1>2 DEF SInv, InMemory
<1>9. \A d \in DOMAIN fds : fds'[d] = fds[d]
  BY <1>1
<1>10. /\ InFd # Nil => fds'[made + 1] = fds[InFd]
       /\ OutFd # Nil => fds'[made + Len(sides)] = fds[OutFd]
       /\ \A d, o : Pole(d, o) # Nil /\ Pole(d, o).fd = d
  <2>1. \A d, o : Pole(d, o) # Nil /\ Pole(d, o).fd = d
    BY PoleIs DEF NilIsNothing
  <2>2. CASE InFd # Nil /\ OutFd = Nil
    <3>1. Len(sides) = 1 /\ sides[1] = InFd
      BY <2>2
    <3>2. N = {made + 1} /\ (made + 1) - made = 1
      BY <1>8, <3>1
    <3> HIDE DEF sides, N
    <3>3. QED
      BY <1>1, <1>8, <2>1, <2>2, <3>1, <3>2
  <2>3. CASE InFd = Nil /\ OutFd # Nil
    <3>1. Len(sides) = 1 /\ sides[1] = OutFd
      BY <2>3
    <3>2. N = {made + 1} /\ (made + 1) - made = 1
      BY <1>8, <3>1
    <3> HIDE DEF sides, N
    <3>3. QED
      BY <1>1, <1>8, <2>1, <2>3, <3>1, <3>2
  <2>4. CASE InFd # Nil /\ OutFd # Nil
    <3>1. Len(sides) = 2 /\ sides[1] = InFd /\ sides[2] = OutFd
      BY <2>4
    <3>2. N = {made + 1, made + 2} /\ (made + 1) - made = 1 /\ (made + 2) - made = 2
      BY <1>8, <3>1
    <3> HIDE DEF sides, N
    <3>3. QED
      BY <1>1, <1>8, <2>1, <2>4, <3>1, <3>2
  <2>5. QED
    BY <2>1, <2>2, <2>3, <2>4
<1>11. PICK c : c = [in |-> in1, out |-> out1] /\ conduits' = Append(conduits, c)
  BY <1>1
<1>12. c.in = in1 /\ c.out = out1
  BY <1>11
<1> HIDE DEF sides, N
<1>13. /\ c.in = Nil <=> InAt(p) = Nil
       /\ c.out = Nil <=> OutAt(p) = Nil
       /\ c.in # Nil => fds'[c.in.fd].fmt = FmtAt(p)
       /\ c.out # Nil => fds'[c.out.fd].fmt = fds[OutAt(p)].fmt
  <2>1. InAt(p) # Nil => fds[InAt(p)].fmt = FmtAt(p)
    BY DEF InAt, FmtAt
  <2>2. QED
    BY <1>5, <1>10, <1>12, <2>1
<1>14. Steady
  BY <1>1, <1>2, <1>9, MemoryGrows
<1>15. /\ FmtAt(p)' = FmtAt(p) /\ InAt(p)' = InAt(p) /\ OutAt(p)' = OutAt(p)
       /\ OutAt(p) # Nil => fds'[OutAt(p)] = fds[OutAt(p)]
  BY <1>2, <1>14, PlacesSame
<1>16. MadeFor(c, p, 1)'
  BY <1>5, <1>13, <1>15 DEF MadeFor, TablePole
<1>17. 1 \in 1 .. Size(p)
  BY <1>6
<1>18. QED
  BY <1>1, <1>4, <1>5, <1>6, <1>7, <1>9, <1>11, <1>16, <1>17, ConduitMade

\* A variable's conduit has the arrays that were spawned for it.
LEMMA SpawnVarConnected ==
  ASSUME CInv, NilIsNothing, FormatsAreNamed, SInv', SpawnVar
  PROVE  CInv'
<1> DEFINE vlist == VarsOf(IF OutFd = Nil THEN Fd ELSE OutFd)
           v == vlist[at.var]
           inVar == IF OutFd = Nil THEN v ELSE Named(fds[Fd].fmt, v)
           ins == IF inVar = Nil THEN <<>> ELSE <<Spawned(fds[Fd].fmt, inVar)>>
           outs == IF OutFd = Nil THEN <<>> ELSE <<Spawned(fds[OutFd].fmt, v)>>
           f1 == AsPlaced(ins[1], v)
           f2 == AsPlaced(outs[1], v)
           a == IF ins = <<>> THEN fds ELSE WithNew(fds, made + 1, f1)
           last == made + Len(ins) + Len(outs)
           in1 == IF ins = <<>> THEN Nil ELSE Pole(made + 1, Offset(inVar, ins[1], v, job.inFile))
           out1 == IF outs = <<>> THEN Nil ELSE Pole(last, Offset(v, outs[1], v, job.outFile))
           half == v.array /\ inVar # Nil /\ ~Refused(inVar)
           Done == at.var > Len(vlist) /\ at' = Advance /\ UNCHANGED <<fds, usage, conduits, stage, made, lost>>
           Stop == /\ stage' = "failing"
                   /\ half => fds' = WithNew(fds, made + 1, ins[1])
                   /\ ~half => UNCHANGED fds
                   /\ UNCHANGED <<conduits, at>>
           Make == /\ ~(at.var > Len(vlist))
                   /\ fds' = IF outs = <<>> THEN a ELSE WithNew(a, last, f2)
                   /\ conduits' = Append(conduits, [in |-> in1, out |-> out1])
                   /\ at' = [at EXCEPT !.var = @ + 1]
                   /\ UNCHANGED stage
<1>1. /\ Due /\ Matching /\ fds[Fd].fmt.array /\ stage = "connect"
      /\ UNCHANGED <<job, flist, fdl>>
  BY DEF SpawnVar, Due
<1>2. Done \/ Stop \/ Make
  BY ZenonT(60) DEF SpawnVar
<1>3. Known0 /\ Placings /\ Connecting /\ SInv /\ Held
  BY <1>1, ListKnown DEF CInv, Known0
<1>4. at.fd \in 1 .. Len(fdl) /\ Typical(at.fd)
      /\ (Skipped(at.fd) => at.var = 1 /\ Len(ListAt(at.fd)) < 1)
  BY <1>1, DueIs
<1>5. SUFFICES ASSUME NEW p \in 1 .. Len(fdl), at.fd = p
               PROVE  CInv'
  BY <1>4
<1>6. /\ Fd = FdAt(p) /\ fds[Fd].fmt = FmtAt(p) /\ InFd = InAt(p) /\ OutFd = OutAt(p)
      /\ Mates(p) /\ FmtAt(p).array /\ Sided(p)
  BY <1>1, <1>3, <1>4, <1>5, PlaceInHand, PlaceIs
<1>7. vlist = ListAt(p) /\ inVar = InVarAt(p, at.var)
  BY <1>6 DEF ListAt, InVarAt
<1>8. at.var \in Nat \ {0} /\ Len(ListAt(p)) \in Nat /\ made \in Nat /\ made + 1 \notin DOMAIN fds /\ made + 2 \notin DOMAIN fds
  <2>1. Described(FmtAt(p)) /\ (OutAt(p) # Nil => Described(fds[OutAt(p)].fmt))
    BY <1>3, PlaceIs
  <2>2. Len(ListAt(p)) \in Nat
    BY <2>1 DEF ListAt, VarsOf, Described, FmtAt
  <2>3. QED
    BY <1>3, <2>2 DEF SInv, InMemory, Connecting
<1>9. \A d, o : Pole(d, o) # Nil /\ Pole(d, o).fd = d /\ Pole(d, o).offset = o
  <2>1. \A d, o : Pole(d, o).offset = o
    BY DEF Pole
  <2>2. QED
    BY <2>1, PoleIs DEF NilIsNothing
<1>10. ASSUME NEW g
       PROVE  <<g>> # <<>> /\ Len(<<g>>) = 1 /\ <<g>>[1] = g /\ Len(<<>>) = 0
  OBVIOUS
<1>11. /\ inVar = Nil => ins = <<>> /\ Len(ins) = 0
       /\ inVar # Nil => ins # <<>> /\ Len(ins) = 1 /\ ins[1] = Spawned(FmtAt(p), inVar)
  <2> HIDE DEF inVar, v
  <2>1. QED
    BY <1>6, <1>10
<1>12. /\ OutAt(p) = Nil => outs = <<>> /\ Len(outs) = 0
       /\ OutAt(p) # Nil => outs # <<>> /\ Len(outs) = 1 /\ outs[1] = Spawned(fds[OutAt(p)].fmt, v)
  <2> HIDE DEF v
  <2>1. QED
    BY <1>6, <1>10
<1>13. CASE Done
  <2>1. \A j \in 1 .. Size(at.fd) : j < at.var
    <3>1. at.var > Len(ListAt(p))
      BY <1>7, <1>13
    <3>2. Size(p) = 0 \/ Size(p) = Len(ListAt(p))
      BY <1>6 DEF Size
    <3>3. QED
      BY <1>5, <1>8, <3>1, <3>2
  <2>2. Mates(at.fd)
    BY <1>5, <1>6
  <2>3. UNCHANGED <<fds, conduits, stage>> /\ at' = Advance
    BY <1>13
  <2>4. QED
    BY <1>1, <1>4, <2>1, <2>2, <2>3, AdvanceKept
<1>14. CASE Stop
  <2>1. \A d \in DOMAIN fds : fds'[d] = fds[d]
    <3>1. CASE half
      <4>1. fds' = WithNew(fds, made + 1, ins[1])
        BY <1>14, <3>1
      <4> HIDE DEF ins
      <4>2. QED
        BY <4>1 DEF WithNew
    <3>2. CASE ~half
      BY <1>14, <3>2
    <3>3. QED
      BY <3>1, <3>2
  <2>2. conduits' = conduits /\ stage' = "failing" /\ job' = job
    BY <1>1, <1>14
  <2>3. EndsKept
    BY <1>1, <1>3, <2>1, MemoryGrows
  <2>4. PolesTold
    BY <1>3, TracedTold DEF Connecting
  <2>5. PolesTold'
    BY <2>2, <2>3, <2>4, ToldKept
  <2>6. QED
    BY <2>2, <2>5 DEF CInv, Filling
<1>15. CASE Make
  <2>1. at.var <= Len(ListAt(p)) /\ ~Skipped(p) /\ Size(p) = Len(ListAt(p)) /\ at.var \in 1 .. Size(p)
    <3>1. at.var <= Len(ListAt(p))
      BY <1>7, <1>8, <1>15
    <3>2. ~Skipped(p)
      BY <1>4, <1>5, <1>8, <3>1
    <3>3. Size(p) = Len(ListAt(p))
      BY <1>6, <3>2 DEF Size
    <3>4. QED
      BY <1>8, <3>1, <3>2, <3>3
  <2>2. /\ inVar # Nil => a = WithNew(fds, made + 1, f1)
        /\ inVar = Nil => a = fds
        /\ OutAt(p) # Nil => fds' = WithNew(a, last, f2)
        /\ OutAt(p) = Nil => fds' = a
        /\ last = made + 1 \/ last = made + 2 \/ OutAt(p) = Nil
        /\ inVar # Nil /\ OutAt(p) # Nil => last = made + 2
        /\ in1 = IF inVar = Nil THEN Nil ELSE Pole(made + 1, Offset(inVar, ins[1], v, job.inFile))
        /\ out1 = IF OutAt(p) = Nil THEN Nil ELSE Pole(last, Offset(v, outs[1], v, job.outFile))
    <3> HIDE DEF ins, outs, inVar, v, f1, f2
    <3>1. /\ inVar # Nil => a = WithNew(fds, made + 1, f1)
          /\ inVar = Nil => a = fds
      BY <1>11
    <3>2. /\ OutAt(p) # Nil => fds' = WithNew(a, last, f2)
          /\ OutAt(p) = Nil => fds' = a
      BY <1>12, <1>15
    <3>3. /\ last = made + 1 \/ last = made + 2 \/ OutAt(p) = Nil
          /\ inVar # Nil /\ OutAt(p) # Nil => last = made + 2
      <4>1. /\ inVar = Nil => Len(ins) = 0
            /\ inVar # Nil => Len(ins) = 1
            /\ OutAt(p) # Nil => Len(outs) = 1
        BY <1>11, <1>12
      <4> DEFINE m == Len(ins)
                 n == Len(outs)
      <4>2. last = made + m + n
        OBVIOUS
      <4>3. /\ inVar = Nil => m = 0
            /\ inVar # Nil => m = 1
            /\ OutAt(p) # Nil => n = 1
        BY <4>1
      <4> HIDE DEF m, n, last
      <4>4. CASE OutAt(p) # Nil
        <5>1. n = 1 /\ (m = 0 \/ m = 1)
          BY <4>3, <4>4
        <5>2. last = made + 1 \/ last = made + 2
          BY <1>8, <4>2, <5>1
        <5>3. m = 1 => last = made + 2
          BY <1>8, <4>2, <5>1
        <5>4. QED
          BY <4>3, <5>2, <5>3
      <4>5. QED
        BY <4>4
    <3>4. /\ in1 = IF inVar = Nil THEN Nil ELSE Pole(made + 1, Offset(inVar, ins[1], v, job.inFile))
          /\ out1 = IF OutAt(p) = Nil THEN Nil ELSE Pole(last, Offset(v, outs[1], v, job.outFile))
      BY <1>11, <1>12
    <3>5. QED
      BY <3>1, <3>2, <3>3, <3>4
  <2> HIDE DEF a, last, ins, outs, inVar, v, vlist, f1, f2, in1, out1
  <2>3. /\ DOMAIN fds \subseteq DOMAIN a /\ \A d \in DOMAIN fds : a[d] = fds[d]
        /\ inVar # Nil => a[made + 1] = [fmt |-> f1, buf |-> made + 1] /\ made + 1 \in DOMAIN a
        /\ DOMAIN a \subseteq DOMAIN fds \cup {made + 1} /\ (inVar = Nil => DOMAIN a = DOMAIN fds)
    BY <1>8, <2>2 DEF WithNew
  <2>4. OutAt(p) # Nil => last \notin DOMAIN a
    BY <1>8, <2>2, <2>3
  <2>5. /\ \A d \in DOMAIN a : fds'[d] = a[d]
        /\ OutAt(p) # Nil => fds'[last] = [fmt |-> f2, buf |-> last]
    BY <2>2, <2>4 DEF WithNew
  <2>6. \A d \in DOMAIN fds : fds'[d] = fds[d]
    BY <2>3, <2>5
  <2>7. PICK c : c = [in |-> in1, out |-> out1] /\ conduits' = Append(conduits, c)
    BY <1>15
  <2>8. c.in = in1 /\ c.out = out1
    BY <2>7
  <2>9. /\ c.in = Nil <=> inVar = Nil
        /\ c.out = Nil <=> OutAt(p) = Nil
        /\ c.in # Nil => fds'[c.in.fd].fmt = f1 /\ c.in.offset = Offset(inVar, ins[1], v, job.inFile)
        /\ c.out # Nil => fds'[c.out.fd].fmt = f2 /\ c.out.offset = Offset(v, outs[1], v, job.outFile)
    BY <1>9, <2>2, <2>3, <2>5, <2>8
  <2>10. PICK j : j = at.var
    OBVIOUS
  <2>11. v = ListAt(p)[j] /\ inVar = InVarAt(p, j) /\ j \in 1 .. Size(p)
    BY <1>7, <2>1, <2>10 DEF v
  <2>12. /\ c.in # Nil => f1 = AsPlaced(Spawned(FmtAt(p), inVar), v) /\ ins[1] = Spawned(FmtAt(p), inVar)
         /\ c.out # Nil => f2 = AsPlaced(Spawned(fds[OutAt(p)].fmt, v), v) /\ outs[1] = Spawned(fds[OutAt(p)].fmt, v)
    BY <1>11, <1>12, <2>9 DEF f1, f2
  <2>13. Steady
    BY <1>1, <1>3, <2>6, MemoryGrows
  <2>14. MadeFor(c, p, j)'
    BY <1>3, <1>6, <2>9, <2>11, <2>12, <2>13, ArrayMade
  <2>15. at'.fd = p /\ at'.var = j + 1
    <3>1. at = [fd |-> at.fd, var |-> at.var]
      BY <1>3 DEF SInv, Staged
    <3>2. at' = [at EXCEPT !.var = @ + 1]
      BY <1>15
    <3>3. at' = [fd |-> at.fd, var |-> at.var + 1]
      BY <3>1, <3>2
    <3>4. QED
      BY <1>5, <2>10, <3>3
  <2>16. UNCHANGED <<job, flist, fdl, stage>>
    BY <1>1, <1>15
  <2>17. QED
    BY <1>1, <1>5, <1>6, <2>1, <2>6, <2>7, <2>10, <2>11, <2>14, <2>15, <2>16, ConduitMade
<1>16. QED
  BY <1>2, <1>13, <1>14, <1>15

-----------------------------------------------------------------------------
(* The steps that make no conduit *)

\* A pole that is left is of a format of the files still.
LEMMA ToldLess ==
  ASSUME PolesTold, SInv', job' = job, \A d \in DOMAIN fds' : fds'[d] = fds[d],
         \A k \in DOMAIN conduits' : \E i \in DOMAIN conduits :
             /\ conduits'[k].in \in {conduits[i].in, Nil}
             /\ conduits'[k].out \in {conduits[i].out, Nil}
  PROVE  PolesTold'
<1>1. ASSUME NEW g, Told(g)
      PROVE  Told(g)'
  BY <1>1 DEF Told, ForIts, Formats, Encoding
<1>2. ASSUME NEW k \in DOMAIN conduits'
      PROVE  /\ conduits'[k].in # Nil => Told(fds[conduits[k].in.fd].fmt)'
             /\ conduits'[k].out # Nil => Told(fds[conduits[k].out.fd].fmt)' /\ fds'[conduits'[k].out.fd].fmt.io = "out"
  <2>1. \A d : d \in FdsOf(conduits') <=> \E i \in DOMAIN conduits' : d \in Ends(conduits'[i])
    BY FdsOfAre
  <2>2. FdsOf(conduits') \subseteq DOMAIN fds'
    BY DEF SInv, Owned
  <2>3. \A d \in Ends(conduits'[k]) : fds'[d] = fds[d]
    BY <2>1, <2>2
  <2>4. PICK i \in DOMAIN conduits :
          /\ conduits'[k].in \in {conduits[i].in, Nil}
          /\ conduits'[k].out \in {conduits[i].out, Nil}
    OBVIOUS
  <2>5. ASSUME conduits'[k].in # Nil
        PROVE  Told(fds[conduits[k].in.fd].fmt)'
    <3>1. conduits'[k].in = conduits[i].in /\ fds'[conduits'[k].in.fd] = fds[conduits[i].in.fd]
      BY <2>3, <2>4, <2>5 DEF Ends
    <3>2. PICK g : g = fds[conduits[i].in.fd].fmt
      OBVIOUS
    <3>3. Told(g)
      BY <2>5, <3>1, <3>2 DEF PolesTold
    <3>4. Told(g)' /\ g = fds'[conduits'[k].in.fd].fmt
      BY <1>1, <3>1, <3>2, <3>3
    <3>5. QED
      BY <3>4 DEF Told, ForIts
  <2>6. ASSUME conduits'[k].out # Nil
        PROVE  Told(fds[conduits[k].out.fd].fmt)' /\ fds'[conduits'[k].out.fd].fmt.io = "out"
    <3>1. conduits'[k].out = conduits[i].out /\ fds'[conduits'[k].out.fd] = fds[conduits[i].out.fd]
      BY <2>3, <2>4, <2>6 DEF Ends
    <3>2. PICK g : g = fds[conduits[i].out.fd].fmt
      OBVIOUS
    <3>3. Told(g) /\ g.io = "out"
      BY <2>6, <3>1, <3>2 DEF PolesTold
    <3>4. Told(g)' /\ g = fds'[conduits'[k].out.fd].fmt
      BY <1>1, <3>1, <3>2, <3>3
    <3>5. QED
      BY <3>3, <3>4 DEF Told, ForIts
  <2>7. QED
    BY <2>5, <2>6
<1>3. QED
  BY <1>2 DEF PolesTold

\* After the conduits are made, only what is told of their poles matters.
LEMMA RestConnected ==
  ASSUME CInv, NilIsNothing, FormatsAreNamed, SInv',
         Mismatch \/ AllConnected \/ FreeList \/ FreeAll \/ Merge \/ DropHeader \/ Destroy \/ UNCHANGED vars
  PROVE  CInv'
<1>1. SInv
  BY DEF CInv
<1>2. CASE Mismatch
  <2>1. /\ stage = "connect" /\ stage' = "failing"
        /\ UNCHANGED <<job, flist, fdl, fds, usage, conduits, at, made, lost>>
    BY <1>2 DEF Mismatch, Due
  <2>2. PolesTold
    BY <2>1, ListKnown, TracedTold DEF Connecting
  <2>3. PolesTold'
    BY <2>1, <2>2, ToldKept DEF EndsKept
  <2>4. QED
    BY <2>1, <2>3 DEF CInv, Filling
<1>3. CASE AllConnected
  <2>1. /\ stage = "connect" /\ at.fd > Len(fdl) /\ stage' = "free"
        /\ UNCHANGED <<job, flist, fdl, fds, usage, conduits, at, made, lost>>
    BY <1>3, AfterIs DEF AllConnected
  <2>2. Known0 /\ Placings /\ Connecting
    BY <2>1, ListKnown
  <2>3. PICK from : Traced(from)
    BY <2>2 DEF Connecting
  <2>4. Steady /\ EndsKept
    BY <1>1, <2>1, MemoryGrows
  <2>5. Traced(from)'
    <3>1. \A p \in 1 .. Len(fdl) : \A j \in 1 .. Size(p) : Before(p, j)' <=> Before(p, j)
      BY <2>1 DEF Before
    <3>2. QED
      BY <2>1, <2>2, <2>3, <2>4, <3>1, TracedSame DEF Known0
  <2>6. at'.var \in Nat \ {0} /\ ~(at'.var > 1)
    <3>1. at.fd \in Nat /\ Len(fdl) \in Nat
      BY <1>1, <2>2 DEF SInv, Staged, Placings
    <3>2. ~Halfway
      BY <2>1, <3>1 DEF Halfway
    <3>3. QED
      BY <2>1, <2>2, <3>2 DEF Connecting
  <2>7. \A p \in 1 .. Len(fdl) : p < at'.fd => Mates(p)
    BY <2>1, <2>2 DEF Connecting
  <2>8. QED
    BY <2>1, <2>5, <2>6, <2>7, ConnectStep
<1>4. CASE FreeList
  <2>1. /\ stage = "free" /\ Destroyed(Range(fdl)) /\ stage' = "merge"
        /\ UNCHANGED <<job, flist, conduits, at, made, lost>>
    BY <1>4, AfterIs DEF FreeList
  <2>2. PolesTold
    BY <2>1, ListKnown, TracedTold DEF Connecting
  <2>3. \A d \in DOMAIN fds' : fds'[d] = fds[d]
    BY <1>1, <2>1, MadeLess DEF SInv
  <2>4. PolesTold'
    BY <2>1, <2>2, <2>3, ToldLess
  <2>5. QED
    BY <2>1, <2>4 DEF CInv, Filling
<1>5. CASE FreeAll \/ Destroy
  <2>1. conduits' = <<>> /\ stage' \in {"failed", "gone"}
    BY <1>5 DEF FreeAll, Destroy
  <2>2. PolesTold'
    <3>1. DOMAIN conduits' = {}
      BY <2>1
    <3>2. QED
      BY <3>1 DEF PolesTold
  <2>3. QED
    BY <2>1, <2>2 DEF CInv, Filling
<1>6. CASE Merge
  <2> DEFINE kept == {i \in DOMAIN conduits : \A j \in i + 1 .. Len(conduits) : ~Alike(conduits[i], conduits[j])}
             left == Those(conduits, kept)
             gone == FdsOf(conduits) \ FdsOf(left)
  <2>1. /\ stage = "merge" /\ conduits' = left /\ Destroyed(gone) /\ stage' = "ready"
        /\ UNCHANGED <<job, flist, fdl, at, made, lost>>
    BY <1>6, AfterIs DEF Merge
  <2>2. PolesTold
    BY <2>1 DEF CInv, Filling
  <2>3. kept \in SUBSET DOMAIN conduits
    OBVIOUS
  <2> HIDE DEF kept
  <2>4. \A k \in DOMAIN left : Nth(kept, k) \in kept /\ left[k] = conduits[Nth(kept, k)]
    BY <1>1, <2>3, ThoseAre DEF SInv, Listed
  <2> HIDE DEF left, gone
  <2>5. \A d \in DOMAIN fds' : fds'[d] = fds[d]
    BY <1>1, <2>1, MadeLess DEF SInv
  <2>6. \A k \in DOMAIN conduits' : \E i \in DOMAIN conduits : conduits'[k] = conduits[i]
    BY <2>1, <2>3, <2>4
  <2>7. PolesTold'
    BY <2>1, <2>2, <2>5, <2>6, ToldLess
  <2>8. QED
    BY <2>1, <2>7 DEF CInv, Filling
<1>7. CASE DropHeader
  <2>1. stage = "ready" /\ UNCHANGED <<job, flist, fdl, stage, at, made, lost>>
    BY <1>7 DEF DropHeader
  <2>2. PICK i \in DOMAIN conduits :
           /\ conduits[i].out # Nil
           /\ Destroyed({conduits[i].out.fd})
           /\ conduits' = [conduits EXCEPT ![i].out = Nil]
    BY <1>7 DEF DropHeader
  <2>3. PolesTold
    BY <2>1 DEF CInv, Filling
  <2>4. \A d \in DOMAIN fds' : fds'[d] = fds[d]
    BY <1>1, <2>1, <2>2, MadeLess DEF SInv
  <2>5. \A k \in DOMAIN conduits' : /\ k \in DOMAIN conduits
                                    /\ conduits'[k].in = conduits[k].in
                                    /\ conduits'[k].out \in {conduits[k].out, Nil}
    <3> DEFINE b == [conduits[i] EXCEPT !.out = Nil]
    <3>1. b.in = conduits[i].in /\ b.out = Nil
      <4>1. conduits[i] = [in |-> conduits[i].in, out |-> conduits[i].out]
        BY <1>1 DEF SInv, Listed
      <4>2. b = [in |-> conduits[i].in, out |-> Nil]
        BY <4>1
      <4> HIDE DEF b
      <4>3. QED
        BY <4>2
    <3>2. conduits' = [conduits EXCEPT ![i] = b]
      BY <2>2
    <3> HIDE DEF b
    <3>3. QED
      BY <3>1, <3>2
  <2>6. PolesTold'
    BY <2>1, <2>3, <2>4, <2>5, ToldLess
  <2>7. QED
    BY <2>1, <2>6 DEF CInv, Filling
<1>8. CASE UNCHANGED vars
  <2>1. UNCHANGED <<job, flist, fdl, fds, usage, conduits, stage, at, made, lost>>
    BY <1>8 DEF vars
  <2>2. CASE stage \in {"connect", "free"}
    <3>1. Known0 /\ Placings /\ Connecting
      BY <2>2, ListKnown
    <3>2. PICK from : Traced(from)
      BY <3>1 DEF Connecting
    <3>3. Steady /\ EndsKept
      BY <1>1, <2>1, MemoryGrows
    <3>4. Traced(from)'
      <4>1. \A p \in 1 .. Len(fdl) : \A j \in 1 .. Size(p) : Before(p, j)' <=> Before(p, j)
        BY <2>1 DEF Before
      <4>2. QED
        BY <2>1, <3>1, <3>2, <3>3, <4>1, TracedSame DEF Known0
    <3>5. Sourced'
      BY <2>1, <3>1, <3>3, StillSourced DEF Known0
    <3>6. Turn(stage)' = Turn(stage)
      BY <2>1 DEF Turn
    <3>7. InTurn'
      BY <3>1, <3>3, <3>6, StillInTurn DEF Known0
    <3>8. Len(fdl)' = Len(fdl) /\ \A p \in 1 .. Len(fdl) : Mates(p)' = Mates(p) /\ Skipped(p)' = Skipped(p) /\ FmtAt(p)' = FmtAt(p)
      BY <3>1, <3>3, PlacesSame DEF Known0
    <3>9. Halfway => Halfway'
      <4>1. ASSUME Halfway, NEW p, p = at.fd
            PROVE  Halfway'
        <5>1. p \in 1 .. Len(fdl) /\ ~Skipped(p) /\ FmtAt(p).array
          BY <1>1, <3>1, <4>1 DEF Halfway, SInv, Staged, Placings
        <5>2. ~Skipped(p)' /\ FmtAt(p)'.array /\ p <= Len(fdl)' /\ p = at'.fd
          BY <2>1, <3>8, <4>1, <5>1
        <5>3. QED
          BY <5>2 DEF Halfway, Skipped, HasInput, FmtAt, FdAt
      <4>2. QED
        BY <4>1
    <3>10. Connecting'
      BY <2>1, <3>1, <3>4, <3>8, <3>9 DEF Connecting
    <3>11. stage = "free" => at.fd > Len(fdl)
      BY DEF CInv
    <3>12. QED
      BY <2>1, <2>2, <3>5, <3>7, <3>8, <3>10, <3>11 DEF CInv, Filling
  <2>3. CASE stage \notin {"connect", "free"}
    <3>1. stage \in Filling => Sourced' /\ InTurn' /\ Begun'
      <4>1. ASSUME stage \in Filling
            PROVE  Sourced /\ InTurn /\ Begun
        BY <2>3, <4>1 DEF CInv
      <4>2. Steady
        BY <1>1, <2>1, MemoryGrows
      <4>3. Turn(stage)' = Turn(stage)
        BY <2>1 DEF Turn
      <4>4. QED
        BY <2>1, <4>1, <4>2, <4>3, StillSourced, StillInTurn DEF Begun
    <3>2. stage \notin Filling => PolesTold'
      <4>1. stage \notin Filling => PolesTold
        BY DEF CInv
      <4>2. EndsKept
        BY <2>1 DEF EndsKept
      <4>3. QED
        BY <2>1, <4>1, <4>2, ToldKept
    <3>3. QED
      BY <2>1, <2>3, <3>1, <3>2 DEF CInv
  <2>4. QED
    BY <2>2, <2>3
<1>9. QED
  BY <1>2, <1>3, <1>4, <1>5, <1>6, <1>7, <1>8

-----------------------------------------------------------------------------
(* The steps that choose formats *)

\* What is marked was neither input nor output in the files.
LEMMA MarkedKnown ==
  ASSUME NEW s, AreFormats(s), \A i \in DOMAIN s : Known(s[i]), NEW io
  PROVE  \A i \in DOMAIN Marked(s, io) : Known(Marked(s, io)[i])
<1>1. AreFormats(Marked(s, io))
  BY MarkedIs
<1>2. DOMAIN Marked(s, io) = DOMAIN s
  BY DEF Marked
<1>3. ASSUME NEW i \in DOMAIN s
      PROVE  Known(Marked(s, io)[i])
  <2> DEFINE f == s[i]
             m == Marked(s, io)[i]
             g == [f EXCEPT !.io = io]
  <2>1. m = IF f.io = "none" /\ f.kind # "record" /\ f.enc = Encoding(io) THEN g ELSE f
    BY DEF Marked
  <2>2. IsFormat(m) /\ Known(f) /\ IsFormat(f)
    BY <1>1, <1>2 DEF AreFormats
  <2>3. /\ g.name = f.name /\ g.kind = f.kind /\ g.enc = f.enc /\ g.io = io
        /\ g.array = f.array /\ g.vars = f.vars
    <3>1. f = [name |-> f.name, kind |-> f.kind, enc |-> f.enc, io |-> f.io, array |-> f.array, vars |-> f.vars]
      BY <2>2 DEF IsFormat
    <3> HIDE DEF f
    <3>2. g = [name |-> f.name, kind |-> f.kind, enc |-> f.enc, io |-> io, array |-> f.array, vars |-> f.vars]
      BY <3>1
    <3> HIDE DEF g
    <3>3. QED
      BY <3>2
  <2> HIDE DEF f, m, g
  <2>4. CASE m = g /\ f.io = "none" /\ f.enc = Encoding(io)
    <3>1. PICK e \in Formats(job) :
            /\ f.name = e.name /\ f.kind = e.kind /\ f.enc = e.enc /\ f.array = e.array /\ f.vars = e.vars
            /\ ForIts(f, e)
      BY <2>2 DEF Known
    <3>2. ForIts(g, e)
      BY <2>3, <2>4, <3>1 DEF ForIts
    <3>3. QED
      BY <2>2, <2>3, <2>4, <3>1, <3>2 DEF Known, m
  <2>5. CASE m = f
    BY <2>2, <2>5 DEF m
  <2>6. QED
    BY <2>1, <2>4, <2>5
<1>4. QED
  BY <1>2, <1>3

\* What is chosen, and what is left, is of the files.
LEMMA ChosenKnown ==
  ASSUME NEW s, AreFormats(s), \A i \in DOMAIN s : Known(s[i]), job \in Jobs, FormatsAreNamed,
         NEW kind, NEW io, NEW title, title = Nil \/ (title \in {job.inTitle, job.outTitle} /\ kind = "data")
  PROVE  LET c == Chosen(s, kind, io, title) IN
         /\ \A i \in DOMAIN c.list : Known(c.list[i])
         /\ c.found # Nil => Known(c.found) /\ c.found.io = io /\ c.found.kind = kind
<1> DEFINE c == Chosen(s, kind, io, title)
<1>1. ASSUME NEW t, AreFormats(t), \A i \in DOMAIN t : Known(t[i]), NEW f, f \in Range(t)
      PROVE  Known(f) /\ \A i \in DOMAIN Without(t, f) : Known(Without(t, f)[i])
  <2>1. \A g \in Range(t) : Known(g)
    BY <1>1 DEF Range
  <2>2. Without(t, f) \in Seq(Range(t))
    BY <1>1, WithoutIs
  <2> DEFINE w == Without(t, f)
             R == Range(t)
  <2>3. w \in Seq(R) /\ \A g \in R : Known(g)
    BY <2>1, <2>2
  <2> HIDE DEF w, R
  <2>4. \A i \in DOMAIN w : w[i] \in R
    BY <2>3
  <2>5. QED
    BY <1>1, <2>1, <2>3, <2>4 DEF w
<1>2. ASSUME NEW t, AreFormats(t), NEW fitting, FirstIn(t, fitting) # Nil
      PROVE  FirstIn(t, fitting) \in Range(t) /\ FirstIn(t, fitting) \in fitting
  BY <1>2, FirstInIs, FormatsIn
<1>3. CASE title # Nil
  <2> DEFINE f == FirstIn(s, {x \in ToSet(s) : x.name = title})
             g == [f EXCEPT !.io = io]
  <2>1. c = IF f = Nil THEN [found |-> Nil, list |-> s]
            ELSE [found |-> g, list |-> Without(s, f)]
    BY <1>3 DEF Chosen
  <2>2. f # Nil => f \in Range(s) /\ f.name = title
    BY <1>2
  <2>3. f # Nil => Known(f) /\ \A i \in DOMAIN Without(s, f) : Known(Without(s, f)[i])
    <3> HIDE DEF f
    <3>1. QED
      BY <1>1, <2>2
  <2>4. f # Nil => /\ g.name = f.name /\ g.kind = f.kind /\ g.enc = f.enc /\ g.io = io
                   /\ g.array = f.array /\ g.vars = f.vars /\ IsFormat(g)
    <3>1. f # Nil => f = [name |-> f.name, kind |-> f.kind, enc |-> f.enc, io |-> f.io, array |-> f.array, vars |-> f.vars]
                     /\ f.kind \in Kinds
      BY <2>3 DEF Known, IsFormat
    <3> HIDE DEF f
    <3>2. f # Nil => g = [name |-> f.name, kind |-> f.kind, enc |-> f.enc, io |-> io, array |-> f.array, vars |-> f.vars]
      BY <3>1
    <3> HIDE DEF g
    <3>3. f # Nil => /\ g.name = f.name /\ g.kind = f.kind /\ g.enc = f.enc /\ g.io = io
                     /\ g.array = f.array /\ g.vars = f.vars
      BY <3>2
    <3>4. f # Nil => IsFormat(g)
      BY <3>1, <3>2, <3>3 DEF IsFormat
    <3>5. QED
      BY <3>3, <3>4
  <2> HIDE DEF f, g, c
  <2>5. CASE f = Nil
    BY <2>1, <2>5 DEF c
  <2>6. CASE f # Nil
    <3>1. PICK e \in Formats(job) :
            f.name = e.name /\ f.kind = e.kind /\ f.enc = e.enc /\ f.array = e.array /\ f.vars = e.vars
      BY <2>3, <2>6 DEF Known
    <3>2. kind = "data" /\ title \in {job.inTitle, job.outTitle} \ {Nil}
      BY <1>3
    <3>3. e.kind = "data"
      BY <2>2, <2>6, <3>1, <3>2 DEF FormatsAreNamed
    <3>4. ForIts(g, e)
      BY <3>2 DEF ForIts
    <3>5. Known(g)
      BY <2>4, <2>6, <3>1, <3>4 DEF Known
    <3>6. c.found = g /\ c.list = Without(s, f)
      BY <2>1, <2>6
    <3>7. QED
      BY <2>3, <2>4, <2>6, <3>1, <3>2, <3>3, <3>5, <3>6 DEF c
  <2>7. QED
    BY <2>5, <2>6
<1>4. CASE title = Nil
  <2> DEFINE Fits(x) == x.kind = kind /\ x.io = io
             t == IF FirstIn(s, {x \in ToSet(s) : Fits(x)}) = Nil THEN Marked(s, io) ELSE s
             f == FirstIn(t, {x \in ToSet(t) : Fits(x)})
  <2>1. c = [found |-> f, list |-> IF f = Nil THEN t ELSE Without(t, f)]
    BY <1>4 DEF Chosen
  <2>2. AreFormats(t) /\ \A i \in DOMAIN t : Known(t[i])
    BY MarkedIs, MarkedKnown
  <2>3. f # Nil => f \in Range(t) /\ f.kind = kind /\ f.io = io
    <3> HIDE DEF t
    <3>1. QED
      BY <1>2, <2>2
  <2> HIDE DEF f, t, c
  <2>4. f # Nil => Known(f) /\ \A i \in DOMAIN Without(t, f) : Known(Without(t, f)[i])
    BY <1>1, <2>2, <2>3
  <2>5. c.found = f /\ c.list = IF f = Nil THEN t ELSE Without(t, f)
    BY <2>1
  <2>6. QED
    BY <2>2, <2>3, <2>4, <2>5 DEF c
<1>5. QED
  BY <1>3, <1>4

\* The stages that choose a format take one of their own kind.
LEMMA TurnsOn ==
  ASSUME NEW s \in DOMAIN IoOf, NEW f, f.io = IoOf[s], f.kind = KindOf[s]
  PROVE  /\ Turn(s) \in Nat /\ Turn(After(s)) = Turn(s) + 1
         /\ Slot(f) = Turn(s) /\ f.kind # "record" /\ f.io \in {"in", "out"}
<1>1. s \in {"in file", "in rec", "in data", "out file", "out rec", "out data"}
  BY DEF IoOf
<1>2. DOMAIN IoOf = {"in file", "in rec", "in data", "out file", "out rec", "out data"}
  BY DEF IoOf
<1>3. IoOf[s] = IF s \in {"in file", "in rec", "in data"} THEN "in" ELSE "out"
  BY <1>2 DEF IoOf
<1>4. /\ KindOf["in file"] = "file" /\ KindOf["out file"] = "file"
      /\ KindOf["in rec"] = "rec" /\ KindOf["out rec"] = "rec"
      /\ KindOf["in data"] = "data" /\ KindOf["out data"] = "data"
  BY <1>2 DEF KindOf
<1>5. Rank["file"] = 1 /\ Rank["rec"] = 2 /\ Rank["data"] = 3
  BY DEF Rank
<1>6. f.kind \in {"file", "rec", "data"} /\ f.io \in {"in", "out"}
  BY <1>1, <1>3, <1>4
<1>7. /\ Turn("in file") = 1 /\ Turn("in rec") = 2 /\ Turn("in data") = 3 /\ Turn("in records") = 4
      /\ Turn("out file") = 5 /\ Turn("out rec") = 6 /\ Turn("out data") = 7 /\ Turn("connect") = 8
  BY DEF Turn
<1>8. /\ f.io = "in" => Slot(f) = Rank[f.kind]
      /\ f.io = "out" => Slot(f) = 4 + Rank[f.kind]
  BY DEF Slot
<1>9. /\ After("in file") = "in rec" /\ After("in rec") = "in data" /\ After("in data") = "in records"
      /\ After("out file") = "out rec" /\ After("out rec") = "out data" /\ After("out data") = "connect"
  BY AfterIs
<1>10. Turn(s) \in Nat /\ Turn(After(s)) = Turn(s) + 1
  <2>1. /\ Turn(After("in file")) = 2 /\ Turn(After("in rec")) = 3 /\ Turn(After("in data")) = 4
        /\ Turn(After("out file")) = 6 /\ Turn(After("out rec")) = 7 /\ Turn(After("out data")) = 8
    BY <1>7, <1>9
  <2>2. /\ s = "in file" => Turn(s) = 1 /\ Turn(After(s)) = 2
        /\ s = "in rec" => Turn(s) = 2 /\ Turn(After(s)) = 3
        /\ s = "in data" => Turn(s) = 3 /\ Turn(After(s)) = 4
    BY <1>7, <2>1
  <2>3. /\ s = "out file" => Turn(s) = 5 /\ Turn(After(s)) = 6
        /\ s = "out rec" => Turn(s) = 6 /\ Turn(After(s)) = 7
        /\ s = "out data" => Turn(s) = 7 /\ Turn(After(s)) = 8
    BY <1>7, <2>1
  <2> DEFINE a == Turn(s)
             b == Turn(After(s))
  <2>4. \/ a = 1 /\ b = 2
        \/ a = 2 /\ b = 3
        \/ a = 3 /\ b = 4
        \/ a = 5 /\ b = 6
        \/ a = 6 /\ b = 7
        \/ a = 7 /\ b = 8
    BY <1>1, <2>2, <2>3
  <2> HIDE DEF a, b
  <2>5. a \in Nat /\ b = a + 1
    BY <2>4
  <2>6. QED
    BY <2>5 DEF a, b
<1>11. Slot(f) = Turn(s)
  <2>1. s = "in file" => f.io = "in" /\ f.kind = "file"
    BY <1>3, <1>4
  <2>2. s = "in rec" => f.io = "in" /\ f.kind = "rec"
    BY <1>3, <1>4
  <2>3. s = "in data" => f.io = "in" /\ f.kind = "data"
    BY <1>3, <1>4
  <2>4. s = "out file" => f.io = "out" /\ f.kind = "file"
    BY <1>3, <1>4
  <2>5. s = "out rec" => f.io = "out" /\ f.kind = "rec"
    BY <1>3, <1>4
  <2>6. s = "out data" => f.io = "out" /\ f.kind = "data"
    BY <1>3, <1>4
  <2>7. /\ f.io = "in" /\ f.kind = "file" => Slot(f) = 1
        /\ f.io = "in" /\ f.kind = "rec" => Slot(f) = 2
        /\ f.io = "in" /\ f.kind = "data" => Slot(f) = 3
        /\ f.io = "out" /\ f.kind = "file" => Slot(f) = 5
        /\ f.io = "out" /\ f.kind = "rec" => Slot(f) = 6
        /\ f.io = "out" /\ f.kind = "data" => Slot(f) = 7
    BY <1>5, <1>8
  <2>8. QED
    BY <1>1, <1>7, <2>1, <2>2, <2>3, <2>4, <2>5, <2>6, <2>7
<1>12. QED
  BY <1>6, <1>10, <1>11

\* A format has a place of its own kind among those chosen.
LEMMA SlotIs ==
  ASSUME NEW f, IsFormat(f)
  PROVE  Slot(f) \in Int
<1>1. f.kind \in {"file", "rec", "data", "record"}
  BY DEF IsFormat, Kinds
<1>2. \A k \in {"file", "rec", "data", "record"} : Rank[k] \in Int
  BY DEF Rank
<1>3. Rank[f.kind] \in Int
  BY <1>1, <1>2
<1>4. QED
  BY <1>3 DEF Slot

\* What the stages before the conduits keep of them
LEMMA NoConduits ==
  ASSUME Begun, UNCHANGED <<at, conduits>>, stage' \in (Filling \ {"free"}) \cup {"failing"}, SInv', job' = job,
         stage' # "failing" => Sourced' /\ InTurn'
  PROVE  CInv'
<1>1. conduits' = <<>> /\ DOMAIN conduits' = {} /\ at'.fd = 1 /\ at'.var = 1 /\ Begun'
  BY DEF Begun
<1>2. PolesTold'
  BY <1>1 DEF PolesTold
<1>3. Traced(<<>>)'
  <2>1. DOMAIN <<>> = {}
    OBVIOUS
  <2>2. \A p \in 1 .. Len(fdl)' : \A j \in 1 .. Size(p)' : ~Before(p, j)'
    BY <1>1 DEF Before
  <2>3. QED
    BY <1>1, <2>1, <2>2 DEF Traced
<1>4. Connecting'
  <2>1. \A p \in 1 .. Len(fdl)' : ~(p < at'.fd)
    BY <1>1
  <2>2. QED
    BY <1>1, <1>3, <2>1 DEF Connecting
<1>5. QED
  BY <1>1, <1>2, <1>4 DEF CInv, Filling

\* A format that is chosen is of the files, and has its place after those before it.
LEMMA TakeFormatConnected ==
  ASSUME CInv, NilIsNothing, FormatsAreNamed, SInv', NEW s \in DOMAIN IoOf, TakeFormat(s)
  PROVE  CInv'
<1> DEFINE io == IoOf[s]
           title == IF KindOf[s] # "data" THEN Nil ELSE IF io = "in" THEN job.inTitle ELSE job.outTitle
           c == Chosen(ListOf(s), KindOf[s], io, title)
           f == c.found
           n == Len(fdl)
<1>1. /\ stage = s
      /\ flist' = c.list
      /\ f = Nil => UNCHANGED <<fdl, fds>>
      /\ f # Nil => fds' = WithNew(fds, made + 1, f) /\ fdl' = Append(fdl, made + 1)
      /\ stage' = "failing" \/ stage' = After(s)
      /\ UNCHANGED <<job, conduits, at, lost>>
  BY DEF TakeFormat
<1>2. s \in {"in file", "in rec", "in data", "out file", "out rec", "out data"}
  BY DEF IoOf
<1>3. After(s) \in Filling \ {"free"} /\ s \in Filling \ {"connect", "free"}
  BY <1>2, AfterIs DEF Filling
<1>4. SInv /\ Sourced /\ InTurn /\ Begun /\ job \in Jobs
  BY <1>1, <1>3 DEF CInv, SInv, Staged
<1>5. AreFormats(ListOf(s)) /\ \A i \in DOMAIN ListOf(s) : Known(ListOf(s)[i])
  <2>1. CASE s = "out file"
    <3>1. ListOf(s) = job.outputFormats /\ AreFormats(job.outputFormats)
      BY <1>4, <2>1, JobsAssumption DEF ListOf
    <3>2. \A i \in DOMAIN job.outputFormats : job.outputFormats[i] \in Formats(job) /\ IsFormat(job.outputFormats[i])
      BY <3>1 DEF Formats, Range, AreFormats
    <3>3. QED
      BY <3>1, <3>2 DEF Known, ForIts
  <2>2. CASE s # "out file"
    BY <1>4, <2>2 DEF ListOf, SInv, Listed, Sourced
  <2>3. QED
    BY <2>1, <2>2
<1>6. /\ \A i \in DOMAIN c.list : Known(c.list[i])
      /\ f # Nil => Known(f) /\ f.io = io /\ f.kind = KindOf[s]
  <2>1. title = Nil \/ (title \in {job.inTitle, job.outTitle} /\ KindOf[s] = "data")
    OBVIOUS
  <2> HIDE DEF title, io
  <2>2. QED
    BY <1>4, <1>5, <2>1, ChosenKnown
<1> HIDE DEF c, f
<1>7. \A x : Known(x) => Known(x)'
  BY <1>1 DEF Known, ForIts, Formats, Encoding
<1>8. \A i \in DOMAIN flist' : Known(flist[i])'
  <2> TAKE i \in DOMAIN flist'
  <2>1. PICK x : x = flist'[i]
    OBVIOUS
  <2>2. Known(x)
    BY <1>1, <1>6, <2>1
  <2>3. Known(x)'
    BY <1>7, <2>2
  <2>4. QED
    BY <2>1, <2>3 DEF Known, ForIts
<1>9. \A d \in Range(fdl) : d \in DOMAIN fds /\ Known(fds[d].fmt)
  BY <1>4 DEF Sourced, SInv, Owned
<1>10. made \in Nat /\ made + 1 \notin DOMAIN fds /\ n \in Nat /\ DOMAIN fdl = 1 .. n
  BY <1>4 DEF SInv, InMemory, Listed
<1>11. /\ Begun /\ UNCHANGED <<at, conduits>> /\ job' = job /\ SInv'
       /\ stage' \in (Filling \ {"free"}) \cup {"failing"}
  BY <1>1, <1>3, <1>4
<1>12. CASE f = Nil
  <2>1. fdl' = fdl /\ fds' = fds
    BY <1>1, <1>12
  <2>2. Sourced'
    <3>1. \A d \in Range(fdl) : Known(fds[d].fmt)'
      BY <1>1, <1>9, <2>1 DEF Known, ForIts, Formats, Encoding
    <3>2. QED
      BY <1>8, <2>1, <3>1 DEF Sourced
  <2>3. stage' # "failing" => InTurn'
    <3>1. [io |-> IoOf[s], kind |-> KindOf[s]].io = IoOf[s] /\ [io |-> IoOf[s], kind |-> KindOf[s]].kind = KindOf[s]
      OBVIOUS
    <3>2. Turn(s) \in Nat /\ Turn(After(s)) = Turn(s) + 1
      BY <3>1, TurnsOn
    <3>3. \A i \in DOMAIN fdl : Typed(i)' = Typed(i) /\ (Typed(i) => Slot(fds[fdl[i]].fmt) < Turn(s) /\ Slot(fds[fdl[i]].fmt) \in Int)
      <4>1. \A i \in DOMAIN fdl : IsFormat(fds[fdl[i]].fmt)
        BY <1>9 DEF Range, Known
      <4>3. \A i \in DOMAIN fdl : Slot(fds[fdl[i]].fmt) \in Int
        BY <4>1, SlotIs
      <4>4. QED
        BY <1>1, <1>4, <2>1, <4>3 DEF Typed, InTurn
    <3>4. QED
      <4>1. \A i \in DOMAIN fdl : Typed(i) => fds[fdl[i]].fmt.io \in {"in", "out"}
        BY <1>4 DEF InTurn
      <4>2. stage' # "failing" => stage' = After(s)
        BY <1>1
      <4>3. \A i, k \in DOMAIN fdl : Typed(i) /\ Typed(k) /\ i < k => Slot(fds[fdl[i]].fmt) < Slot(fds[fdl[k]].fmt)
        BY <1>4 DEF InTurn
      <4>4. stage' # "failing" => \A i \in DOMAIN fdl : Typed(i) => Slot(fds[fdl[i]].fmt) < Turn(stage')
        BY <3>2, <3>3, <4>2
      <4>5. QED
        BY <2>1, <3>3, <4>1, <4>3, <4>4 DEF InTurn
  <2>4. QED
    BY <1>11, <2>2, <2>3, NoConduits
<1>13. CASE f # Nil
  <2>1. /\ fds'[made + 1].fmt = f /\ \A d \in DOMAIN fds : fds'[d] = fds[d]
    BY <1>1, <1>10, <1>13 DEF WithNew
  <2>2. Range(fdl') = Range(fdl) \cup {made + 1}
    BY <1>1, <1>4, <1>13, RangeMore DEF SInv, Listed
  <2>3. /\ DOMAIN fdl' = 1 .. n + 1 /\ fdl'[n + 1] = made + 1
        /\ \A i \in 1 .. n : fdl'[i] = fdl[i] /\ fdl[i] \in Range(fdl)
    <3>1. \A i \in 1 .. n : fdl[i] \in Range(fdl)
      BY <1>10 DEF Range
    <3> DEFINE S == Range(fdl) \cup {made + 1}
    <3>2. fdl \in Seq(S) /\ made + 1 \in S
      <4>1. fdl \in [1 .. Len(fdl) -> S] /\ Len(fdl) \in Nat /\ made + 1 \in S
        BY <1>4 DEF SInv, Listed
      <4> HIDE DEF S
      <4>2. QED
        BY <4>1
    <3> HIDE DEF S
    <3>3. fdl' = Append(fdl, made + 1)
      BY <1>1, <1>13
    <3>4. QED
      BY <3>1, <3>2, <3>3
  <2>4. Sourced'
    <3>1. ASSUME NEW d \in Range(fdl')
          PROVE  Known(fds[d].fmt)'
      <4>1. PICK x : x = fds'[d].fmt
        OBVIOUS
      <4>2. Known(x)
        BY <1>6, <1>9, <1>13, <2>1, <2>2, <4>1
      <4>3. Known(x)'
        BY <1>7, <4>2
      <4>4. QED
        BY <4>1, <4>3 DEF Known, ForIts
    <3>2. QED
      BY <1>8, <3>1 DEF Sourced
  <2>5. stage' # "failing" => InTurn'
    <3>1. /\ Turn(s) \in Nat /\ Turn(After(s)) = Turn(s) + 1
          /\ Slot(f) = Turn(s) /\ f.kind # "record" /\ f.io \in {"in", "out"}
      BY <1>6, <1>13, TurnsOn
    <3>2. \A i \in 1 .. n : fds'[fdl'[i]] = fds[fdl[i]]
      BY <1>9, <2>1, <2>3
    <3>3. \A i \in 1 .. n : Typed(i)' = Typed(i)
      BY <3>2 DEF Typed
    <3>4. \A i \in 1 .. n : Typed(i) => /\ fds[fdl[i]].fmt.io \in {"in", "out"}
                                        /\ Slot(fds[fdl[i]].fmt) < Turn(s) /\ Slot(fds[fdl[i]].fmt) \in Int
      <4>1. \A i \in 1 .. n : IsFormat(fds[fdl[i]].fmt)
        BY <1>9, <2>3 DEF Known
      <4>3. \A i \in 1 .. n : Slot(fds[fdl[i]].fmt) \in Int
        BY <4>1, SlotIs
      <4>4. QED
        BY <1>1, <1>4, <1>10, <4>3 DEF InTurn
    <3>5. Slot(fds'[fdl'[n + 1]].fmt) = Turn(s) /\ fds'[fdl'[n + 1]].fmt.io \in {"in", "out"}
      BY <2>1, <2>3, <3>1
    <3>6. \A i, k \in 1 .. n : Typed(i) /\ Typed(k) /\ i < k => Slot(fds[fdl[i]].fmt) < Slot(fds[fdl[k]].fmt)
      BY <1>4, <1>10 DEF InTurn
    <3>7. ASSUME NEW i \in 1 .. n + 1, Typed(i)', stage' = After(s)
          PROVE  fds'[fdl'[i]].fmt.io \in {"in", "out"} /\ Slot(fds'[fdl'[i]].fmt) < Turn(stage')
      <4>1. CASE i \in 1 .. n
        BY <3>1, <3>2, <3>3, <3>4, <3>7, <4>1
      <4>2. CASE i = n + 1
        BY <3>1, <3>5, <3>7, <4>2
      <4>3. QED
        BY <1>10, <4>1, <4>2
    <3>8. ASSUME NEW i \in 1 .. n + 1, NEW k \in 1 .. n + 1, Typed(i)', Typed(k)', i < k
          PROVE  Slot(fds'[fdl'[i]].fmt) < Slot(fds'[fdl'[k]].fmt)
      <4>1. i \in 1 .. n
        BY <1>10, <3>8
      <4>2. CASE k \in 1 .. n
        BY <3>2, <3>3, <3>6, <3>8, <4>1, <4>2
      <4>3. CASE k = n + 1
        BY <3>2, <3>3, <3>4, <3>5, <3>8, <4>1, <4>3
      <4>4. QED
        BY <1>10, <4>2, <4>3
    <3> HIDE DEF n
    <3>9. QED
      BY <1>1, <2>3, <3>7, <3>8 DEF InTurn
  <2>6. QED
    BY <1>11, <2>4, <2>5, NoConduits
<1>14. QED
  BY <1>12, <1>13

\* The record formats that are taken are of the files, and have no place of their own.
LEMMA TakeRecordsConnected ==
  ASSUME CInv, NilIsNothing, FormatsAreNamed, SInv', TakeRecords
  PROVE  CInv'
<1> DEFINE S == {i \in DOMAIN flist : flist[i].kind = "record"}
           records == Those(flist, S)
           ids == [i \in DOMAIN records |-> made + i]
           n == Len(records)
           N == made + 1 .. made + n
           m == Len(fdl)
<1>1. /\ stage = "in records"
      /\ fdl' = fdl \o ids
      /\ fds' = [d \in DOMAIN fds \cup Range(ids) |->
                    IF d \in DOMAIN fds THEN fds[d] ELSE [fmt |-> records[d - made], buf |-> d]]
      /\ stage' = "failing" \/ stage' = "out file"
      /\ UNCHANGED <<job, flist, conduits, at, lost>>
  BY AfterIs DEF TakeRecords
<1>2. SInv /\ Sourced /\ InTurn /\ Begun
  BY <1>1 DEF CInv, Filling
<1>3. flist \in Seq(Range(flist)) /\ \A i \in DOMAIN flist : Known(flist[i])
  BY <1>2, FormatsIn DEF SInv, Listed, Sourced
<1>4. S \in SUBSET DOMAIN flist /\ \A i \in S : flist[i].kind = "record"
  OBVIOUS
<1> HIDE DEF S
<1>5. n \in Nat /\ DOMAIN records = 1 .. n /\ \A k \in 1 .. n : Known(records[k]) /\ records[k].kind = "record"
  <2>1. records \in Seq(Range(flist)) /\ \A k \in DOMAIN records : Nth(S, k) \in S /\ records[k] = flist[Nth(S, k)]
    BY <1>3, <1>4, ThoseAre
  <2>2. \A k \in DOMAIN records : Known(records[k]) /\ records[k].kind = "record"
    BY <1>3, <1>4, <2>1
  <2> HIDE DEF records
  <2>3. QED
    BY <2>1, <2>2
<1> HIDE DEF records, n
<1>6. made \in Nat /\ DOMAIN fds \subseteq 1 .. made
  BY <1>2 DEF SInv, InMemory
<1>7. ids \in Seq(Range(ids)) /\ Range(ids) = N
  <2>1. ids = [i \in 1 .. n |-> made + i] /\ \A i \in 1 .. n : made + i \in N
    BY <1>5, <1>6
  <2>2. \A d \in N : d - made \in 1 .. n /\ made + (d - made) = d
    BY <1>5, <1>6
  <2>3. ids \in [1 .. n -> N]
    BY <2>1
  <2>4. DOMAIN ids = 1 .. n /\ \A i \in 1 .. n : ids[i] = made + i
    BY <2>1
  <2> HIDE DEF N, ids
  <2>5. ids \in Seq(N)
    BY <1>5, <2>3
  <2>6. Range(ids) = N
    BY <2>1, <2>2, <2>4 DEF Range
  <2>7. QED
    BY <2>5, <2>6
<1> HIDE DEF ids
<1>8. /\ \A d \in DOMAIN fds : fds'[d] = fds[d]
      /\ \A d \in N : fds'[d].fmt = records[d - made] /\ d - made \in 1 .. n
  <2>1. \A d \in N : d \notin DOMAIN fds /\ d - made \in 1 .. n
    BY <1>5, <1>6
  <2> HIDE DEF N
  <2>2. QED
    BY <1>1, <1>7, <2>1
<1>9. fdl \in Seq(Range(fdl)) /\ m \in Nat /\ DOMAIN fdl = 1 .. m
  BY <1>2 DEF SInv, Listed
<1>10. \A d \in Range(fdl) : d \in DOMAIN fds /\ Known(fds[d].fmt)
  BY <1>2 DEF Sourced, SInv, Owned
<1> HIDE DEF N
<1>11. Range(fdl') = Range(fdl) \cup N
  BY <1>1, <1>7, <1>9, RangeJoined
<1> HIDE DEF m
<1>12. \A i \in DOMAIN fdl' : \/ i \in 1 .. m /\ fdl'[i] = fdl[i] /\ fdl[i] \in Range(fdl)
                              \/ fdl'[i] \in N
  <2>1. Len(ids) \in Nat /\ \A i \in 1 .. Len(ids) : ids[i] \in N
    BY <1>7 DEF Range
  <2>2. \A i \in 1 .. m : fdl[i] \in Range(fdl)
    BY <1>9 DEF Range
  <2>3. DOMAIN (fdl \o ids) = 1 .. m + Len(ids) /\ \A i \in 1 .. m + Len(ids) : (fdl \o ids)[i] = IF i <= m THEN fdl[i] ELSE ids[i - m]
    BY <1>7, <1>9 DEF m
  <2>4. \A i \in 1 .. m + Len(ids) : i \in 1 .. m \/ (~(i <= m) /\ i - m \in 1 .. Len(ids))
    BY <1>9, <2>1
  <2>5. \A i \in 1 .. m : i <= m /\ i \in 1 .. m + Len(ids)
    BY <1>9, <2>1
  <2>6. QED
    BY <1>1, <2>1, <2>2, <2>3, <2>4, <2>5
<1>13. \A x : Known(x) => Known(x)'
  BY <1>1 DEF Known, ForIts, Formats, Encoding
<1>14. Sourced'
  <2>1. \A d \in Range(fdl') : Known(fds'[d].fmt)
    BY <1>5, <1>8, <1>10, <1>11
  <2>2. ASSUME NEW d \in Range(fdl')
        PROVE  Known(fds[d].fmt)'
    <3>1. PICK x : x = fds'[d].fmt
      OBVIOUS
    <3>2. Known(x)'
      BY <1>13, <2>1, <3>1
    <3>3. QED
      BY <3>1, <3>2 DEF Known, ForIts
  <2>3. ASSUME NEW i \in DOMAIN flist'
        PROVE  Known(flist[i])'
    <3>1. PICK x : x = flist'[i]
      OBVIOUS
    <3>2. Known(x)
      BY <1>1, <1>3, <3>1
    <3>3. Known(x)'
      BY <1>13, <3>2
    <3>4. QED
      BY <3>1, <3>3 DEF Known, ForIts
  <2>4. QED
    BY <2>2, <2>3 DEF Sourced
<1>15. stage' # "failing" => InTurn'
  <2>1. \A i \in DOMAIN fdl' : Typed(i)' => i \in 1 .. m /\ Typed(i) /\ fds'[fdl'[i]].fmt = fds[fdl[i]].fmt
    <3>1. \A d \in N : fds'[d].fmt.kind = "record"
      BY <1>5, <1>8
    <3>2. QED
      BY <1>8, <1>10, <1>12, <3>1 DEF Typed
  <2>2. \A i \in 1 .. m : Typed(i) => fds[fdl[i]].fmt.io \in {"in", "out"} /\ Slot(fds[fdl[i]].fmt) < Turn("in records")
    BY <1>1, <1>2, <1>9 DEF InTurn
  <2>3. Turn("in records") = 4 /\ Turn("out file") = 5
    BY DEF Turn
  <2>4. \A i \in 1 .. m : Slot(fds[fdl[i]].fmt) \in Int
    BY <1>9, <1>10, SlotIs DEF Range, Known
  <2>5. \A i \in 1 .. m : Typed(i) => Slot(fds[fdl[i]].fmt) < Turn("out file")
    <3> DEFINE t == Turn("in records")
               u == Turn("out file")
    <3>1. t = 4 /\ u = 5
      BY <2>3
    <3> HIDE DEF t, u
    <3>2. \A a \in Int : a < t => a < u
      BY <3>1
    <3>3. QED
      BY <2>2, <2>4, <3>2 DEF t, u
  <2>6. \A i, k \in 1 .. m : Typed(i) /\ Typed(k) /\ i < k => Slot(fds[fdl[i]].fmt) < Slot(fds[fdl[k]].fmt)
    BY <1>2, <1>9 DEF InTurn
  <2>7. \A i \in DOMAIN fdl' : Typed(i)' => fds'[fdl'[i]].fmt.io \in {"in", "out"} /\ Slot(fds'[fdl'[i]].fmt) < Turn("out file")
    BY <2>1, <2>2, <2>5
  <2>8. \A i, k \in DOMAIN fdl' : Typed(i)' /\ Typed(k)' /\ i < k => Slot(fds'[fdl'[i]].fmt) < Slot(fds'[fdl'[k]].fmt)
    BY <2>1, <2>6
  <2>9. stage' # "failing" => Turn(stage') = Turn("out file")
    BY <1>1
  <2>10. QED
    BY <2>7, <2>8, <2>9 DEF InTurn
<1>16. stage' \in (Filling \ {"free"}) \cup {"failing"}
  BY <1>1 DEF Filling
<1>17. QED
  BY <1>1, <1>2, <1>14, <1>15, <1>16, NoConduits

\* At first there are the input formats, and nothing else.
LEMMA InitConnected == Init => CInv
<1> SUFFICES ASSUME Init
             PROVE  CInv
  OBVIOUS
<1>1. SInv
  BY InitKept
<1>2. /\ job \in Jobs /\ flist = job.inputFormats /\ fdl = <<>> /\ conduits = <<>>
      /\ stage = "in file" /\ at = [fd |-> 1, var |-> 1]
  BY DEF Init
<1>3. Range(<<>>) = {} /\ DOMAIN <<>> = {}
  BY Nothing
<1>4. Sourced
  <2>1. AreFormats(job.inputFormats)
    BY <1>2, JobsAssumption
  <2>2. \A i \in DOMAIN flist : flist[i] \in Formats(job) /\ IsFormat(flist[i])
    BY <1>2, <2>1 DEF Formats, Range, AreFormats
  <2>3. \A i \in DOMAIN flist : Known(flist[i])
    BY <2>2 DEF Known, ForIts
  <2>4. QED
    BY <1>2, <1>3, <2>3 DEF Sourced
<1>5. InTurn
  BY <1>2, <1>3 DEF InTurn
<1>6. stage \in Filling \ {"connect", "free"}
  BY <1>2 DEF Filling
<1>7. Begun
  BY <1>2 DEF Begun
<1>8. QED
  BY <1>1, <1>4, <1>5, <1>6, <1>7 DEF CInv

\* Every step keeps the invariant about conduits.
LEMMA NextConnected ==
  ASSUME CInv, NilIsNothing, FormatsAreNamed, [Next]_vars
  PROVE  CInv'
<1>1. SInv'
  BY NextKept DEF CInv
<1>2. CASE TakeFormats
  BY <1>1, <1>2, TakeFormatConnected DEF TakeFormats
<1>3. CASE TakeRecords
  BY <1>1, <1>3, TakeRecordsConnected
<1>4. CASE PassedBy
  BY <1>1, <1>4, PassedByConnected
<1>5. CASE MakeTabular
  BY <1>1, <1>5, MakeTabularConnected
<1>6. CASE SpawnVar
  BY <1>1, <1>6, SpawnVarConnected
<1>7. CASE Mismatch \/ AllConnected \/ FreeList \/ FreeAll \/ Merge \/ DropHeader \/ Destroy \/ UNCHANGED vars
  BY <1>1, <1>7, RestConnected
<1>8. QED
  BY <1>2, <1>3, <1>4, <1>5, <1>6, <1>7 DEF Next

-----------------------------------------------------------------------------
(* Every format on its side of its conduits *)

\* The place that makes the conduits of a format, and the side that the format has there
EndAt(p, io) == IF io = "in" THEN InAt(p) ELSE OutAt(p)
EndVar(p, j, io) == IF io = "in" THEN InVarAt(p, j) ELSE ListAt(p)[j]
Ended(p, d) ==
    /\ p \in 1 .. Len(fdl) /\ ~Skipped(p) /\ Typical(p) /\ Sided(p)
    /\ FmtAt(p).kind = fds[d].fmt.kind /\ FmtAt(p).array = fds[d].fmt.array
    /\ EndAt(p, fds[d].fmt.io) = d

\* Every format but a record has such a place.
LEMMA MakerFound ==
  ASSUME Known0, \A p \in 1 .. Len(fdl) : Mates(p), NEW d \in Range(fdl), fds[d].fmt.kind # "record"
  PROVE  fds[d].fmt.io \in {"in", "out"} /\ \E m : Ended(m, d)
<1> DEFINE f == fds[d].fmt
           n == Len(fdl)
<1>1. Placings
  BY PlacesAre DEF Known0
<1>2. PICK p \in 1 .. n : FdAt(p) = d
  BY <1>1 DEF Placings
<1>3. FmtAt(p) = f /\ Typical(p)
  BY <1>2 DEF FmtAt, Typical
<1>4. f.io \in {"in", "out"} /\ Sided(p)
  BY <1>1, <1>3, PlaceIs DEF Placings
<1>5. CASE ~Skipped(p)
  <2>1. EndAt(p, f.io) = d
    BY <1>2, <1>3, <1>4 DEF EndAt, Sided
  <2>2. Ended(p, d)
    BY <1>3, <1>4, <1>5, <2>1 DEF Ended
  <2>3. QED
    BY <1>4, <2>2
<1>6. CASE Skipped(p)
  <2>1. f.io = "out" /\ HasInput(p)
    BY <1>3, <1>6 DEF Skipped, Typical
  <2>2. PICK q \in 1 .. n : FmtAt(q).kind = f.kind /\ FmtAt(q).io = "in"
    BY <1>3, <2>1 DEF HasInput
  <2>3. Typical(q)
    BY <1>3, <2>2 DEF Typical
  <2>4. Sided(q)
    BY <2>3, PlaceIs
  <2>5. OutAt(q) = d /\ OutAt(q) # Nil
    BY <1>2, <1>3, <2>1, <2>2, <2>4 DEF Sided
  <2>6. InAt(q) # Nil
    BY <2>2, <2>4 DEF Sided
  <2>7. FmtAt(q).array = f.array
    BY <2>3, <2>5, <2>6 DEF Mates, Typical
  <2>8. ~Skipped(q)
    BY <2>2, <2>3 DEF Skipped, Typical
  <2>9. EndAt(q, f.io) = d
    BY <2>1, <2>5 DEF EndAt
  <2>10. Ended(q, d)
    BY <2>2, <2>3, <2>4, <2>7, <2>8, <2>9 DEF Ended
  <2>11. QED
    BY <1>4, <2>10
<1>7. QED
  BY <1>5, <1>6

\* A conduit has on a side a pole with the name of f, or of an array of f.
Bears(c, io, f) == Side(c, io) # Nil /\ fds[Side(c, io).fd].fmt.name[1] = f.name[1]

\* A pole that has a format's name was made at the place of that format.
LEMMA ComesFrom ==
  ASSUME Known0, NEW from, Traced(from), NEW i \in DOMAIN conduits,
         NEW d \in Range(fdl), NEW m, Ended(m, d), NEW io \in {"in", "out"}, Bears(conduits[i], io, fds[d].fmt)
  PROVE  from[i][1] = m
<1> DEFINE c == conduits[i]
           p == from[i][1]
           j == from[i][2]
           f == fds[d].fmt
<1>1. Makes(p, j) /\ MadeFor(c, p, j)
  BY DEF Traced
<1> HIDE DEF p, j
<1>2. p \in 1 .. Len(fdl) /\ ~Skipped(p)
  BY <1>1, MakerIs
<1>3. Known(f) /\ job \in Jobs /\ FormatsAreNamed
  BY DEF Known0, Sourced
<1>4. FmtAt(p).kind = f.kind
  <2>1. CASE io = "in"
    <3>1. c.in # Nil /\ fds[c.in.fd].fmt.name[1] = f.name[1]
      BY <2>1 DEF Side, Bears
    <3>2. InOf(p, j, fds[c.in.fd].fmt)
      BY <1>1, <3>1, MadeIn
    <3>3. FmtAt(p).name[1] = f.name[1]
      BY <3>1, <3>2 DEF InOf
    <3>4. Known(FmtAt(p))
      BY <1>2, PlaceIs
    <3>5. QED
      BY <1>3, <3>3, <3>4, KnownIs
  <2>2. CASE io = "out"
    <3> DEFINE o == fds[OutAt(p)].fmt
    <3>1. c.out # Nil /\ fds[c.out.fd].fmt.name[1] = f.name[1]
      BY <2>2 DEF Side, Bears
    <3>2. OutOf(p, j, fds[c.out.fd].fmt, o)
      BY <1>1, <3>1, MadeOut
    <3>3. o.name[1] = f.name[1] /\ OutAt(p) # Nil /\ o.kind = FmtAt(p).kind
      BY <3>1, <3>2 DEF OutOf
    <3>4. Known(o)
      BY <1>2, <3>3, PlaceIs
    <3> HIDE DEF o
    <3>5. o.kind = f.kind
      BY <1>3, <3>3, <3>4, KnownIs
    <3>6. QED
      BY <3>3, <3>5
  <2>3. QED
    BY <2>1, <2>2
<1>5. FmtAt(p).kind = FmtAt(m).kind /\ m \in 1 .. Len(fdl) /\ ~Skipped(m)
  BY <1>4 DEF Ended
<1>6. p = m
  BY <1>2, <1>5, OneMaker
<1>7. QED
  BY <1>6 DEF p

\* The same, of all poles
OnlyFrom(from, f, m) == \A i \in DOMAIN conduits : Bears(conduits[i], f.io, f) => from[i][1] = m

LEMMA AllComeFrom ==
  ASSUME Known0, NEW from, Traced(from), NEW d \in Range(fdl), NEW m, Ended(m, d), fds[d].fmt.io \in {"in", "out"}
  PROVE  OnlyFrom(from, fds[d].fmt, m)
BY ComesFrom DEF OnlyFrom

\* The conduits of a place, when all are made
AllMade(from) == \A p \in 1 .. Len(fdl) : \A j \in 1 .. Size(p) : \E i \in DOMAIN conduits : from[i][1] = p /\ from[i][2] = j

\* A table is on its side of one conduit.
LEMMA OneCopy ==
  ASSUME Known0, NEW from, Traced(from), AllMade(from),
         NEW d \in Range(fdl), NEW m, Ended(m, d), fds[d].fmt.io \in {"in", "out"}, ~fds[d].fmt.array, d # Nil
  PROVE  Cardinality(Copies(fds[d].fmt)) = 1
<1> DEFINE f == fds[d].fmt
<1>1. /\ m \in 1 .. Len(fdl) /\ ~Skipped(m) /\ ~FmtAt(m).array /\ EndAt(m, f.io) = d /\ Sided(m)
  BY DEF Ended
<1>2. Size(m) = 1
  BY <1>1 DEF Size
<1>3. PICK i \in DOMAIN conduits : from[i][1] = m /\ from[i][2] = 1
  BY <1>1, <1>2 DEF AllMade
<1>4. MadeFor(conduits[i], m, 1)
  BY <1>3 DEF Traced
<1>5. i \in Copies(f)
  <2>1. CASE f.io = "in"
    <3>1. InAt(m) = d
      BY <1>1, <2>1 DEF EndAt
    <3>2. conduits[i].in # Nil /\ TablePole(conduits[i].in, FmtAt(m))
      BY <1>1, <1>4, <3>1 DEF MadeFor
    <3>3. FmtAt(m) = f
      BY <1>1, <3>1 DEF Sided, FmtAt
    <3>4. QED
      BY <2>1, <3>2, <3>3 DEF Copies, On, Side, TablePole
  <2>2. CASE f.io = "out"
    <3>1. OutAt(m) = d
      BY <1>1, <2>2 DEF EndAt
    <3>2. conduits[i].out # Nil /\ TablePole(conduits[i].out, f)
      BY <1>1, <1>4, <3>1 DEF MadeFor
    <3>3. QED
      BY <2>2, <3>2 DEF Copies, On, Side, TablePole
  <2>3. QED
    BY <2>1, <2>2
<1>6. ASSUME NEW k \in Copies(f)
      PROVE  k = i
  <2>1. k \in DOMAIN conduits /\ Side(conduits[k], f.io) # Nil /\ fds[Side(conduits[k], f.io).fd].fmt = f
    BY <1>6 DEF Copies, On
  <2>2. from[k][1] = m
    <3>1. Bears(conduits[k], f.io, f)
      BY <2>1 DEF Bears
    <3>2. QED
      BY <2>1, <3>1, ComesFrom
  <2>3. Makes(m, from[k][2])
    BY <2>1, <2>2 DEF Traced
  <2>4. from[k][2] = 1
    BY <1>1, <2>3, MakerIs
  <2>5. QED
    BY <1>3, <2>1, <2>2, <2>4 DEF Traced
<1>7. Copies(f) = {i}
  BY <1>5, <1>6
<1>8. QED
  BY <1>7, FS_Singleton

\* Of two sets of which each thing of one is one of the other there are as many.
LEMMA AsMany ==
  ASSUME NEW S, IsFiniteSet(S), NEW T, NEW g \in [S -> T],
         \A i, k \in S : g[i] = g[k] => i = k,
         \A j \in T : \E i \in S : g[i] = j
  PROVE  Cardinality(S) = Cardinality(T)
<1>1. g \in Bijection(S, T)
  BY DEF Bijection, Injection, Surjection, IsInjective
<1>2. ExistsBijection(S, T)
  BY <1>1 DEF ExistsBijection
<1>3. QED
  BY <1>2, FS_Bijection

\* A variable that is named as one of the format's is that variable.
LEMMA OneVariable ==
  ASSUME NEW f, Described(f), NEW k \in DOMAIN f.vars, NEW w, w # Nil, w.name = f.vars[k].name,
         \/ w \in Range(f.vars)
         \/ \E v : w = Named(f, v)
  PROVE  w = f.vars[k]
<1>1. f.vars \in Seq(Range(f.vars)) /\ \A i \in DOMAIN f.vars : f.vars[i].name = f.vars[k].name => i = k
  BY DEF Described
<1>2. w \in Range(f.vars)
  <2>1. ASSUME NEW v, w = Named(f, v)
        PROVE  w \in Range(f.vars)
    <3>1. \A fitting : FirstIn(f.vars, fitting) = Nil \/ FirstIn(f.vars, fitting) \in Range(f.vars)
      BY <1>1, FirstInFound
    <3>2. QED
      BY <2>1, <3>1 DEF Named
  <2>2. QED
    BY <2>1
<1>3. PICK i \in DOMAIN f.vars : f.vars[i] = w
  BY <1>2 DEF Range
<1>4. QED
  BY <1>1, <1>3

\* What a place has of a format that ends there
LEMMA EndIs ==
  ASSUME Known0, NEW d \in Range(fdl), NEW m, Ended(m, d), d # Nil, fds[d].fmt.io \in {"in", "out"}
  PROVE  /\ fds[d].fmt.io = "in" => FmtAt(m) = fds[d].fmt /\ FdAt(m) = d /\ FmtAt(m).io = "in"
                                    /\ OutAt(m) = OutputOf(fds[d].fmt) /\ InAt(m) = d
         /\ fds[d].fmt.io = "out" => OutAt(m) = d /\ ListAt(m) = fds[d].fmt.vars
<1>1. EndAt(m, fds[d].fmt.io) = d /\ Sided(m)
  BY DEF Ended
<1>2. ASSUME fds[d].fmt.io = "in"
      PROVE  FmtAt(m) = fds[d].fmt /\ FdAt(m) = d /\ FmtAt(m).io = "in"
             /\ OutAt(m) = OutputOf(fds[d].fmt) /\ InAt(m) = d
  <2>1. InAt(m) = d
    BY <1>1, <1>2 DEF EndAt
  <2>2. FdAt(m) = d /\ FmtAt(m).io = "in"
    BY <1>1, <2>1 DEF Sided
  <2>3. QED
    BY <2>1, <2>2 DEF FmtAt, OutAt
<1>3. ASSUME fds[d].fmt.io = "out"
      PROVE  OutAt(m) = d /\ ListAt(m) = fds[d].fmt.vars
  <2>1. OutAt(m) = d
    BY <1>1, <1>3 DEF EndAt
  <2>2. QED
    BY <2>1 DEF ListAt, VarsOf
<1>4. QED
  BY <1>2, <1>3

\* The arrays of a variable are made for it.
LEMMA SpawnsAre ==
  ASSUME Known0, NEW from, Traced(from), AllMade(from), Listed,
         NEW d \in Range(fdl), NEW m, Ended(m, d), fds[d].fmt.io \in {"in", "out"}, fds[d].fmt.array, d # Nil
  PROVE  \A k \in DOMAIN fds[d].fmt.vars :
            Cardinality(Spawns(fds[d].fmt, fds[d].fmt.vars[k])) =
            Cardinality({j \in 1 .. Len(ListAt(m)) : EndVar(m, j, fds[d].fmt.io) = fds[d].fmt.vars[k]})
<1>0. OnlyFrom(from, fds[d].fmt, m)
  BY AllComeFrom
<1> TAKE k \in DOMAIN fds[d].fmt.vars
<1> DEFINE f == fds[d].fmt
           v == f.vars[k]
           S == Spawns(f, v)
           T == {j \in 1 .. Len(ListAt(m)) : EndVar(m, j, f.io) = v}
           h(i) == from[i][2]
<1>1. /\ m \in 1 .. Len(fdl) /\ ~Skipped(m) /\ FmtAt(m).array /\ Sided(m)
  BY DEF Ended
<1>2. Size(m) = Len(ListAt(m))
  BY <1>1 DEF Size
<1>3. Described(f) /\ v # Nil
  <2>1. Known(f) /\ job \in Jobs /\ FormatsAreNamed
    BY DEF Known0, Sourced
  <2>2. Described(f)
    BY <2>1, KnownIs
  <2>3. QED
    BY <2>2 DEF Described, IsVar
<1>4. ASSUME NEW i \in S
      PROVE  i \in DOMAIN conduits /\ from[i][1] = m /\ h(i) \in T
  <2> DEFINE c == conduits[i]
             j == h(i)
             g == fds[Side(c, f.io).fd].fmt
  <2>1. i \in DOMAIN conduits /\ Side(c, f.io) # Nil /\ g.name = Append(f.name, v.name)
    BY <1>4 DEF Spawns, On
  <2>2. OneName(f.name)
    BY <1>3 DEF Described
  <2>3. g.name[1] = f.name[1]
    <3> DEFINE nm == Append(f.name, v.name)
    <3>1. nm[1] = f.name[1]
      BY <2>2, ArrayNames
    <3> HIDE DEF nm
    <3>2. g.name = nm
      BY <2>1 DEF nm
    <3> HIDE DEF g, f
    <3>3. QED
      BY <3>1, <3>2
  <2>4. from[i][1] = m
    <3>1. i \in DOMAIN conduits /\ Side(c, f.io) # Nil /\ f.io \in {"in", "out"}
      BY <2>1
    <3>2. OnlyFrom(from, f, m) /\ Bears(c, f.io, f)
      BY <1>0, <2>1, <2>3 DEF Bears
    <3> HIDE DEF S, j, h, f, g
    <3>3. QED
      BY <3>1, <3>2 DEF OnlyFrom
  <2>5. Makes(m, j) /\ MadeFor(c, m, j)
    BY <2>1, <2>4 DEF Traced
  <2> HIDE DEF j, c
  <2>6. j \in 1 .. Len(ListAt(m))
    BY <1>1, <2>5, MakerIs
  <2>7. EndVar(m, j, f.io) = v
    <3>1. CASE f.io = "in"
      <4> DEFINE w == InVarAt(m, j)
      <4>1. FmtAt(m) = f
        BY <3>1, EndIs
      <4>2. InOf(m, j, g)
        BY <2>1, <2>5, <3>1, MadeIn DEF Side
      <4>3. w # Nil /\ g.name = Append(f.name, w.name)
        BY <1>1, <4>1, <4>2 DEF InOf
      <4>4. w.name = v.name
        <5> HIDE DEF w, v, g, f
        <5>1. Append(f.name, w.name) = Append(f.name, v.name)
          BY <2>1, <4>3
        <5>2. QED
          BY <2>2, <5>1, ArrayNames
      <4>5. w \in Range(f.vars) \/ \E u : w = Named(f, u)
        <5>1. CASE OutAt(m) = Nil
          <6>1. ListAt(m) = f.vars
            BY <4>1, <5>1 DEF ListAt, VarsOf, FmtAt
          <6>2. f.vars \in Seq(Range(f.vars))
            BY <1>3 DEF Described
          <6>3. w = f.vars[j] /\ j \in DOMAIN f.vars
            BY <2>6, <5>1, <6>1, <6>2 DEF InVarAt
          <6>4. QED
            BY <6>3 DEF Range
        <5>2. CASE OutAt(m) # Nil
          BY <4>1, <5>2 DEF InVarAt
        <5>3. QED
          BY <5>1, <5>2
      <4>6. w = v
        <5>1. k \in DOMAIN f.vars /\ w # Nil
          BY <4>3
        <5> HIDE DEF w, f
        <5>2. QED
          BY <1>3, <4>4, <4>5, <5>1, OneVariable
      <4>7. QED
        BY <3>1, <4>6 DEF EndVar, w
    <3>2. CASE f.io = "out"
      <4> DEFINE w == ListAt(m)[j]
      <4>1. OutAt(m) = d /\ ListAt(m) = f.vars
        BY <3>2, EndIs
      <4>2. OutOf(m, j, g, f)
        BY <2>1, <2>5, <3>2, <4>1, MadeOut DEF Side
      <4>3. g.name = Append(f.name, w.name)
        BY <1>1, <4>2 DEF OutOf
      <4>4. w.name = v.name
        <5> HIDE DEF w, v, g, f
        <5>1. Append(f.name, w.name) = Append(f.name, v.name)
          BY <2>1, <4>3
        <5>2. QED
          BY <2>2, <5>1, ArrayNames
      <4>5. f.vars \in Seq(Range(f.vars)) /\ \A a, b \in DOMAIN f.vars : f.vars[a].name = f.vars[b].name => a = b
        BY <1>3 DEF Described
      <4>6. j \in DOMAIN f.vars
        BY <2>6, <4>1, <4>5
      <4>7. w = v
        BY <4>1, <4>4, <4>5, <4>6
      <4>8. QED
        BY <3>2, <4>7 DEF EndVar
    <3>3. QED
      BY <3>1, <3>2
  <2>8. QED
    BY <2>1, <2>4, <2>6, <2>7 DEF j
<1>5. \A i, l \in S : h(i) = h(l) => i = l
  BY <1>4 DEF Traced
<1>6. ASSUME NEW j \in T
      PROVE  \E i \in S : h(i) = j
  <2>1. j \in 1 .. Len(ListAt(m)) /\ EndVar(m, j, f.io) = v
    OBVIOUS
  <2>2. PICK i \in DOMAIN conduits : from[i][1] = m /\ from[i][2] = j
    BY <1>1, <1>2, <2>1 DEF AllMade
  <2> DEFINE c == conduits[i]
  <2>3. MadeFor(c, m, j)
    BY <2>2 DEF Traced
  <2>4. Side(c, f.io) # Nil /\ fds[Side(c, f.io).fd].fmt.name = Append(f.name, v.name)
    <3>1. CASE f.io = "in"
      <4>1. InVarAt(m, j) = v /\ FmtAt(m) = f
        BY <2>1, <3>1, EndIs DEF EndVar
      <4>2. c.in # Nil /\ ArrayPole(c.in, f, v, ListAt(m)[j], job.inFile)
        BY <1>1, <1>3, <2>3, <4>1 DEF MadeFor
      <4>3. fds[c.in.fd].fmt.name = Append(f.name, v.name)
        <5> HIDE DEF f, v, c
        <5>1. PICK w : fds[c.in.fd].fmt = AsPlaced(Spawned(f, v), w)
          BY <4>2 DEF ArrayPole
        <5>2. AsPlaced(Spawned(f, v), w).name = Append(f.name, v.name)
          BY SpawnedHas
        <5>3. QED
          BY <5>1, <5>2
      <4>4. QED
        BY <3>1, <4>2, <4>3 DEF Side
    <3>2. CASE f.io = "out"
      <4>1. OutAt(m) = d /\ ListAt(m)[j] = v
        BY <2>1, <3>2, EndIs DEF EndVar
      <4>2. c.out # Nil /\ ArrayPole(c.out, f, v, v, job.outFile)
        BY <1>1, <2>3, <4>1 DEF MadeFor
      <4>3. fds[c.out.fd].fmt.name = Append(f.name, v.name)
        <5> HIDE DEF f, v, c
        <5>1. PICK w : fds[c.out.fd].fmt = AsPlaced(Spawned(f, v), w)
          BY <4>2 DEF ArrayPole
        <5>2. AsPlaced(Spawned(f, v), w).name = Append(f.name, v.name)
          BY SpawnedHas
        <5>3. QED
          BY <5>1, <5>2
      <4>4. QED
        BY <3>2, <4>2, <4>3 DEF Side
    <3>3. QED
      BY <3>1, <3>2
  <2>5. i \in S
    BY <2>2, <2>4 DEF Spawns, On
  <2>6. QED
    BY <2>2, <2>5
<1>7. IsFiniteSet(S)
  <2>1. IsFiniteSet(1 .. Len(conduits)) /\ DOMAIN conduits = 1 .. Len(conduits)
    BY FS_Interval DEF Listed
  <2>2. S \subseteq DOMAIN conduits
    BY DEF Spawns, On
  <2>3. QED
    BY <2>1, <2>2, FS_Subset
<1>8. \A i \in S : h(i) \in T
  BY <1>4
<1> HIDE DEF S, T, h
<1>9. Cardinality(S) = Cardinality(T)
  <2> DEFINE e == [i \in S |-> h(i)]
  <2>1. e \in [S -> T] /\ \A i \in S : e[i] = h(i)
    BY <1>8
  <2> HIDE DEF e
  <2>2. /\ \A i, l \in S : e[i] = e[l] => i = l
        /\ \A j \in T : \E i \in S : e[i] = j
    BY <1>5, <1>6, <2>1
  <2>3. QED
    BY <1>7, <2>1, <2>2, AsMany
<1>10. QED
  BY <1>9 DEF S, T

\* When all conduits are made, every format is on its side of them.
LEMMA Connected ==
  ASSUME CInv, NilIsNothing, FormatsAreNamed
  PROVE  EachConnected
<1> SUFFICES ASSUME stage = "free", NEW d \in Range(fdl), fds[d].fmt.kind # "record"
             PROVE  LET f == fds[d].fmt IN
                    IF ~f.array THEN Cardinality(Copies(f)) = 1
                    ELSE \A k \in DOMAIN f.vars :
                            Cardinality(Spawns(f, f.vars[k])) =
                            IF f.io = "out" \/ OutputOf(f) = Nil THEN 1 ELSE Cardinality(Asked(f, f.vars[k]))
  BY DEF EachConnected
<1> DEFINE f == fds[d].fmt
<1>1. Known0 /\ Connecting /\ at.fd > Len(fdl) /\ Listed
  BY ListKnown DEF CInv, SInv
<1>2. PICK from : Traced(from)
  BY <1>1 DEF Connecting
<1>3. Placings /\ Held /\ at.fd \in Int /\ Len(fdl) \in Nat
  <2>1. Held /\ Placings
    BY <1>1, PlacesAre DEF Known0
  <2>2. at.fd \in Int
    BY DEF CInv, SInv, Staged
  <2>3. QED
    BY <2>1, <2>2 DEF Placings
<1>4. \A p \in 1 .. Len(fdl) : p < at.fd
  <2> DEFINE n == Len(fdl)
             a == at.fd
  <2>1. n \in Nat /\ a \in Int /\ a > n
    BY <1>1, <1>3
  <2> HIDE DEF n, a
  <2>2. \A p \in 1 .. n : p < a
    BY <2>1
  <2>3. QED
    BY <2>2 DEF n, a
<1>5. (\A p \in 1 .. Len(fdl) : Mates(p)) /\ AllMade(from)
  BY <1>1, <1>2, <1>4 DEF Connecting, Traced, Before, AllMade
<1>6. f.io \in {"in", "out"} /\ \E m : Ended(m, d)
  BY <1>1, <1>5, MakerFound
<1>7. PICK m : Ended(m, d)
  BY <1>6
<1>8. d # Nil
  BY <1>3 DEF Held
<1>9. CASE ~f.array
  BY <1>1, <1>2, <1>5, <1>6, <1>7, <1>8, <1>9, OneCopy
<1>10. CASE f.array
  <2> SUFFICES ASSUME NEW k \in DOMAIN f.vars
               PROVE  Cardinality(Spawns(f, f.vars[k])) =
                      IF f.io = "out" \/ OutputOf(f) = Nil THEN 1 ELSE Cardinality(Asked(f, f.vars[k]))
    BY <1>10
  <2> DEFINE v == f.vars[k]
             T == {j \in 1 .. Len(ListAt(m)) : EndVar(m, j, f.io) = v}
  <2>1. Cardinality(Spawns(f, v)) = Cardinality(T)
    BY <1>1, <1>2, <1>5, <1>6, <1>7, <1>8, <1>10, SpawnsAre
  <2>2. Described(f) /\ m \in 1 .. Len(fdl)
    <3>1. Known(f) /\ job \in Jobs /\ FormatsAreNamed
      BY <1>1 DEF Known0, Sourced
    <3>2. QED
      BY <1>7, <3>1, KnownIs DEF Ended
  <2>3. /\ f.vars \in Seq(Range(f.vars)) /\ DOMAIN f.vars = 1 .. Len(f.vars)
        /\ \A i, j \in DOMAIN f.vars : f.vars[i] = f.vars[j] => i = j
    BY <2>2 DEF Described
  <2>4. ASSUME ListAt(m) = f.vars, \A j \in 1 .. Len(ListAt(m)) : EndVar(m, j, f.io) = ListAt(m)[j]
        PROVE  Cardinality(T) = 1
    <3>1. T = {k}
      BY <2>3, <2>4
    <3>2. QED
      BY <3>1, FS_Singleton
  <2>5. CASE f.io = "out"
    <3>1. ListAt(m) = f.vars
      BY <1>1, <1>7, <1>8, <2>5, EndIs
    <3>2. \A j \in 1 .. Len(ListAt(m)) : EndVar(m, j, f.io) = ListAt(m)[j]
      BY <2>5 DEF EndVar
    <3>3. Cardinality(T) = 1
      BY <2>4, <3>1, <3>2
    <3>4. QED
      BY <2>1, <2>5, <3>3
  <2>6. CASE f.io = "in"
    <3>1. FmtAt(m) = f /\ FdAt(m) = d /\ OutAt(m) = OutputOf(f)
      BY <1>1, <1>7, <1>8, <2>6, EndIs
    <3>2. CASE OutputOf(f) = Nil
      <4>1. ListAt(m) = f.vars
        BY <3>1, <3>2 DEF ListAt, VarsOf
      <4>2. \A j \in 1 .. Len(ListAt(m)) : EndVar(m, j, f.io) = ListAt(m)[j]
        BY <2>6, <3>1, <3>2 DEF EndVar, InVarAt
      <4>3. Cardinality(T) = 1
        BY <2>4, <4>1, <4>2
      <4>4. QED
        BY <2>1, <3>2, <4>3
    <3>3. CASE OutputOf(f) # Nil
      <4>1. ListAt(m) = VarsOf(OutputOf(f))
        BY <3>1, <3>3 DEF ListAt
      <4>2. \A j \in 1 .. Len(ListAt(m)) : EndVar(m, j, f.io) = Named(f, ListAt(m)[j])
        BY <2>6, <3>1, <3>3 DEF EndVar, InVarAt
      <4>3. DOMAIN ListAt(m) = 1 .. Len(ListAt(m))
        <5>1. Described(fds[OutAt(m)].fmt)
          BY <1>1, <2>2, <3>1, <3>3, PlaceIs
        <5>2. ListAt(m) \in Seq(Range(ListAt(m)))
          BY <3>1, <4>1, <5>1 DEF Described, VarsOf
        <5>3. QED
          BY <5>2
      <4>4. T = Asked(f, v)
        BY <4>1, <4>2, <4>3 DEF Asked
      <4>5. QED
        BY <2>1, <2>6, <3>3, <4>4
    <3>4. QED
      BY <3>2, <3>3
  <2>7. QED
    BY <1>6, <2>5, <2>6
<1>11. QED
  BY <1>9, <1>10

-----------------------------------------------------------------------------
(* The places of the arrays *)

\* Where an array is, and its variable in it
LEMMA ArrayIs ==
  ASSUME NEW F, NEW v, IsVar(v), NEW w, RecordFd(v) = Nil, RecordFd(w) = Nil, NEW file
  PROVE  LET g == AsPlaced(Spawned(F, v), w)
         IN  Offset(v, Spawned(F, v), w, file) + g.vars[1].start = v.start /\ g.vars[1].len = v.len
<1> DEFINE s == Spawned(F, v)
           g == AsPlaced(s, w)
           name == Append(F.name, v.name)
           kind == F.kind
           enc == F.enc
           io == F.io
           u == Placed(v)
<1>1. s = [name |-> name, kind |-> kind, enc |-> enc, io |-> io, array |-> TRUE, vars |-> <<v>>]
  BY DEF Spawned
<1> HIDE DEF name, kind, enc, io
<1>2. u.start = 1 /\ u.len = v.len
  <2>1. v = [name |-> v.name, start |-> v.start, len |-> v.len, array |-> v.array, rec |-> v.rec]
    BY DEF IsVar
  <2>2. u = [name |-> v.name, start |-> 1, len |-> v.len, array |-> v.array, rec |-> v.rec]
    BY <2>1 DEF Placed
  <2> HIDE DEF u
  <2>3. QED
    BY <2>2
<1>3. s.vars = <<v>> /\ s.vars[1] = v
  <2> HIDE DEF s
  <2>1. s.vars = <<v>>
    BY <1>1
  <2>2. QED
    BY <2>1
<1>4. g = [s EXCEPT !.vars[1] = u]
  <2>1. g = [s EXCEPT !.vars[1] = Placed(@)]
    BY DEF AsPlaced
  <2> HIDE DEF s, g
  <2>2. QED
    BY <1>3, <2>1
<1>5. g.vars[1] = u
  <2> HIDE DEF s, g, u
  <2>1. [s EXCEPT !.vars[1] = u].vars = [s.vars EXCEPT ![1] = u]
    BY <1>1
  <2>2. g.vars = [<<v>> EXCEPT ![1] = u]
    BY <1>3, <1>4, <2>1
  <2>3. QED
    BY <2>2
<1>6. Offset(v, s, w, file) = v.start - 1
  <2>1. Offset(v, s, w, file) = s.vars[1].start - 1
    BY DEF Offset
  <2> HIDE DEF s
  <2>2. QED
    BY <1>3, <2>1
<1>7. v.start \in Int
  BY DEF IsVar
<1> HIDE DEF s, g, u
<1>8. Offset(v, s, w, file) + g.vars[1].start = v.start /\ g.vars[1].len = v.len
  BY <1>2, <1>5, <1>6, <1>7
<1>9. QED
  BY <1>8 DEF s, g

\* A pole whose format is the array of a variable is of a place of an array.
LEMMA InOfArray ==
  ASSUME NEW m, NEW j, NEW g, InOf(m, j, g), Len(g.name) = 2
  PROVE  FmtAt(m).name[1] = g.name[1] /\ FmtAt(m).array
BY DEF InOf

LEMMA OutOfArray ==
  ASSUME NEW m, NEW j, NEW g, NEW o, OutOf(m, j, g, o), Len(g.name) = 2
  PROVE  o.name[1] = g.name[1] /\ FmtAt(m).array /\ OutAt(m) # Nil
BY DEF OutOf

\* A format is the array of a variable of f
Names(g, f, v) == g.name = Append(f.name, v.name)

\* The array of a variable is at the bytes that the variable has.
LEMMA Positioned ==
  ASSUME CInv, NilIsNothing, FormatsAreNamed
  PROVE  ArraysPlaced
<1> SUFFICES ASSUME stage = "free", NEW i \in DOMAIN conduits, NEW p \in {conduits[i].in, conduits[i].out} \ {Nil},
                    NEW d \in Range(fdl), NEW k \in DOMAIN fds[d].fmt.vars,
                    Names(fds[p.fd].fmt, fds[d].fmt, fds[d].fmt.vars[k]),
                    PlainBoth(fds[d].fmt, fds[d].fmt.vars[k])
             PROVE  /\ p.offset + fds[p.fd].fmt.vars[1].start = fds[d].fmt.vars[k].start
                    /\ fds[p.fd].fmt.vars[1].len = fds[d].fmt.vars[k].len
  BY DEF ArraysPlaced, Names
<1> DEFINE f == fds[d].fmt
           v == f.vars[k]
           g == fds[p.fd].fmt
           c == conduits[i]
<1>1. Known0 /\ Connecting
  BY ListKnown DEF CInv
<1>2. PICK from : Traced(from)
  BY <1>1 DEF Connecting
<1>3. PICK m, j : Makes(m, j) /\ MadeFor(c, m, j)
  BY <1>2 DEF Traced
<1>4. m \in 1 .. Len(fdl) /\ Sided(m) /\ (FmtAt(m).array => j \in 1 .. Len(ListAt(m)))
  BY <1>1, <1>3, MakerIs
<1>5. Known(f) /\ job \in Jobs /\ FormatsAreNamed
  BY <1>1 DEF Known0, Sourced
<1>6. Described(f) /\ OneName(f.name) /\ IsVar(v) /\ v # Nil
  <2>1. Described(f)
    BY <1>5, KnownIs
  <2>2. QED
    BY <2>1 DEF Described, IsVar
<1>7. g.name = Append(f.name, v.name) /\ p # Nil /\ (p = c.in \/ p = c.out)
  BY DEF Names
<1>8. g.name[1] = f.name[1] /\ Len(g.name) = 2
  <2> DEFINE nm == Append(f.name, v.name)
  <2>1. nm[1] = f.name[1] /\ Len(nm) = 2
    BY <1>6, ArrayNames
  <2>2. g.name = nm
    BY <1>7
  <2> HIDE DEF nm, g, f
  <2>3. QED
    BY <2>1, <2>2
<1>9. RecordFd(v) = Nil
  BY DEF PlainBoth
<1> HIDE DEF c
<1>10. CASE p = c.in
  <2> DEFINE F == FmtAt(m)
             x == InVarAt(m, j)
             w == ListAt(m)[j]
  <2>1. c.in # Nil
    BY <1>7, <1>10
  <2>2. InOf(m, j, g)
    BY <1>1, <1>3, <1>10, <2>1, MadeIn
  <2>3. F.name[1] = f.name[1] /\ F.array
    BY <1>8, <2>2, InOfArray
  <2>4. Known(F)
    BY <1>1, <1>4, PlaceIs
  <2>5. F.name = f.name /\ F.kind = f.kind /\ F.vars = f.vars
    BY <1>5, <2>3, <2>4, KnownIs
  <2>6. x # Nil /\ g.name = Append(F.name, x.name) /\ ArrayPole(p, F, x, w, job.inFile)
    BY <1>3, <1>10, <2>1, <2>2, <2>3 DEF InOf, MadeFor
  <2>7. x.name = v.name
    <3> HIDE DEF x, v, g, f, F
    <3>1. Append(f.name, x.name) = Append(f.name, v.name)
      BY <1>7, <2>5, <2>6
    <3>2. QED
      BY <1>6, <3>1, ArrayNames
  <2>8. OutAt(m) = Nil => x = w /\ x \in Range(f.vars)
    <3>1. ASSUME OutAt(m) = Nil
          PROVE  ListAt(m) = f.vars /\ x = w
      BY <2>5, <3>1 DEF ListAt, VarsOf, FmtAt, InVarAt
    <3>2. f.vars \in Seq(Range(f.vars)) /\ j \in 1 .. Len(ListAt(m))
      BY <1>4, <1>6, <2>3 DEF Described
    <3>3. \A l \in 1 .. Len(f.vars) : f.vars[l] \in Range(f.vars)
      BY <3>2 DEF Range
    <3>4. QED
      BY <3>1, <3>2, <3>3
  <2>9. OutAt(m) # Nil => x = Named(f, w)
    BY <2>5 DEF InVarAt, Named
  <2>10. x = v
    <3>1. k \in DOMAIN f.vars
      OBVIOUS
    <3> HIDE DEF x, f, w
    <3>2. QED
      BY <1>6, <2>6, <2>7, <2>8, <2>9, <3>1, OneVariable
  <2>11. RecordFd(w) = Nil
    <3>1. CASE OutAt(m) = Nil
      BY <1>9, <2>8, <2>10, <3>1
    <3>2. CASE OutAt(m) # Nil
      <4> DEFINE e == OutAt(m)
      <4>1. e \in Range(fdl)
        BY <1>1, <1>4, <3>2, OtherSide, PlacesAre DEF Known0
      <4>2. fds[e].fmt.io = "out" /\ fds[e].fmt.kind = f.kind
        BY <1>4, <2>5, <3>2 DEF Sided, FmtAt
      <4>3. ListAt(m) = VarsOf(e)
        BY <3>2 DEF ListAt
      <4>4. j \in DOMAIN VarsOf(e)
        <5>1. Described(fds[e].fmt)
          BY <1>1, <1>4, <3>2, PlaceIs
        <5>2. VarsOf(e) \in Seq(Range(VarsOf(e)))
          BY <5>1 DEF Described, VarsOf
        <5>3. j \in 1 .. Len(VarsOf(e))
          BY <1>4, <2>3, <4>3
        <5> HIDE DEF e
        <5>4. QED
          BY <5>2, <5>3
      <4>5. Named(f, VarsOf(e)[j]) = v
        BY <2>9, <2>10, <3>2, <4>3
      <4> HIDE DEF e
      <4>6. RecordFd(VarsOf(e)[j]) = Nil
        BY <4>1, <4>2, <4>4, <4>5 DEF PlainBoth
      <4>7. QED
        BY <4>3, <4>6
    <3>3. QED
      BY <3>1, <3>2
  <2>12. g = AsPlaced(Spawned(F, v), w) /\ p.offset = Offset(v, Spawned(F, v), w, job.inFile)
    BY <2>6, <2>10 DEF ArrayPole
  <2> HIDE DEF F, w, v, g
  <2>13. /\ Offset(v, Spawned(F, v), w, job.inFile) + AsPlaced(Spawned(F, v), w).vars[1].start = v.start
         /\ AsPlaced(Spawned(F, v), w).vars[1].len = v.len
    BY <1>6, <1>9, <2>11, ArrayIs
  <2>14. p.offset + g.vars[1].start = v.start /\ g.vars[1].len = v.len
    BY <2>12, <2>13
  <2>15. QED
    BY <2>14 DEF v, g
<1>11. CASE p = c.out
  <2> DEFINE o == fds[OutAt(m)].fmt
             w == ListAt(m)[j]
  <2>1. c.out # Nil
    BY <1>7, <1>11
  <2>2. OutOf(m, j, g, o)
    BY <1>1, <1>3, <1>11, <2>1, MadeOut
  <2>3. o.name[1] = f.name[1] /\ FmtAt(m).array /\ OutAt(m) # Nil
    BY <1>8, <2>2, OutOfArray
  <2>4. Known(o)
    BY <1>1, <1>4, <2>3, PlaceIs
  <2>5. o.name = f.name /\ o.vars = f.vars
    BY <1>5, <2>3, <2>4, KnownIs
  <2>6. g.name = Append(o.name, w.name) /\ ArrayPole(p, o, w, w, job.outFile)
    BY <1>3, <1>11, <2>1, <2>2, <2>3 DEF OutOf, MadeFor
  <2>7. w.name = v.name
    <3> HIDE DEF w, v, g, f, o
    <3>1. Append(f.name, w.name) = Append(f.name, v.name)
      BY <1>7, <2>5, <2>6
    <3>2. QED
      BY <1>6, <3>1, ArrayNames
  <2>8. w = v
    <3>1. ListAt(m) = f.vars
      BY <2>3, <2>5 DEF ListAt, VarsOf
    <3>2. f.vars \in Seq(Range(f.vars)) /\ \A a, b \in DOMAIN f.vars : f.vars[a].name = f.vars[b].name => a = b
      BY <1>6 DEF Described
    <3>3. j \in DOMAIN f.vars
      BY <1>4, <2>3, <3>1, <3>2
    <3>4. QED
      BY <2>7, <3>1, <3>2, <3>3
  <2>9. g = AsPlaced(Spawned(o, v), v) /\ p.offset = Offset(v, Spawned(o, v), v, job.outFile)
    BY <2>6, <2>8 DEF ArrayPole
  <2> HIDE DEF o, w, v, g
  <2>10. /\ Offset(v, Spawned(o, v), v, job.outFile) + AsPlaced(Spawned(o, v), v).vars[1].start = v.start
         /\ AsPlaced(Spawned(o, v), v).vars[1].len = v.len
    BY <1>6, <1>9, ArrayIs
  <2>11. p.offset + g.vars[1].start = v.start /\ g.vars[1].len = v.len
    BY <2>9, <2>10
  <2>12. QED
    BY <2>11 DEF v, g
<1>12. QED
  BY <1>7, <1>10, <1>11

-----------------------------------------------------------------------------
(* Conversions *)

\* Without a name for the output, the two sides are marked for different encodings.
LEMMA Marks ==
  ASSUME job.outExt = "none"
  PROVE  Encoding("in") # Encoding("out")
<1>1. Encoding("in") = IF job.inExt = "dat" THEN "ascii" ELSE IF job.inExt = "dab" THEN "flat" ELSE "binary"
  BY DEF Encoding
<1>2. Encoding("out") = IF job.inExt = "dat" THEN "binary" ELSE "ascii"
  BY DEF Encoding
<1>3. QED
  BY <1>1, <1>2

\* A pole of a format that is for neither side is of the encoding of its side.
LEMMA NeutralMarked ==
  ASSUME FormatsAreNamed, job \in Jobs, job.inTitle = Nil, job.outTitle = Nil,
         NEW d, Neutral(d), Told(fds[d].fmt), fds[d].fmt.io \in {"in", "out"}
  PROVE  fds[d].fmt.enc = Encoding(fds[d].fmt.io)
<1> DEFINE g == fds[d].fmt
<1>1. PICK e \in Range(job.inputFormats) : e.name[1] = g.name[1] /\ e.io = "none"
  BY DEF Neutral
<1>2. PICK f \in Formats(job) : g.name[1] = f.name[1] /\ g.enc = f.enc /\ ForIts(g, f)
  BY DEF Told
<1>3. e \in Formats(job)
  BY DEF Formats
<1>4. OneName(e.name) /\ OneName(f.name)
  BY <1>3 DEF FormatsAreNamed, Described
<1>5. e.name = f.name
  <2>1. <<e.name[1]>> = <<f.name[1]>>
    BY <1>1, <1>2
  <2>2. QED
    BY <1>4, <2>1, Zenon DEF OneName
<1>6. e = f
  BY <1>3, <1>5 DEF FormatsAreNamed
<1>7. QED
  BY <1>1, <1>2, <1>6 DEF ForIts

\* What both sides describe in such formats is converted.
LEMMA Converted ==
  ASSUME CInv, NilIsNothing, FormatsAreNamed
  PROVE  NotCopied
<1>1. PolesTold
  <2>1. CASE stage \in {"connect", "free"}
    BY <2>1, ListKnown, TracedTold DEF Connecting
  <2>2. CASE stage \in Filling \ {"connect", "free"}
    <3>1. conduits = <<>> /\ DOMAIN <<>> = {}
      BY <2>2, Nothing DEF CInv, Begun
    <3>2. QED
      BY <3>1 DEF PolesTold
  <2>3. CASE stage \notin Filling
    BY <2>3 DEF CInv
  <2>4. QED
    BY <2>1, <2>2, <2>3
<1>2. job \in Jobs
  BY DEF CInv, SInv, Staged
<1>3. SUFFICES ASSUME job.outExt = "none", job.inTitle = Nil, job.outTitle = Nil, NEW i \in DOMAIN conduits,
                      conduits[i].in # Nil, conduits[i].out # Nil,
                      Neutral(conduits[i].in.fd), Neutral(conduits[i].out.fd), fds[conduits[i].in.fd].fmt.io = "in"
               PROVE  fds[conduits[i].in.fd].fmt.enc # fds[conduits[i].out.fd].fmt.enc
  BY DEF NotCopied
<1> DEFINE a == conduits[i].in.fd
           b == conduits[i].out.fd
<1>4. /\ Told(fds[a].fmt) /\ Told(fds[b].fmt) /\ fds[b].fmt.io = "out" /\ fds[a].fmt.io = "in"
      /\ Neutral(a) /\ Neutral(b)
  BY <1>1, <1>3 DEF PolesTold
<1> HIDE DEF a, b
<1>5. fds[a].fmt.enc = Encoding("in") /\ fds[b].fmt.enc = Encoding("out")
  BY <1>2, <1>3, <1>4, NeutralMarked
<1>6. QED
  BY <1>3, <1>5, Marks DEF a, b

-----------------------------------------------------------------------------
(* The theorem about conduits *)

\* Whatever the format files hold, if their formats and variables are named apart and a
\* title names data: every description is connected, to the bytes it is about, and to a
\* different one (dbset_create_conduits, set_array_offsets, db_format_list_mark_io).
THEOREM ConduitsAreRight ==
  ASSUME NilIsNothing, FormatsAreNamed
  PROVE  Spec => []ConduitsRight
<1>1. Init => CInv
  BY InitConnected
<1>2. CInv /\ [Next]_vars => CInv'
  BY NextConnected
<1>3. CInv => ConduitsRight
  BY Connected, Positioned, Converted DEF ConduitsRight
<1>4. QED
  BY <1>1, <1>2, <1>3, PTL DEF Spec
=============================================================================
