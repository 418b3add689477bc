----------------------------- MODULE Sums_proofs -----------------------------
(* Sums over finite sets, as MapThenSumSet of the community modules folds     *)
(* them: lemmas for the proofs about offsets, widths and separation.  A       *)
(* fold chooses the order in which it adds; the lemmas say that the order is  *)
(* of no account.                                                             *)
EXTENDS Integers, FiniteSetTheorems, WellFoundedInduction, TLAPS

-----------------------------------------------------------------------------
(* Induction, over a set of numbers *)

\* A set of numbers has a least one.
LEMMA Least ==
  ASSUME NEW T \in SUBSET Nat, T # {}
  PROVE  \E n \in T : \A m \in T : n <= m
<1> DEFINE R == {ss \in Nat \X Nat : ss[1] < ss[2]}
<1>1. IsWellFoundedOn(R, Nat)
  BY NatLessThanWellFounded DEF OpToRel
<1> HIDE DEF R
<1>2. PICK n \in T : \A m \in T : ~ (<<m, n>> \in R)
  BY <1>1, WFMin
<1>3. \A m \in T : ~ (m < n)
  BY <1>2 DEF R
<1>4. QED
  BY <1>3

\* A set that holds 0 and with each number the next one holds them all.
LEMMA FromZero ==
  ASSUME NEW T, 0 \in T, \A n \in Nat : n \in T => n + 1 \in T
  PROVE  Nat \subseteq T
<1> SUFFICES ASSUME Nat \ T # {} PROVE FALSE
  OBVIOUS
<1>1. PICK n \in Nat \ T : \A m \in Nat \ T : n <= m
  <2> DEFINE U == Nat \ T
  <2>1. U \in SUBSET Nat /\ U # {}
    OBVIOUS
  <2> HIDE DEF U
  <2>2. \E n \in U : \A m \in U : n <= m
    BY <2>1, Least
  <2>3. QED
    BY <2>2 DEF U
<1>2. n # 0 /\ n - 1 \in Nat
  BY <1>1
<1>3. n - 1 \in T
  BY <1>1, <1>2
<1>4. n - 1 + 1 = n
  BY <1>1
<1>5. QED
  BY <1>1, <1>2, <1>3, <1>4

-----------------------------------------------------------------------------
(* The fold *)

Chosen(s) == CHOOSE x \in s : TRUE
Summed(w, g, s) == IF s = {} THEN 0 ELSE w[Chosen(s)] + g[s \ {Chosen(s)}]
\* g adds up w over every subset of S
Iterates(g, w, S) == g = [s \in SUBSET S |-> Summed(w, g, s)]
Sum(w, S) == (CHOOSE g : Iterates(g, w, S))[S]

LEMMA Choice ==
  ASSUME NEW s, s # {}
  PROVE  Chosen(s) \in s
BY DEF Chosen

\* The recursive function of the fold exists.
LEMMA FoldExists ==
  ASSUME NEW S, IsFiniteSet(S), NEW w
  PROVE  \E g : Iterates(g, w, S)
<1> DEFINE Upto(g, n) == /\ g = [s \in SUBSET S |-> g[s]]
                         /\ \A s \in SUBSET S : Cardinality(s) <= n => g[s] = Summed(w, g, s)
           T == {n \in Nat : \E g : Upto(g, n)}
<1>1. \A s \in SUBSET S : IsFiniteSet(s) /\ Cardinality(s) \in Nat /\ Cardinality(s) <= Cardinality(S)
  BY FS_Subset, FS_CardinalityType
<1>2. 0 \in T
  <2> DEFINE g == [s \in SUBSET S |-> 0]
  <2>1. \A s \in SUBSET S : Cardinality(s) <= 0 => s = {}
    BY <1>1, FS_EmptySet
  <2>2. Upto(g, 0)
    BY <2>1 DEF Summed
  <2>3. QED
    BY <2>2
<1>3. ASSUME NEW n \in Nat, n \in T
      PROVE  n + 1 \in T
  <2>1. PICK g : Upto(g, n)
    BY <1>3
  <2> DEFINE h == [s \in SUBSET S |-> Summed(w, g, s)]
  <2>2. ASSUME NEW s \in SUBSET S, Cardinality(s) <= n + 1
        PROVE  h[s] = Summed(w, h, s)
    <3>1. CASE s = {}
      BY <3>1 DEF Summed
    <3>2. CASE s # {}
      <4> DEFINE t == s \ {Chosen(s)}
      <4>1. t \in SUBSET S /\ Cardinality(t) <= n
        BY <1>1, <2>2, <3>2, Choice, FS_RemoveElement
      <4>2. h[t] = g[t]
        BY <2>1, <4>1
      <4>3. QED
        BY <3>2, <4>2 DEF Summed
    <3>3. QED
      BY <3>1, <3>2
  <2>3. Upto(h, n + 1)
    BY <2>2
  <2> HIDE DEF h, Upto
  <2>4. QED
    BY <2>3
<1>4. Cardinality(S) \in T
  <2> HIDE DEF T
  <2>1. QED
    BY <1>2, <1>3, FromZero, FS_CardinalityType
<1>5. PICK g : Upto(g, Cardinality(S))
  BY <1>4
<1>6. Iterates(g, w, S)
  BY <1>1, <1>5 DEF Iterates
<1>7. QED
  BY <1>6

\* Two such functions agree on the subsets that they share, if what they add
\* agrees there.
LEMMA FoldUnique ==
  ASSUME NEW S, NEW U, NEW w, NEW v, NEW g, NEW h,
         Iterates(g, w, S), Iterates(h, v, U),
         NEW s, s \subseteq S, s \subseteq U, IsFiniteSet(s),
         \A x \in s : w[x] = v[x]
  PROVE  g[s] = h[s]
<1> DEFINE Agree(t) == g[t] = h[t]
           T == {n \in Nat : \A t \in SUBSET s : Cardinality(t) = n => Agree(t)}
<1>1. \A t \in SUBSET s : IsFiniteSet(t) /\ Cardinality(t) \in Nat
  BY FS_Subset, FS_CardinalityType
<1>2. \A t \in SUBSET s : g[t] = Summed(w, g, t) /\ h[t] = Summed(v, h, t)
  BY DEF Iterates
<1>3. 0 \in T
  <2>1. ASSUME NEW t \in SUBSET s, Cardinality(t) = 0
        PROVE  Agree(t)
    <3>1. t = {}
      BY <1>1, <2>1, FS_EmptySet
    <3>2. Summed(w, g, t) = 0 /\ Summed(v, h, t) = 0
      BY <3>1 DEF Summed
    <3>3. QED
      BY <1>2, <3>2
  <2>2. QED
    BY <2>1
<1>4. ASSUME NEW n \in Nat, n \in T
      PROVE  n + 1 \in T
  <2>1. ASSUME NEW t \in SUBSET s, Cardinality(t) = n + 1
        PROVE  Agree(t)
    <3>1. t # {}
      BY <1>1, <2>1, FS_EmptySet
    <3> DEFINE u == t \ {Chosen(t)}
    <3>2. Chosen(t) \in s /\ u \in SUBSET s /\ Cardinality(u) = n
      <4>1. Chosen(t) \in t
        BY <3>1, Choice
      <4>2. Cardinality(u) = n + 1 - 1
        BY <1>1, <2>1, <4>1, FS_RemoveElement
      <4>3. QED
        BY <4>1, <4>2
    <3>3. g[u] = h[u]
      BY <1>4, <3>2
    <3>4. QED
      BY <1>2, <3>1, <3>2, <3>3 DEF Summed
  <2>2. QED
    BY <2>1
<1>5. Cardinality(s) \in T
  <2> HIDE DEF T
  <2>1. QED
    BY <1>3, <1>4, FromZero, FS_CardinalityType
<1>6. QED
  BY <1>5

-----------------------------------------------------------------------------
(* Sums *)

\* What a sum is, by the function that folds a larger set.
LEMMA SumIs ==
  ASSUME NEW S, IsFiniteSet(S), NEW w
  PROVE  \E g : Iterates(g, w, S) /\ \A s \in SUBSET S : Sum(w, s) = g[s]
<1>1. PICK g : Iterates(g, w, S)
  BY FoldExists
<1>2. ASSUME NEW s \in SUBSET S
      PROVE  Sum(w, s) = g[s]
  <2>1. IsFiniteSet(s)
    BY FS_Subset
  <2> DEFINE h == CHOOSE h : Iterates(h, w, s)
  <2>2. Iterates(h, w, s)
    BY <2>1, FoldExists
  <2>3. Sum(w, s) = h[s]
    BY DEF Sum
  <2> HIDE DEF h
  <2>4. h[s] = g[s]
    BY <1>1, <2>1, <2>2, FoldUnique
  <2>5. QED
    BY <2>3, <2>4
<1>3. QED
  BY <1>1, <1>2

LEMMA SumEmpty ==
  ASSUME NEW w
  PROVE  Sum(w, {}) = 0
<1>1. PICK g : Iterates(g, w, {}) /\ \A s \in SUBSET {} : Sum(w, s) = g[s]
  BY SumIs, FS_EmptySet
<1>2. g[{}] = Summed(w, g, {})
  BY <1>1 DEF Iterates
<1>3. QED
  BY <1>1, <1>2 DEF Summed

LEMMA SumChosen ==
  ASSUME NEW S, IsFiniteSet(S), S # {}, NEW w
  PROVE  Sum(w, S) = w[Chosen(S)] + Sum(w, S \ {Chosen(S)})
<1>1. PICK g : Iterates(g, w, S) /\ \A s \in SUBSET S : Sum(w, s) = g[s]
  BY SumIs
<1>2. g[S] = Summed(w, g, S)
  BY <1>1 DEF Iterates
<1>3. QED
  BY <1>1, <1>2 DEF Summed

\* A sum depends on what is added, nothing else.
LEMMA SumEqual ==
  ASSUME NEW S, IsFiniteSet(S), NEW w, NEW v, \A x \in S : w[x] = v[x]
  PROVE  Sum(w, S) = Sum(v, S)
<1>1. PICK g : Iterates(g, w, S) /\ \A s \in SUBSET S : Sum(w, s) = g[s]
  BY SumIs
<1>2. PICK h : Iterates(h, v, S) /\ \A s \in SUBSET S : Sum(v, s) = h[s]
  BY SumIs
<1>3. g[S] = h[S]
  BY <1>1, <1>2, FoldUnique
<1>4. QED
  BY <1>1, <1>2, <1>3

\* Any element may be taken out first.
LEMMA SumRemove ==
  ASSUME NEW S, IsFiniteSet(S), NEW w, \A x \in S : w[x] \in Nat
  PROVE  /\ Sum(w, S) \in Nat
         /\ \A x \in S : Sum(w, S) = w[x] + Sum(w, S \ {x})
<1> DEFINE Right(s) == /\ Sum(w, s) \in Nat
                       /\ \A x \in s : Sum(w, s) = w[x] + Sum(w, s \ {x})
           T == {n \in Nat : \A s \in SUBSET S : Cardinality(s) <= n => Right(s)}
<1>1. \A s \in SUBSET S : IsFiniteSet(s) /\ Cardinality(s) \in Nat
  BY FS_Subset, FS_CardinalityType
<1>2. 0 \in T
  <2>1. ASSUME NEW s \in SUBSET S, Cardinality(s) <= 0
        PROVE  Right(s)
    <3>1. s = {}
      BY <1>1, <2>1, FS_EmptySet
    <3>2. Sum(w, s) = 0
      BY <3>1, SumEmpty
    <3>3. QED
      BY <3>1, <3>2
  <2>2. QED
    BY <2>1
<1>3. ASSUME NEW n \in Nat, n \in T
      PROVE  n + 1 \in T
  <2>1. ASSUME NEW s \in SUBSET S, Cardinality(s) <= n + 1, s # {}
        PROVE  Right(s)
    <3> DEFINE c == Chosen(s)
    <3>1. c \in s /\ Sum(w, s) = w[c] + Sum(w, s \ {c})
      BY <1>1, <2>1, Choice, SumChosen
    <3> HIDE DEF c
    <3>2. ASSUME NEW x \in s
          PROVE  s \ {x} \in SUBSET S /\ Right(s \ {x})
      <4>1. s \ {x} \in SUBSET S /\ Cardinality(s \ {x}) <= n
        BY <1>1, <2>1, FS_RemoveElement
      <4>2. QED
        BY <1>3, <4>1
    <3>3. Sum(w, s) \in Nat
      <4>1. w[c] \in Nat /\ Sum(w, s \ {c}) \in Nat
        BY <3>1, <3>2
      <4>2. QED
        BY <3>1, <4>1
    <3>4. ASSUME NEW x \in s, x # c
          PROVE  Sum(w, s) = w[x] + Sum(w, s \ {x})
      <4> DEFINE r == Sum(w, (s \ {x}) \ {c})
      <4>1. (s \ {x}) \ {c} = (s \ {c}) \ {x}
        OBVIOUS
      <4>2. Sum(w, s \ {c}) = w[x] + Sum(w, (s \ {c}) \ {x})
        BY <3>1, <3>2, <3>4
      <4>3. Sum(w, s \ {x}) = w[c] + r
        BY <3>1, <3>2, <3>4
      <4>4. r \in Nat
        <5>1. /\ (s \ {x}) \ {c} \in SUBSET S
              /\ Cardinality((s \ {x}) \ {c}) <= n
          <6>1. Cardinality(s \ {x}) \in Nat /\ Cardinality(s \ {x}) <= n
            BY <1>1, <2>1, FS_RemoveElement
          <6> DEFINE y == s \ {x}
          <6>2. y \in SUBSET S /\ IsFiniteSet(y) /\ Cardinality(y) \in Nat /\ Cardinality(y) <= n
            BY <1>1, <6>1
          <6> HIDE DEF y
          <6>3. Cardinality(y \ {c}) <= n
            <7>1. Cardinality(y \ {c})
                    = IF c \in y THEN Cardinality(y) - 1 ELSE Cardinality(y)
              BY <6>2, FS_RemoveElement
            <7>2. QED
              BY <6>2, <7>1
          <6>4. QED
            BY <6>2, <6>3 DEF y
        <5>2. QED
          BY <1>3, <5>1
      <4>5. w[c] \in Nat /\ w[x] \in Nat
        BY <3>1
      <4> HIDE DEF r
      <4>6. Sum(w, s \ {c}) = w[x] + r
        BY <4>1, <4>2 DEF r
      <4>7. QED
        BY <3>1, <4>3, <4>4, <4>5, <4>6
    <3>5. QED
      BY <3>1, <3>3, <3>4
  <2>2. ASSUME NEW s \in SUBSET S, s = {}
        PROVE  Right(s)
    BY <2>2, <1>2, FS_EmptySet
  <2>3. QED
    BY <2>1, <2>2
<1>4. Cardinality(S) \in T
  <2> HIDE DEF T
  <2>1. QED
    BY <1>2, <1>3, FromZero, FS_CardinalityType
<1>5. QED
  BY <1>1, <1>4

\* A part of what is added is no more than all of it.
LEMMA SumSubset ==
  ASSUME NEW S, IsFiniteSet(S), NEW w, \A x \in S : w[x] \in Nat,
         NEW U \in SUBSET S
  PROVE  Sum(w, U) \in Nat /\ Sum(w, U) <= Sum(w, S)
<1> DEFINE Right(s) == U \subseteq s => Sum(w, U) <= Sum(w, s)
           T == {n \in Nat : \A s \in SUBSET S : Cardinality(s) <= n => Right(s)}
<1>1. \A s \in SUBSET S : /\ IsFiniteSet(s) /\ Cardinality(s) \in Nat
                          /\ \A x \in s : w[x] \in Nat
  BY FS_Subset, FS_CardinalityType
<1>2. \A s \in SUBSET S : Sum(w, s) \in Nat
  BY <1>1, SumRemove
<1>3. 0 \in T
  <2>1. ASSUME NEW s \in SUBSET S, Cardinality(s) <= 0, U \subseteq s
        PROVE  Sum(w, U) <= Sum(w, s)
    <3>1. s = {}
      BY <1>1, <2>1, FS_EmptySet
    <3>2. s = U
      BY <2>1, <3>1
    <3>3. QED
      BY <1>2, <3>2
  <2>2. QED
    BY <2>1
<1>4. ASSUME NEW n \in Nat, n \in T
      PROVE  n + 1 \in T
  <2>1. ASSUME NEW s \in SUBSET S, Cardinality(s) <= n + 1, U \subseteq s, U # s
        PROVE  Sum(w, U) <= Sum(w, s)
    <3>1. PICK x \in s : x \notin U
      BY <2>1
    <3> DEFINE t == s \ {x}
    <3>2. t \in SUBSET S /\ U \subseteq t
      BY <2>1, <3>1
    <3>3. Cardinality(t) <= n
      <4>1. Cardinality(t) = Cardinality(s) - 1
        BY <1>1, <3>1, FS_RemoveElement
      <4>2. QED
        BY <1>1, <2>1, <4>1
    <3>4. Sum(w, U) <= Sum(w, t)
      BY <1>4, <3>2, <3>3
    <3>5. Sum(w, s) = w[x] + Sum(w, t)
      BY <1>1, <3>1, SumRemove
    <3> HIDE DEF t
    <3>6. QED
      BY <1>1, <1>2, <3>1, <3>2, <3>4, <3>5
  <2>2. QED
    BY <1>2, <2>1
<1>5. Cardinality(S) \in T
  <2> HIDE DEF T
  <2>1. QED
    BY <1>3, <1>4, FromZero, FS_CardinalityType
<1>6. QED
  BY <1>1, <1>2, <1>5

\* Nothing but zeros adds up to zero.
LEMMA SumZero ==
  ASSUME NEW S, IsFiniteSet(S), NEW w, \A x \in S : w[x] = 0
  PROVE  Sum(w, S) = 0
<1> DEFINE T == {n \in Nat : \A s \in SUBSET S : Cardinality(s) <= n => Sum(w, s) = 0}
<1>1. \A s \in SUBSET S : IsFiniteSet(s) /\ Cardinality(s) \in Nat
  BY FS_Subset, FS_CardinalityType
<1>2. 0 \in T
  <2>1. ASSUME NEW s \in SUBSET S, Cardinality(s) <= 0
        PROVE  Sum(w, s) = 0
    <3>1. s = {}
      BY <1>1, <2>1, FS_EmptySet
    <3>2. QED
      BY <3>1, SumEmpty
  <2>2. QED
    BY <2>1
<1>3. ASSUME NEW n \in Nat, n \in T
      PROVE  n + 1 \in T
  <2>1. ASSUME NEW s \in SUBSET S, Cardinality(s) <= n + 1, s # {}
        PROVE  Sum(w, s) = 0
    <3> DEFINE c == Chosen(s)
               t == s \ {c}
    <3>1. c \in s /\ Sum(w, s) = w[c] + Sum(w, t)
      BY <1>1, <2>1, Choice, SumChosen
    <3>2. Cardinality(t) = Cardinality(s) - 1
      BY <1>1, <3>1, FS_RemoveElement
    <3>3. t \in SUBSET S /\ Cardinality(t) <= n
      BY <1>1, <2>1, <3>2
    <3>4. Sum(w, t) = 0 /\ w[c] = 0
      BY <1>3, <3>1, <3>3
    <3> HIDE DEF c, t
    <3>5. QED
      BY <3>1, <3>4
  <2>2. QED
    BY <2>1, SumEmpty
<1>4. Cardinality(S) \in T
  <2> HIDE DEF T
  <2>1. QED
    BY <1>2, <1>3, FromZero, FS_CardinalityType
<1>5. QED
  BY <1>1, <1>4

\* What two sets that share nothing add up to
LEMMA SumUnion ==
  ASSUME NEW A, NEW B, IsFiniteSet(A), IsFiniteSet(B), A \cap B = {},
         NEW w, \A x \in A \cup B : w[x] \in Nat
  PROVE  Sum(w, A \cup B) = Sum(w, A) + Sum(w, B)
<1> DEFINE Right(s) == Sum(w, A \cup s) = Sum(w, A) + Sum(w, s)
           T == {n \in Nat : \A s \in SUBSET B : Cardinality(s) <= n => Right(s)}
<1>1. \A s \in SUBSET B : IsFiniteSet(s) /\ Cardinality(s) \in Nat
  BY FS_Subset, FS_CardinalityType
<1>2. \A s \in SUBSET B : IsFiniteSet(A \cup s)
  BY <1>1, FS_Union
<1>3. /\ \A s \in SUBSET B : Sum(w, s) \in Nat /\ Sum(w, A \cup s) \in Nat
      /\ Sum(w, A) \in Nat
  <2>1. \A s : IsFiniteSet(s) /\ s \subseteq A \cup B => Sum(w, s) \in Nat
    BY SumRemove
  <2>2. QED
    BY <1>1, <1>2, <2>1
<1>4. 0 \in T
  <2>1. ASSUME NEW s \in SUBSET B, Cardinality(s) <= 0
        PROVE  Right(s)
    <3>1. s = {}
      BY <1>1, <2>1, FS_EmptySet
    <3>2. A \cup s = A /\ Sum(w, s) = 0
      BY <3>1, SumEmpty
    <3>3. QED
      BY <1>3, <3>2
  <2>2. QED
    BY <2>1
<1>5. ASSUME NEW n \in Nat, n \in T
      PROVE  n + 1 \in T
  <2>1. ASSUME NEW s \in SUBSET B, Cardinality(s) <= n + 1, s # {}
        PROVE  Right(s)
    <3>1. PICK x \in s : TRUE
      BY <2>1
    <3> DEFINE t == s \ {x}
    <3>2. Cardinality(t) = Cardinality(s) - 1
      BY <1>1, FS_RemoveElement
    <3>3. t \in SUBSET B /\ Cardinality(t) <= n
      BY <1>1, <2>1, <3>2
    <3>4. Sum(w, A \cup t) = Sum(w, A) + Sum(w, t)
      BY <1>5, <3>3
    <3>5. Sum(w, s) = w[x] + Sum(w, t)
      BY <1>1, SumRemove
    <3>6. Sum(w, A \cup s) = w[x] + Sum(w, A \cup t)
      <4>1. (A \cup s) \ {x} = A \cup t
        OBVIOUS
      <4>2. Sum(w, A \cup s) = w[x] + Sum(w, (A \cup s) \ {x})
        BY <1>2, SumRemove
      <4>3. QED
        BY <4>1, <4>2
    <3> HIDE DEF t
    <3>7. QED
      BY <1>3, <3>3, <3>4, <3>5, <3>6
  <2>2. \A s \in SUBSET B : s = {} => Right(s)
    BY <1>4, FS_EmptySet
  <2>3. QED
    BY <2>1, <2>2
<1>6. Cardinality(B) \in T
  <2> HIDE DEF T
  <2>1. QED
    BY <1>4, <1>5, FromZero, FS_CardinalityType
<1>7. QED
  BY <1>1, <1>6

\* Numbering the elements of a set anew does not change what they add up to.
LEMMA SumRenamed ==
  ASSUME NEW S, IsFiniteSet(S), NEW f, NEW w, NEW v,
         \A x \in S : v[x] = w[f[x]] /\ v[x] \in Nat,
         \A x, y \in S : f[x] = f[y] => x = y
  PROVE  Sum(v, S) = Sum(w, {f[x] : x \in S})
<1> DEFINE Image(s) == {f[x] : x \in s}
           Right(s) == IsFiniteSet(Image(s)) /\ Sum(v, s) = Sum(w, Image(s))
           T == {n \in Nat : \A s \in SUBSET S : Cardinality(s) <= n => Right(s)}
<1>1. \A s \in SUBSET S : IsFiniteSet(s) /\ Cardinality(s) \in Nat
  BY FS_Subset, FS_CardinalityType
<1>2. 0 \in T
  <2>1. ASSUME NEW s \in SUBSET S, Cardinality(s) <= 0
        PROVE  Right(s)
    <3>1. s = {}
      BY <1>1, <2>1, FS_EmptySet
    <3>2. Image(s) = {}
      BY <3>1
    <3>3. QED
      BY <3>1, <3>2, SumEmpty, FS_EmptySet
  <2>2. QED
    BY <2>1
<1>3. ASSUME NEW n \in Nat, n \in T
      PROVE  n + 1 \in T
  <2>1. ASSUME NEW s \in SUBSET S, Cardinality(s) <= n + 1, s # {}
        PROVE  Right(s)
    <3>1. PICK x \in s : TRUE
      BY <2>1
    <3> DEFINE t == s \ {x}
    <3>2. Cardinality(t) = Cardinality(s) - 1
      BY <1>1, FS_RemoveElement
    <3>3. t \in SUBSET S /\ Cardinality(t) <= n
      BY <1>1, <2>1, <3>2
    <3>4. IsFiniteSet(Image(t)) /\ Sum(v, t) = Sum(w, Image(t))
      BY <1>3, <3>3
    <3>5. Sum(v, s) = v[x] + Sum(v, t)
      BY <1>1, SumRemove
    <3>6. Image(s) = Image(t) \cup {f[x]} /\ f[x] \notin Image(t)
      OBVIOUS
    <3>7. Image(s) \ {f[x]} = Image(t)
      BY <3>6
    <3>8. IsFiniteSet(Image(s))
      <4> HIDE DEF Image, t
      <4>1. QED
        BY <3>4, <3>6, FS_AddElement
    <3>9. \A y \in Image(s) : w[y] \in Nat
      OBVIOUS
    <3>10. Sum(w, Image(s)) = w[f[x]] + Sum(w, Image(s) \ {f[x]})
      <4>1. f[x] \in Image(s)
        OBVIOUS
      <4> HIDE DEF Image, t
      <4>2. QED
        BY <3>8, <3>9, <4>1, SumRemove
    <3>11. v[x] = w[f[x]]
      OBVIOUS
    <3> HIDE DEF Image, t
    <3>12. QED
      BY <3>4, <3>5, <3>7, <3>8, <3>10, <3>11
  <2>2. \A s \in SUBSET S : s = {} => Right(s)
    BY <1>2, FS_EmptySet
  <2>3. QED
    BY <2>1, <2>2
<1>4. Cardinality(S) \in T
  <2> HIDE DEF T
  <2>1. QED
    BY <1>2, <1>3, FromZero, FS_CardinalityType
<1>5. QED
  BY <1>1, <1>4

\* The sum over an interval, cut in two
LEMMA SumInterval ==
  ASSUME NEW p \in Nat, NEW q \in Int, NEW r \in Int, p <= q + 1, q <= r,
         NEW w, \A i \in p .. r : w[i] \in Nat
  PROVE  /\ Sum(w, p .. q) \in Nat /\ Sum(w, q + 1 .. r) \in Nat
         /\ Sum(w, p .. r) = Sum(w, p .. q) + Sum(w, q + 1 .. r)
<1> DEFINE A == p .. q
           B == q + 1 .. r
<1>1. IsFiniteSet(A) /\ IsFiniteSet(B)
  BY FS_Interval
<1>2. A \cap B = {} /\ A \cup B = p .. r
  OBVIOUS
<1>3. \A i \in A \cup B : w[i] \in Nat
  BY <1>2
<1> HIDE DEF A, B
<1>4. Sum(w, A \cup B) = Sum(w, A) + Sum(w, B)
  BY <1>1, <1>2, <1>3, SumUnion
<1>5. Sum(w, A) \in Nat /\ Sum(w, B) \in Nat
  BY <1>1, <1>3, SumRemove
<1>6. QED
  BY <1>2, <1>4, <1>5 DEF A, B

LEMMA SumFirst ==
  ASSUME NEW p \in Nat, NEW r \in Int, p <= r,
         NEW w, \A i \in p .. r : w[i] \in Nat
  PROVE  /\ Sum(w, p + 1 .. r) \in Nat
         /\ Sum(w, p .. r) = w[p] + Sum(w, p + 1 .. r)
<1> DEFINE S == p .. r
<1>1. IsFiniteSet(S) /\ p \in S /\ S \ {p} = p + 1 .. r
  BY FS_Interval
<1>2. \A i \in S : w[i] \in Nat
  OBVIOUS
<1>3. IsFiniteSet(S \ {p}) /\ \A i \in S \ {p} : w[i] \in Nat
  BY <1>1, <1>2, FS_Subset
<1> HIDE DEF S
<1>4. Sum(w, S) = w[p] + Sum(w, S \ {p})
  BY <1>1, <1>2, SumRemove
<1>5. Sum(w, S \ {p}) \in Nat
  BY <1>3, SumRemove
<1>6. QED
  BY <1>1, <1>4, <1>5 DEF S

\* Sums of sums
LEMMA SumAdded ==
  ASSUME NEW S, IsFiniteSet(S), NEW u, NEW v, NEW w,
         \A x \in S : u[x] = v[x] + w[x] /\ v[x] \in Nat /\ w[x] \in Nat
  PROVE  Sum(u, S) = Sum(v, S) + Sum(w, S)
<1> DEFINE Right(s) == Sum(u, s) = Sum(v, s) + Sum(w, s)
           T == {n \in Nat : \A s \in SUBSET S : Cardinality(s) <= n => Right(s)}
<1>1. \A s \in SUBSET S : IsFiniteSet(s) /\ Cardinality(s) \in Nat
  BY FS_Subset, FS_CardinalityType
<1>2. Right({})
  BY SumEmpty
<1>3. 0 \in T
  <2>1. ASSUME NEW s \in SUBSET S, Cardinality(s) <= 0
        PROVE  Right(s)
    <3>1. s = {}
      BY <1>1, <2>1, FS_EmptySet
    <3>2. QED
      BY <1>2, <3>1
  <2>2. QED
    BY <2>1
<1>4. ASSUME NEW n \in Nat, n \in T
      PROVE  n + 1 \in T
  <2>1. ASSUME NEW s \in SUBSET S, Cardinality(s) <= n + 1, s # {}
        PROVE  Right(s)
    <3> DEFINE c == Chosen(s)
               t == s \ {c}
    <3>1. /\ c \in s /\ Sum(u, s) = u[c] + Sum(u, t)
          /\ Sum(v, s) = v[c] + Sum(v, t) /\ Sum(w, s) = w[c] + Sum(w, t)
      BY <1>1, <2>1, Choice, SumChosen
    <3>2. Cardinality(t) = Cardinality(s) - 1
      BY <1>1, <3>1, FS_RemoveElement
    <3>3. t \in SUBSET S /\ Cardinality(t) <= n /\ IsFiniteSet(t)
      BY <1>1, <2>1, <3>2
    <3>4. Sum(u, t) = Sum(v, t) + Sum(w, t)
      BY <1>4, <3>3
    <3>5. Sum(v, t) \in Nat /\ Sum(w, t) \in Nat
      BY <3>3, SumRemove
    <3>6. u[c] = v[c] + w[c] /\ v[c] \in Nat /\ w[c] \in Nat
      BY <3>1
    <3> HIDE DEF c, t
    <3>7. QED
      BY <3>1, <3>4, <3>5, <3>6
  <2>2. QED
    BY <1>2, <2>1
<1>5. Cardinality(S) \in T
  <2> HIDE DEF T
  <2>1. QED
    BY <1>3, <1>4, FromZero, FS_CardinalityType
<1>6. QED
  BY <1>1, <1>5
=============================================================================
