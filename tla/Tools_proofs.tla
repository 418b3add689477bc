---------------------------- MODULE Tools_proofs -----------------------------
(* chkform tells every faulty field of a file once, with its line: theorems   *)
(* about FileChecks for files of any records and fields, and caches of any     *)
(* sizes.  readfile shows what the lines of a session ask for: theorems about  *)
(* FileViewer for sessions of any lines, and files of any length.  The         *)
(* programs take their command lines as they are meant, and keep their         *)
(* messages: theorems about CommandLine for any words.                         *)
EXTENDS FileChecks, FileViewer, CommandLine, Sums_proofs

-----------------------------------------------------------------------------
(* Sequences of sequences, one behind the other *)

\* The function that FlattenSeq defines by recursion
Joined(g, ss, i) == IF i = 1 THEN ss[i] ELSE g[i - 1] \o ss[i]
Flattens(g, ss, n) == g = [i \in 1 .. n |-> Joined(g, ss, i)]

\* The first sequence is taken as it is.
LEMMA JoinedFirst ==
  ASSUME NEW g, NEW ss
  PROVE  Joined(g, ss, 1) = ss[1]
BY DEF Joined

\* Each other is put behind those before it.
LEMMA JoinedNext ==
  ASSUME NEW g, NEW ss, NEW n \in Nat \ {0}
  PROVE  Joined(g, ss, n + 1) = g[n] \o ss[n + 1]
<1>1. \A m : m # 1 /\ m - 1 = n => Joined(g, ss, m) = g[n] \o ss[m]
  BY Zenon DEF Joined
<1>2. n + 1 # 1 /\ (n + 1) - 1 = n
  OBVIOUS
<1>3. QED
  BY <1>1, <1>2, Zenon

\* What the function is at each place.
LEMMA FlattenAt ==
  ASSUME NEW ss, NEW n, NEW g, Flattens(g, ss, n), NEW i \in 1 .. n
  PROVE  g[i] = Joined(g, ss, i)
BY Zenon DEF Flattens

\* It exists.
LEMMA FlattenExists ==
  ASSUME NEW ss, NEW n \in Nat \ {0}
  PROVE  \E g : Flattens(g, ss, n)
<1> DEFINE Upto(g, k) == /\ g = [i \in 1 .. n |-> g[i]]
                         /\ \A i \in 1 .. n : i <= k => g[i] = Joined(g, ss, i)
           T == {k \in Nat : \E g : Upto(g, k)}
<1>1. 0 \in T
  <2> DEFINE g == [i \in 1 .. n |-> 0]
  <2>1. Upto(g, 0)
    OBVIOUS
  <2>2. QED
    BY <2>1
<1>2. ASSUME NEW k \in Nat, k \in T
      PROVE  k + 1 \in T
  <2>1. PICK g : Upto(g, k)
    BY <1>2
  <2> DEFINE h == [i \in 1 .. n |-> Joined(g, ss, i)]
  <2>2. ASSUME NEW i \in 1 .. n, i <= k + 1
        PROVE  h[i] = Joined(h, ss, i)
    <3>1. h[i] = Joined(g, ss, i)
      OBVIOUS
    <3>2. CASE i = 1
      BY <3>1, <3>2 DEF Joined
    <3>3. CASE i # 1
      <4>1. i - 1 \in 1 .. n /\ i - 1 <= k
        BY <2>2, <3>3
      <4>2. h[i - 1] = g[i - 1]
        BY <2>1, <4>1
      <4>3. QED
        BY <3>1, <3>3, <4>2 DEF Joined
    <3>4. QED
      BY <3>2, <3>3
  <2>3. Upto(h, k + 1)
    BY <2>2
  <2> HIDE DEF h, Upto
  <2>4. QED
    BY <2>3
<1>3. n \in T
  <2> HIDE DEF T
  <2>1. QED
    BY <1>1, <1>2, FromZero
<1>4. PICK g : Upto(g, n)
  BY <1>3
<1>5. g = [i \in 1 .. n |-> Joined(g, ss, i)]
  BY <1>4
<1>6. QED
  BY <1>5 DEF Flattens

Agree(g, h, n) == \A i \in 1 .. n : g[i] = h[i]

\* Two of them agree as long as the sequences do.
LEMMA FlattenAgrees ==
  ASSUME NEW ss, NEW tt, NEW n \in Nat, NEW m \in Nat, n <= m,
         Agree(ss, tt, n), NEW g, Flattens(g, ss, n), NEW h, Flattens(h, tt, m)
  PROVE  Agree(g, h, n)
<1> DEFINE T == {k \in Nat : k \in 1 .. n => g[k] = h[k]}
<1>1. 0 \in T
  OBVIOUS
<1>2. ASSUME NEW k \in Nat, k \in T
      PROVE  k + 1 \in T
  <2>1. SUFFICES ASSUME k + 1 \in 1 .. n PROVE g[k + 1] = h[k + 1]
    OBVIOUS
  <2>2. k + 1 \in 1 .. m
    BY <2>1
  <2>3. g[k + 1] = Joined(g, ss, k + 1) /\ h[k + 1] = Joined(h, tt, k + 1)
    BY <2>1, <2>2, FlattenAt
  <2>4. CASE k = 0
    BY <2>1, <2>3, <2>4, JoinedFirst DEF Agree
  <2>5. CASE k # 0
    <3>1. k \in 1 .. n /\ k + 1 - 1 = k /\ k + 1 # 1
      BY <2>1, <2>5
    <3>2. g[k] = h[k]
      BY <1>2, <3>1
    <3>3. QED
      <4>1. g[k + 1] = g[k] \o ss[k + 1] /\ h[k + 1] = h[k] \o tt[k + 1]
        BY <2>3, <2>5, JoinedNext
      <4>2. ss[k + 1] = tt[k + 1]
        BY <2>1 DEF Agree
      <4>3. QED
        BY <3>2, <4>1, <4>2
  <2>6. QED
    BY <2>4, <2>5
<1>3. Nat \subseteq T
  <2> HIDE DEF T
  <2>1. QED
    BY <1>1, <1>2, FromZero
<1>4. QED
  BY <1>3 DEF Agree

\* What FlattenSeq is.
LEMMA FlattenIs ==
  ASSUME NEW ss, Len(ss) \in Nat \ {0}
  PROVE  \E g : Flattens(g, ss, Len(ss)) /\ FlattenSeq(ss) = g[Len(ss)]
<1> DEFINE f == CHOOSE g : Flattens(g, ss, Len(ss))
<1>1. Flattens(f, ss, Len(ss))
  BY FlattenExists
<1>2. FlattenSeq(ss) = f[Len(ss)]
  BY DEF FlattenSeq, Flattens, Joined
<1>3. QED
  BY <1>1, <1>2

\* One more sequence is put behind the others.
LEMMA FlattenNext ==
  ASSUME NEW S, NEW ss \in Seq(Seq(S)), NEW tt \in Seq(Seq(S)), Len(tt) = Len(ss) + 1,
         \A i \in 1 .. Len(ss) : tt[i] = ss[i]
  PROVE  FlattenSeq(tt) = IF ss = <<>> THEN tt[1] ELSE FlattenSeq(ss) \o tt[Len(tt)]
<1> DEFINE n == Len(ss)
<1>1. n \in Nat /\ Len(tt) = n + 1 /\ (ss = <<>> <=> n = 0)
  OBVIOUS
<1>2. PICK h : Flattens(h, tt, n + 1) /\ FlattenSeq(tt) = h[n + 1]
  <2>1. Len(tt) \in Nat \ {0}
    BY <1>1
  <2>2. QED
    BY <1>1, <2>1, FlattenIs
<1>3. h[n + 1] = Joined(h, tt, n + 1)
  <2>1. n + 1 \in 1 .. n + 1
    BY <1>1
  <2>2. QED
    BY <1>2, <2>1, FlattenAt
<1>4. CASE n = 0
  BY <1>1, <1>2, <1>3, <1>4, JoinedFirst
<1>5. CASE n # 0
  <2>1. PICK g : Flattens(g, ss, n) /\ FlattenSeq(ss) = g[n]
    BY <1>1, <1>5, FlattenIs
  <2>2. g[n] = h[n]
    <3> DEFINE m == n + 1
    <3>0. n \in Nat /\ m \in Nat /\ n <= m /\ Flattens(g, ss, n) /\ Flattens(h, tt, m)
      BY <1>1, <1>2, <2>1
    <3>1. Agree(ss, tt, n)
      BY <1>1 DEF Agree
    <3> HIDE DEF n, m
    <3>2. Agree(g, h, n)
      BY <3>0, <3>1, FlattenAgrees
    <3>3. n \in 1 .. n
      BY <1>1, <1>5
    <3>4. QED
      BY <3>2, <3>3 DEF Agree
  <2>3. h[n + 1] = h[n] \o tt[n + 1]
    BY <1>1, <1>3, <1>5, JoinedNext
  <2>4. QED
    BY <1>1, <1>2, <1>5, <2>1, <2>2, <2>3
<1>6. QED
  BY <1>4, <1>5

\* A sequence but for its last item.
LEMMA FlattenFront ==
  ASSUME NEW S, NEW n \in Nat, NEW tt \in Seq(Seq(S)), Len(tt) = n + 1
  PROVE  \E ss \in Seq(Seq(S)) :
            /\ Len(ss) = n /\ \A i \in 1 .. n : tt[i] = ss[i]
            /\ FlattenSeq(tt) = IF ss = <<>> THEN tt[1] ELSE FlattenSeq(ss) \o tt[n + 1]
<1> DEFINE R == Seq(S)
           ss == [i \in 1 .. n |-> tt[i]]
<1>1. \A i \in 1 .. n : tt[i] \in R
  BY tt \in Seq(R)
<1>2. ss \in Seq(R) /\ Len(ss) = n /\ \A i \in 1 .. n : tt[i] = ss[i]
  BY <1>1
<1> HIDE DEF ss
<1>3. FlattenSeq(tt) = IF ss = <<>> THEN tt[1] ELSE FlattenSeq(ss) \o tt[Len(tt)]
  BY <1>2, FlattenNext
<1>4. QED
  BY <1>2, <1>3

\* What is put together is a sequence.
LEMMA FlattenType ==
  ASSUME NEW S, NEW ss \in Seq(Seq(S))
  PROVE  FlattenSeq(ss) \in Seq(S)
<1> DEFINE T == {n \in Nat : \A tt \in Seq(Seq(S)) : Len(tt) = n => FlattenSeq(tt) \in Seq(S)}
<1>1. 0 \in T
  BY DEF FlattenSeq
<1>2. ASSUME NEW n \in Nat, n \in T
      PROVE  n + 1 \in T
  <2>1. SUFFICES ASSUME NEW tt \in Seq(Seq(S)), Len(tt) = n + 1
                 PROVE  FlattenSeq(tt) \in Seq(S)
    OBVIOUS
  <2>2. PICK uu \in Seq(Seq(S)) :
            /\ Len(uu) = n /\ \A i \in 1 .. n : tt[i] = uu[i]
            /\ FlattenSeq(tt) = IF uu = <<>> THEN tt[1] ELSE FlattenSeq(uu) \o tt[n + 1]
    BY <2>1, FlattenFront
  <2>3. FlattenSeq(uu) \in Seq(S)
    BY <1>2, <2>2
  <2>4. tt[1] \in Seq(S) /\ tt[n + 1] \in Seq(S)
    BY <2>1
  <2>5. QED
    BY <2>2, <2>3, <2>4
<1>3. Nat \subseteq T
  <2> HIDE DEF T
  <2>1. QED
    BY <1>1, <1>2, FromZero
<1>4. Len(ss) \in Nat
  OBVIOUS
<1>5. QED
  BY <1>3, <1>4

\* No sequences give none, and the last one comes behind those before it.
LEMMA FlattenLast ==
  ASSUME NEW S
  PROVE  /\ \A tt \in Seq(Seq(S)) : Len(tt) = 0 => FlattenSeq(tt) = <<>>
         /\ \A n \in Nat, tt \in Seq(Seq(S)) : Len(tt) = n + 1 =>
               \E ss \in Seq(Seq(S)) :
                  /\ Len(ss) = n /\ \A i \in 1 .. n : tt[i] = ss[i]
                  /\ FlattenSeq(tt) = FlattenSeq(ss) \o tt[n + 1]
<1>1. \A tt \in Seq(Seq(S)) : Len(tt) = 0 => FlattenSeq(tt) = <<>>
  BY DEF FlattenSeq
<1>2. ASSUME NEW n \in Nat, NEW tt \in Seq(Seq(S)), Len(tt) = n + 1
      PROVE  \E ss \in Seq(Seq(S)) :
                  /\ Len(ss) = n /\ \A i \in 1 .. n : tt[i] = ss[i]
                  /\ FlattenSeq(tt) = FlattenSeq(ss) \o tt[n + 1]
  <2>1. PICK ss \in Seq(Seq(S)) :
            /\ Len(ss) = n /\ \A i \in 1 .. n : tt[i] = ss[i]
            /\ FlattenSeq(tt) = IF ss = <<>> THEN tt[1] ELSE FlattenSeq(ss) \o tt[n + 1]
    BY <1>2, FlattenFront
  <2>2. tt[n + 1] \in Seq(S)
    BY <1>2
  <2>3. ASSUME ss = <<>>
        PROVE  tt[1] = FlattenSeq(ss) \o tt[n + 1]
    <3>1. n = 0 /\ FlattenSeq(ss) = <<>>
      BY <1>1, <2>1, <2>3
    <3>2. <<>> \o tt[1] = tt[1]
      BY <2>2, <3>1
    <3>3. QED
      BY <3>1, <3>2
  <2>4. FlattenSeq(tt) = FlattenSeq(ss) \o tt[n + 1]
    BY <2>1, <2>3, Zenon
  <2>5. QED
    BY <2>1, <2>4
<1>3. QED
  BY <1>1, <1>2, Zenon

\* The items of two sequences one behind the other.
LEMMA ConcatItems ==
  ASSUME NEW S, NEW a \in Seq(S), NEW b \in Seq(S)
  PROVE  /\ a \o b \in Seq(S) /\ Len(a \o b) = Len(a) + Len(b)
         /\ ToSet(a \o b) = ToSet(a) \cup ToSet(b)
         /\ IsInjective(a) /\ IsInjective(b) /\ (\A x \in ToSet(a) : x \notin ToSet(b)) => IsInjective(a \o b)
<1> DEFINE c == a \o b
           n == Len(a)
           m == Len(b)
<1>1. /\ n \in Nat /\ m \in Nat /\ c \in Seq(S) /\ Len(c) = n + m
      /\ DOMAIN a = 1 .. n /\ DOMAIN b = 1 .. m /\ DOMAIN c = 1 .. n + m
      /\ \A i \in 1 .. n : c[i] = a[i]
      /\ \A i \in 1 .. m : c[n + i] = b[i]
  OBVIOUS
<1> HIDE DEF c, n, m
<1>2. \A i \in 1 .. n + m : i \in 1 .. n \/ (i - n \in 1 .. m /\ i = n + (i - n))
  BY <1>1
<1>3. \A i \in 1 .. n : i \in 1 .. n + m
  BY <1>1
<1>4. \A i \in 1 .. m : n + i \in 1 .. n + m
  BY <1>1
<1>5. ToSet(c) \subseteq ToSet(a) \cup ToSet(b)
  <2>1. SUFFICES ASSUME NEW i \in 1 .. n + m PROVE c[i] \in ToSet(a) \cup ToSet(b)
    BY <1>1 DEF ToSet
  <2>2. CASE i \in 1 .. n
    BY <1>1, <2>2 DEF ToSet
  <2>3. CASE i - n \in 1 .. m
    <3>1. c[i] = b[i - n]
      BY <1>1, <1>2, <2>1, <2>3
    <3>2. QED
      BY <1>1, <2>3, <3>1 DEF ToSet
  <2>4. QED
    BY <1>2, <2>1, <2>2, <2>3
<1>6. ToSet(a) \subseteq ToSet(c)
  BY <1>1, <1>3 DEF ToSet
<1>7. ToSet(b) \subseteq ToSet(c)
  BY <1>1, <1>4 DEF ToSet
<1>8. ASSUME IsInjective(a), IsInjective(b), \A x \in ToSet(a) : x \notin ToSet(b)
      PROVE  IsInjective(c)
  <2>1. SUFFICES ASSUME NEW i \in 1 .. n + m, NEW j \in 1 .. n + m, c[i] = c[j] PROVE i = j
    BY <1>1 DEF IsInjective
  <2>2. \A k \in 1 .. n + m : \/ k \in 1 .. n /\ c[k] = a[k] /\ c[k] \in ToSet(a)
                              \/ k - n \in 1 .. m /\ c[k] = b[k - n] /\ c[k] \in ToSet(b)
    <3>1. SUFFICES ASSUME NEW k \in 1 .. n + m
                   PROVE  \/ k \in 1 .. n /\ c[k] = a[k] /\ c[k] \in ToSet(a)
                          \/ k - n \in 1 .. m /\ c[k] = b[k - n] /\ c[k] \in ToSet(b)
      OBVIOUS
    <3>2. CASE k \in 1 .. n
      BY <1>1, <3>2 DEF ToSet
    <3>3. CASE k - n \in 1 .. m
      <4>1. c[k] = b[k - n]
        BY <1>1, <1>2, <3>1, <3>3
      <4>2. QED
        BY <1>1, <3>3, <4>1 DEF ToSet
    <3>4. QED
      BY <1>2, <3>1, <3>2, <3>3
  <2>3. CASE i \in 1 .. n /\ j \in 1 .. n /\ c[i] = a[i] /\ c[j] = a[j]
    BY <1>1, <1>8, <2>1, <2>3 DEF IsInjective
  <2>4. CASE i - n \in 1 .. m /\ j - n \in 1 .. m /\ c[i] = b[i - n] /\ c[j] = b[j - n]
    <3>1. i - n = j - n
      BY <1>1, <1>8, <2>1, <2>4 DEF IsInjective
    <3>2. QED
      BY <1>1, <2>1, <3>1
  <2>5. QED
    BY <1>8, <2>1, <2>2, <2>3, <2>4
<1>9. QED
  BY <1>1, <1>5, <1>6, <1>7, <1>8 DEF c, n, m

\* What is put together holds the items of all parts.
LEMMA FlattenItems ==
  ASSUME NEW S, NEW ss \in Seq(Seq(S))
  PROVE  \A x : x \in ToSet(FlattenSeq(ss)) <=> \E i \in 1 .. Len(ss) : x \in ToSet(ss[i])
<1> DEFINE Holds(tt) == \A x : x \in ToSet(FlattenSeq(tt)) <=> \E i \in 1 .. Len(tt) : x \in ToSet(tt[i])
           T == {n \in Nat : \A tt \in Seq(Seq(S)) : Len(tt) = n => Holds(tt)}
<1>1. 0 \in T
  BY FlattenLast DEF ToSet
<1>2. ASSUME NEW n \in Nat, n \in T
      PROVE  n + 1 \in T
  <2>1. SUFFICES ASSUME NEW tt \in Seq(Seq(S)), Len(tt) = n + 1
                 PROVE  Holds(tt)
    OBVIOUS
  <2>2. PICK uu \in Seq(Seq(S)) : /\ Len(uu) = n /\ \A i \in 1 .. n : tt[i] = uu[i]
                                  /\ FlattenSeq(tt) = FlattenSeq(uu) \o tt[n + 1]
    BY <2>1, FlattenLast
  <2>3. Holds(uu)
    BY <1>2, <2>2
  <2>4. FlattenSeq(uu) \in Seq(S) /\ tt[n + 1] \in Seq(S)
    BY <2>1, FlattenType
  <2>5. ToSet(FlattenSeq(tt)) = ToSet(FlattenSeq(uu)) \cup ToSet(tt[n + 1])
    BY <2>2, <2>4, ConcatItems
  <2>6. \A i : i \in 1 .. n + 1 <=> i \in 1 .. n \/ i = n + 1
    OBVIOUS
  <2>7. ASSUME NEW x
        PROVE  x \in ToSet(FlattenSeq(tt)) <=> \E i \in 1 .. n + 1 : x \in ToSet(tt[i])
    <3>1. x \in ToSet(FlattenSeq(uu)) <=> \E i \in 1 .. n : x \in ToSet(uu[i])
      BY <2>2, <2>3
    <3>2. x \in ToSet(FlattenSeq(uu)) <=> \E i \in 1 .. n : x \in ToSet(tt[i])
      BY <2>2, <3>1
    <3>3. QED
      BY <2>5, <2>6, <3>2, Zenon
  <2>8. QED
    BY <2>1, <2>7
<1>3. Nat \subseteq T
  <2> HIDE DEF T
  <2>1. QED
    BY <1>1, <1>2, FromZero
<1>4. Len(ss) \in Nat
  OBVIOUS
<1>5. QED
  BY <1>3, <1>4

\* Each item once, where no part and no two parts hold one twice.
LEMMA FlattenOnce ==
  ASSUME NEW S, NEW ss \in Seq(Seq(S)), \A i \in 1 .. Len(ss) : IsInjective(ss[i]),
         \A i, j \in 1 .. Len(ss) : i < j => \A x \in ToSet(ss[i]) : x \notin ToSet(ss[j])
  PROVE  IsInjective(FlattenSeq(ss))
<1> DEFINE Parts(tt) == /\ \A i \in 1 .. Len(tt) : IsInjective(tt[i])
                        /\ \A i, j \in 1 .. Len(tt) : i < j => \A x \in ToSet(tt[i]) : x \notin ToSet(tt[j])
           T == {n \in Nat : \A tt \in Seq(Seq(S)) : Len(tt) = n /\ Parts(tt) => IsInjective(FlattenSeq(tt))}
<1>1. 0 \in T
  BY FlattenLast DEF IsInjective
<1>2. ASSUME NEW n \in Nat, n \in T
      PROVE  n + 1 \in T
  <2>1. SUFFICES ASSUME NEW tt \in Seq(Seq(S)), Len(tt) = n + 1, Parts(tt)
                 PROVE  IsInjective(FlattenSeq(tt))
    OBVIOUS
  <2>2. PICK uu \in Seq(Seq(S)) : /\ Len(uu) = n /\ \A i \in 1 .. n : tt[i] = uu[i]
                                  /\ FlattenSeq(tt) = FlattenSeq(uu) \o tt[n + 1]
    BY <2>1, FlattenLast
  <2>3. \A i \in 1 .. n : i \in 1 .. n + 1 /\ i < n + 1
    OBVIOUS
  <2>4. Parts(uu)
    BY <2>1, <2>2, <2>3
  <2>5. IsInjective(FlattenSeq(uu)) /\ IsInjective(tt[n + 1])
    <3>1. IsInjective(tt[n + 1])
      <4>1. n + 1 \in 1 .. Len(tt)
        BY <2>1
      <4>2. QED
        BY <2>1, <4>1
    <3>2. \A vv \in Seq(Seq(S)) : Len(vv) = n /\ Parts(vv) => IsInjective(FlattenSeq(vv))
      BY <1>2
    <3> HIDE DEF Parts
    <3>3. IsInjective(FlattenSeq(uu))
      BY <2>2, <2>4, <3>2
    <3>4. QED
      BY <3>1, <3>3
  <2>6. FlattenSeq(uu) \in Seq(S) /\ tt[n + 1] \in Seq(S)
    BY <2>1, FlattenType
  <2>7. \A x \in ToSet(FlattenSeq(uu)) : x \notin ToSet(tt[n + 1])
    <3>1. SUFFICES ASSUME NEW x \in ToSet(FlattenSeq(uu)) PROVE x \notin ToSet(tt[n + 1])
      OBVIOUS
    <3>2. PICK i \in 1 .. n : x \in ToSet(uu[i])
      BY <2>2, FlattenItems
    <3>3. n + 1 \in 1 .. n + 1
      OBVIOUS
    <3>4. QED
      BY <2>1, <2>2, <2>3, <3>2, <3>3
  <2>8. QED
    BY <2>2, <2>5, <2>6, <2>7, ConcatItems
<1>3. Nat \subseteq T
  <2> HIDE DEF T
  <2>1. QED
    BY <1>1, <1>2, FromZero
<1>4. Len(ss) \in Nat
  OBVIOUS
<1>5. QED
  BY <1>3, <1>4

-----------------------------------------------------------------------------
(* What is reported of the records in memory *)

Reports == [format : CheckedFormats, line : Nat, field : Nat]
Report(f, line, v) == [format |-> f, line |-> line, field |-> v]
IsRecord(row) == row \in Seq(ToSet(row)) /\ \A v \in ToSet(row) : IsField(v)
AreRecords(records) == records \in Seq(ToSet(records)) /\ \A row \in ToSet(records) : IsRecord(row)
RecordErrors(f, row, line) ==
    FlattenSeq([v \in DOMAIN row |-> [k \in 1 .. Cardinality(FieldErrors(row[v])) |-> Report(f, line, v)]])

\* A field has one message if it is faulty, and none otherwise.
LEMMA FieldReported ==
  ASSUME NEW v, IsField(v)
  PROVE  Cardinality(FieldErrors(v)) = IF v.faulty THEN 1 ELSE 0
<1>1. /\ v.printable \in BOOLEAN /\ v.number \in BOOLEAN /\ v.fits \in BOOLEAN /\ v.point \in BOOLEAN
      /\ v.faulty \in BOOLEAN
      /\ v.faulty = ~(v.printable /\ (v.kind = "text" \/ (v.number /\ v.fits /\ (v.kind = "real" => v.point))))
  BY DEF IsField
<1>2. \A x : Cardinality({x}) = 1
  BY FS_Singleton
<1>3. Cardinality({}) = 0
  BY FS_EmptySet
<1>4. CASE v.faulty
  <2>1. FieldErrors(v) \in {{"non-printable"}, {"number"}, {"range"}, {"decimal point"}}
    BY <1>1, <1>4 DEF FieldErrors, Printable
  <2>2. QED
    BY <1>2, <1>4, <2>1
<1>5. CASE ~ v.faulty
  <2>1. FieldErrors(v) = {}
    BY <1>1, <1>5 DEF FieldErrors, Printable
  <2>2. QED
    BY <1>3, <1>5, <2>1
<1>6. QED
  BY <1>4, <1>5

\* A report tells its format, line and field.
LEMMA ReportsApart ==
  ASSUME NEW f, NEW line, NEW v, NEW g, NEW k, NEW w, Report(f, line, v) = Report(g, k, w)
  PROVE  f = g /\ line = k /\ v = w
<1>1. /\ Report(f, line, v).format = f /\ Report(f, line, v).line = line /\ Report(f, line, v).field = v
      /\ Report(g, k, w).format = g /\ Report(g, k, w).line = k /\ Report(g, k, w).field = w
  BY DEF Report
<1>2. QED
  BY <1>1

\* A sequence of so many reports.
LEMMA ReportRepeated ==
  ASSUME NEW e \in Reports, NEW b \in BOOLEAN, NEW n, n = IF b THEN 1 ELSE 0
  PROVE  LET s == [k \in 1 .. n |-> e] IN
         s \in Seq(Reports) /\ IsInjective(s) /\ \A x : x \in ToSet(s) <=> b /\ x = e
<1> DEFINE s == [k \in 1 .. n |-> e]
<1>1. n \in Nat /\ s \in Seq(Reports) /\ DOMAIN s = 1 .. n
  OBVIOUS
<1>2. ASSUME NEW i \in 1 .. n, NEW j \in 1 .. n
      PROVE  i = j
  OBVIOUS
<1>3. IsInjective(s)
  BY <1>1, <1>2 DEF IsInjective
<1>4. ASSUME NEW x
      PROVE  x \in ToSet(s) <=> b /\ x = e
  <2>1. x \in ToSet(s) <=> \E i \in 1 .. n : x = e
    BY DEF ToSet
  <2>2. (\E i \in 1 .. n : TRUE) <=> b
    <3>1. CASE b
      BY <3>1, 1 \in 1 .. n
    <3>2. CASE ~ b
      BY <3>2
    <3>3. QED
      BY <3>1, <3>2
  <2>3. QED
    BY <2>1, <2>2
<1>5. QED
  BY <1>1, <1>3, <1>4

\* The messages about one record: each faulty field, once.
LEMMA RecordReported ==
  ASSUME NEW row, IsRecord(row), NEW f \in CheckedFormats, NEW line \in Nat
  PROVE  /\ RecordErrors(f, row, line) \in Seq(Reports)
         /\ IsInjective(RecordErrors(f, row, line))
         /\ \A e : e \in ToSet(RecordErrors(f, row, line)) <=>
                     \E v \in DOMAIN row : row[v].faulty /\ e = Report(f, line, v)
<1> DEFINE n(v) == Cardinality(FieldErrors(row[v]))
           part(v) == [k \in 1 .. n(v) |-> Report(f, line, v)]
           ss == [v \in DOMAIN row |-> part(v)]
<1>1. DOMAIN row = 1 .. Len(row) /\ Len(row) \in Nat
  BY DEF IsRecord
<1>2. \A v \in DOMAIN row : IsField(row[v])
  BY DEF IsRecord, ToSet
<1>3. \A v \in DOMAIN row : n(v) = IF row[v].faulty THEN 1 ELSE 0
  BY <1>2, FieldReported
<1>4. \A v \in DOMAIN row : row[v].faulty \in BOOLEAN
  BY <1>2 DEF IsField
<1>5. \A v \in DOMAIN row : Report(f, line, v) \in Reports
  BY <1>1 DEF Report, Reports
<1>6. ASSUME NEW v \in DOMAIN row
      PROVE  /\ part(v) \in Seq(Reports) /\ IsInjective(part(v))
             /\ \A e : e \in ToSet(part(v)) <=> row[v].faulty /\ e = Report(f, line, v)
  <2>1. n(v) = IF row[v].faulty THEN 1 ELSE 0
    BY <1>3
  <2>2. row[v].faulty \in BOOLEAN /\ Report(f, line, v) \in Reports
    BY <1>4, <1>5
  <2> HIDE DEF n
  <2>3. QED
    BY <2>1, <2>2, ReportRepeated
<1> HIDE DEF part
<1>7. ss \in Seq(Seq(Reports)) /\ Len(ss) = Len(row) /\ DOMAIN ss = 1 .. Len(row) /\ \A v \in 1 .. Len(row) : ss[v] = part(v)
  BY <1>1, <1>6
<1>8. RecordErrors(f, row, line) = FlattenSeq(ss)
  BY DEF RecordErrors, part
<1> HIDE DEF ss
<1>9. FlattenSeq(ss) \in Seq(Reports)
  BY <1>7, FlattenType
<1>10. \A e : e \in ToSet(FlattenSeq(ss)) <=> \E v \in 1 .. Len(ss) : e \in ToSet(ss[v])
  BY <1>7, FlattenItems
<1>11. \A e : e \in ToSet(FlattenSeq(ss)) <=> \E v \in DOMAIN row : row[v].faulty /\ e = Report(f, line, v)
  BY <1>1, <1>6, <1>7, <1>10
<1>12. IsInjective(FlattenSeq(ss))
  <2>1. \A v \in 1 .. Len(ss) : IsInjective(ss[v])
    BY <1>1, <1>6, <1>7
  <2>2. ASSUME NEW v \in 1 .. Len(ss), NEW w \in 1 .. Len(ss), v < w, NEW x \in ToSet(ss[v]), x \in ToSet(ss[w])
        PROVE  FALSE
    <3>1. x = Report(f, line, v) /\ x = Report(f, line, w)
      BY <1>1, <1>6, <1>7, <2>2
    <3>2. v = w
      <4>1. Report(f, line, v) = Report(f, line, w)
        BY <3>1
      <4>2. QED
        BY <4>1 DEF Report
    <3>3. v \in Nat /\ w \in Nat /\ v < w
      <4>1. Len(ss) \in Nat
        BY <1>1, <1>7
      <4>2. QED
        BY <2>2, <4>1
    <3>4. QED
      BY <3>2, <3>3
  <2>3. QED
    BY <1>7, <2>1, <2>2, FlattenOnce
<1>13. QED
  BY <1>8, <1>9, <1>11, <1>12

\* e is the report of a faulty field of records that begin at a line
FaultOf(f, records, line, e) ==
    \E r \in DOMAIN records : \E v \in DOMAIN records[r] : records[r][v].faulty /\ e = Report(f, line + r, v)

\* The messages about the records of a buffer: each faulty field of each record, once, with its line.
LEMMA BufferReported ==
  ASSUME NEW records, AreRecords(records), NEW f \in CheckedFormats, NEW line \in Nat
  PROVE  /\ BufferErrors(f, records, line) \in Seq(Reports)
         /\ IsInjective(BufferErrors(f, records, line))
         /\ \A e : e \in ToSet(BufferErrors(f, records, line)) <=> FaultOf(f, records, line, e)
<1> DEFINE part(r) == RecordErrors(f, records[r], line + r)
           ss == [r \in DOMAIN records |-> part(r)]
<1>1. DOMAIN records = 1 .. Len(records) /\ Len(records) \in Nat
  BY DEF AreRecords
<1>2. \A r \in DOMAIN records : IsRecord(records[r]) /\ line + r \in Nat
  BY <1>1 DEF AreRecords, ToSet
<1>3. \A r \in DOMAIN records :
         /\ part(r) \in Seq(Reports) /\ IsInjective(part(r))
         /\ \A e : e \in ToSet(part(r)) <=>
                     \E v \in DOMAIN records[r] : records[r][v].faulty /\ e = Report(f, line + r, v)
  BY <1>2, RecordReported
<1>4. BufferErrors(f, records, line) = FlattenSeq(ss)
  BY DEF BufferErrors, RecordErrors, Report
<1> HIDE DEF part
<1>5. /\ ss \in Seq(Seq(Reports)) /\ Len(ss) = Len(records) /\ DOMAIN ss = 1 .. Len(records)
      /\ \A r \in 1 .. Len(records) : ss[r] = part(r)
  BY <1>1, <1>3
<1> HIDE DEF ss
<1>6. FlattenSeq(ss) \in Seq(Reports)
  BY <1>5, FlattenType
<1>7. \A e : e \in ToSet(FlattenSeq(ss)) <=> \E r \in 1 .. Len(ss) : e \in ToSet(ss[r])
  BY <1>5, FlattenItems
<1>8. \A e : e \in ToSet(FlattenSeq(ss)) <=>
                \E r \in DOMAIN records : \E v \in DOMAIN records[r] :
                   records[r][v].faulty /\ e = Report(f, line + r, v)
  <2>1. \A e : e \in ToSet(FlattenSeq(ss)) <=> \E r \in DOMAIN records : e \in ToSet(part(r))
    BY <1>1, <1>5, <1>7
  <2>2. ASSUME NEW e
        PROVE  (\E r \in DOMAIN records : e \in ToSet(part(r)))
                  <=> \E r \in DOMAIN records : \E v \in DOMAIN records[r] :
                         records[r][v].faulty /\ e = Report(f, line + r, v)
    <3>1. \A r \in DOMAIN records :
            e \in ToSet(part(r)) <=> \E v \in DOMAIN records[r] : records[r][v].faulty /\ e = Report(f, line + r, v)
      BY <1>3
    <3>2. QED
      BY <3>1
  <2>3. QED
    BY <2>1, <2>2
<1>9. IsInjective(FlattenSeq(ss))
  <2>1. \A r \in 1 .. Len(ss) : IsInjective(ss[r])
    BY <1>1, <1>3, <1>5
  <2>2. ASSUME NEW r \in 1 .. Len(ss), NEW q \in 1 .. Len(ss), r < q, NEW x \in ToSet(ss[r]), x \in ToSet(ss[q])
        PROVE  FALSE
    <3>1. r \in DOMAIN records /\ q \in DOMAIN records /\ x \in ToSet(part(r)) /\ x \in ToSet(part(q))
      BY <1>1, <1>5, <2>2
    <3>2. PICK v \in DOMAIN records[r] : x = Report(f, line + r, v)
      BY <1>3, <3>1
    <3>3. PICK w \in DOMAIN records[q] : x = Report(f, line + q, w)
      BY <1>3, <3>1
    <3>4. line + r = line + q
      BY <3>2, <3>3, ReportsApart
    <3>5. QED
      BY <1>1, <2>2, <3>1, <3>4
  <2>3. QED
    BY <1>5, <2>1, <2>2, FlattenOnce
<1>10. QED
  BY <1>4, <1>6, <1>8, <1>9 DEF FaultOf

-----------------------------------------------------------------------------
(* Lines and records of a job *)

Size(w, f) == Len(w[f])
\* The line of a record in its file
LineAt(w, f, r) == r + IF w.separate \/ f = "header" THEN 0 ELSE Size(w, "header")
\* e is the report of a faulty field of a record
FaultIn(w, f, r, e) == \E v \in DOMAIN w[f][r] : w[f][r][v].faulty /\ e = Report(f, LineAt(w, f, r), v)
\* e is the report of a faulty field of one of the records i + 1 .. j
FaultFrom(w, f, i, j, e) == \E r \in DOMAIN w[f] : i < r /\ r <= j /\ FaultIn(w, f, r, e)
\* e is to be reported when so many records of the header and of the data have been checked
DueOf(w, hs, ds, e) == FaultFrom(w, "header", 0, hs, e) \/ FaultFrom(w, "data", 0, ds, e)
LinesAre(w, ls, hs, ds) ==
    IF w.separate THEN ls["header"] = hs /\ ls["data"] = ds ELSE ls["header"] = 0 /\ ls["data"] = hs + ds

\* FileChecks' line of a record is LineAt.
LEMMA LineOfIs ==
  ASSUME NEW f, NEW r
  PROVE  LineOf(f, r) = LineAt(work, f, r)
BY DEF LineOf, LineAt, Size

\* What the assumption says of a job.
LEMMA JobRecords ==
  ASSUME NEW w, IsCheckJob(w)
  PROVE  /\ w.separate \in BOOLEAN
         /\ \A f \in CheckedFormats :
               /\ AreRecords(w[f])
               /\ Size(w, f) \in Nat /\ DOMAIN w[f] = 1 .. Size(w, f)
<1>1. w.separate \in BOOLEAN
  BY DEF IsCheckJob
<1>2. ASSUME NEW f \in CheckedFormats
      PROVE  /\ AreRecords(w[f])
             /\ Size(w, f) \in Nat /\ DOMAIN w[f] = 1 .. Size(w, f)
  <2>1. AreRecords(w[f])
    BY <1>2 DEF IsCheckJob, AreRecords, IsRecord
  <2>2. QED
    BY <2>1 DEF AreRecords, Size
<1>3. QED
  BY <1>1, <1>2

-----------------------------------------------------------------------------
(* What is due *)

\* The records after the first s of a format, in a buffer, with the number of the line before them
NextRecords(w, f, s, n, base, records) ==
    /\ DOMAIN records = 1 .. n /\ AreRecords(records)
    /\ \A r \in 1 .. n : records[r] = w[f][s + r] /\ base + r = LineAt(w, f, s + r)
\* The messages about them
RightReports(w, f, s, n, base, errors) ==
    /\ errors \in Seq(Reports) /\ IsInjective(errors)
    /\ \A e : e \in ToSet(errors) <=> FaultFrom(w, f, s, s + n, e)
    /\ \A e \in ToSet(errors) : e.format = f /\ base < e.line /\ e.line <= base + n

\* The messages about the next records of a format are those due of them.
LEMMA PartReported ==
  ASSUME NEW w, IsCheckJob(w), NEW f \in CheckedFormats,
         NEW s \in Nat, NEW n \in Nat, s + n <= Size(w, f), NEW base \in Nat,
         NEW records, NextRecords(w, f, s, n, base, records)
  PROVE  RightReports(w, f, s, n, base, BufferErrors(f, records, base))
<1> USE DEF NextRecords
<1> DEFINE be == BufferErrors(f, records, base)
           Local(e) == \E r \in 1 .. n : \E v \in DOMAIN records[r] : records[r][v].faulty /\ e = Report(f, base + r, v)
<1>1. be \in Seq(Reports) /\ IsInjective(be) /\ \A e : e \in ToSet(be) <=> Local(e)
  <2>1. be \in Seq(Reports) /\ IsInjective(be) /\ \A e : e \in ToSet(be) <=> FaultOf(f, records, base, e)
    BY BufferReported
  <2> HIDE DEF be
  <2>2. QED
    BY <2>1 DEF FaultOf
<1> HIDE DEF be
<1>2. DOMAIN w[f] = 1 .. Size(w, f) /\ Size(w, f) \in Nat
  BY JobRecords
<1>3. ASSUME NEW e, Local(e)
      PROVE  FaultFrom(w, f, s, s + n, e)
  <2>1. PICK r \in 1 .. n : \E v \in DOMAIN records[r] : records[r][v].faulty /\ e = Report(f, base + r, v)
    BY <1>3
  <2>2. s + r \in DOMAIN w[f] /\ s < s + r /\ s + r <= s + n
    BY <1>2
  <2>3. records[r] = w[f][s + r] /\ base + r = LineAt(w, f, s + r)
    OBVIOUS
  <2>4. FaultIn(w, f, s + r, e)
    BY <2>1, <2>3 DEF FaultIn
  <2>5. QED
    BY <2>2, <2>4 DEF FaultFrom
<1>4. ASSUME NEW e, FaultFrom(w, f, s, s + n, e)
      PROVE  Local(e)
  <2>1. PICK q \in DOMAIN w[f] : s < q /\ q <= s + n /\ FaultIn(w, f, q, e)
    BY <1>4 DEF FaultFrom
  <2> DEFINE r == q - s
  <2>2. r \in 1 .. n /\ s + r = q
    BY <1>2, <2>1
  <2> HIDE DEF r
  <2>3. records[r] = w[f][q] /\ base + r = LineAt(w, f, q)
    BY <2>2
  <2>4. \E v \in DOMAIN records[r] : records[r][v].faulty /\ e = Report(f, base + r, v)
    BY <2>1, <2>3 DEF FaultIn
  <2>5. QED
    BY <2>2, <2>4
<1>5. ASSUME NEW e, Local(e)
      PROVE  e.format = f /\ base < e.line /\ e.line <= base + n
  <2>1. PICK r \in 1 .. n : \E v \in DOMAIN records[r] : e = Report(f, base + r, v)
    BY <1>5
  <2>2. e.format = f /\ e.line = base + r
    BY <2>1 DEF Report
  <2>3. QED
    BY <2>2
<1> HIDE DEF Local
<1>6. QED
  BY <1>1, <1>3, <1>4, <1>5 DEF be, RightReports

\* Records that are one behind the other.
LEMMA FaultsJoin ==
  ASSUME NEW w, IsCheckJob(w), NEW f \in CheckedFormats,
         NEW s \in Nat, NEW n \in Nat, NEW e
  PROVE  FaultFrom(w, f, 0, s + n, e) <=> FaultFrom(w, f, 0, s, e) \/ FaultFrom(w, f, s, s + n, e)
<1>1. \A r \in DOMAIN w[f] : r \in Nat
  BY JobRecords
<1>2. \A r \in Nat : 0 < r /\ r <= s + n <=> (0 < r /\ r <= s) \/ (s < r /\ r <= s + n)
  OBVIOUS
<1>3. QED
  BY <1>1, <1>2 DEF FaultFrom

\* No records have no faults.
LEMMA NoFaults ==
  ASSUME NEW w, IsCheckJob(w), NEW f \in CheckedFormats, NEW s \in Nat, NEW e
  PROVE  ~ FaultFrom(w, f, s, s, e)
<1>1. \A r \in DOMAIN w[f] : r \in Nat
  BY JobRecords
<1>2. QED
  BY <1>1 DEF FaultFrom

\* More records have been checked.
LEMMA DueMore ==
  ASSUME NEW w, IsCheckJob(w), NEW hs \in Nat, NEW hn \in Nat, NEW ds \in Nat, NEW dn \in Nat, NEW e
  PROVE  DueOf(w, hs + hn, ds + dn, e) <=>
            DueOf(w, hs, ds, e) \/ FaultFrom(w, "header", hs, hs + hn, e) \/ FaultFrom(w, "data", ds, ds + dn, e)
<1>1. FaultFrom(w, "header", 0, hs + hn, e) <=> FaultFrom(w, "header", 0, hs, e) \/ FaultFrom(w, "header", hs, hs + hn, e)
  BY FaultsJoin DEF CheckedFormats
<1>2. FaultFrom(w, "data", 0, ds + dn, e) <=> FaultFrom(w, "data", 0, ds, e) \/ FaultFrom(w, "data", ds, ds + dn, e)
  BY FaultsJoin DEF CheckedFormats
<1>3. QED
  BY <1>1, <1>2, Zenon DEF DueOf

-----------------------------------------------------------------------------
(* The inductive invariant *)

\* How many records have been checked
HeaderSeen == IF (phase = "read" /\ read = 0) \/ "header" \in fresh THEN 0 ELSE Size(work, "header")
DataSeen == read - IF "data" \in fresh THEN Len(buffers["data"]) ELSE 0

PlaceRight ==
    /\ work \in CheckJobs /\ read \in 0 .. Size(work, "data")
    /\ phase \in {"read", "check", "last", "done"}
    /\ phase \in {"read", "done"} => fresh = {}
    /\ phase \in {"last", "done"} => read = Size(work, "data")
    /\ phase = "check" => read > 0
\* The buffers hold what is to be checked next
BuffersRight ==
    /\ fresh \subseteq CheckedFormats
    /\ "data" \in fresh =>
          /\ Len(buffers["data"]) \in 1 .. read
          /\ buffers["data"] = SubSeq(work["data"], DataSeen + 1, read)
    /\ "header" \in fresh => buffers["header"] = work["header"] /\ DataSeen = 0
LinesRight ==
    /\ lines = [f \in CheckedFormats |-> lines[f]]
    /\ LinesAre(work, lines, HeaderSeen, DataSeen)
\* What is due has been reported, and nothing else
ReportsRight ==
    /\ wrong \in Seq(Reports) /\ IsInjective(wrong)
    /\ \A e \in ToSet(wrong) : e.line <= lines[Count(e.format)]
    /\ \A e : e \in ToSet(wrong) <=> DueOf(work, HeaderSeen, DataSeen, e)
ChecksInv == PlaceRight /\ BuffersRight /\ LinesRight /\ ReportsRight

\* What is known of the job.
LEMMA Known ==
  ASSUME PlaceRight
  PROVE  /\ IsCheckJob(work)
         /\ \A f \in CheckedFormats :
               Size(work, f) \in Nat /\ AreRecords(work[f]) /\ DOMAIN work[f] = 1 .. Size(work, f)
         /\ Size(work, "header") \in Nat /\ Size(work, "data") \in Nat
         /\ read \in Nat /\ work.separate \in BOOLEAN
<1>1. IsCheckJob(work)
  BY CheckJobsAssumption DEF PlaceRight
<1>2. read \in Nat
  BY DEF PlaceRight
<1>3. QED
  BY <1>1, <1>2, JobRecords DEF CheckedFormats

\* The invariant holds before anything is read.
LEMMA InitRight == ChecksInit => ChecksInv
<1> SUFFICES ASSUME ChecksInit PROVE ChecksInv
  OBVIOUS
<1>1. work \in CheckJobs /\ read = 0 /\ phase = "read" /\ wrong = <<>> /\ fresh = {}
  BY DEF ChecksInit
<1>2. lines = [f \in CheckedFormats |-> 0] /\ lines["header"] = 0 /\ lines["data"] = 0
  BY DEF ChecksInit, CheckedFormats
<1>3. IsCheckJob(work)
  BY <1>1, CheckJobsAssumption
<1>4. PlaceRight
  <2>1. Size(work, "data") \in Nat
    BY <1>3, JobRecords DEF CheckedFormats
  <2>2. QED
    BY <1>1, <2>1 DEF PlaceRight
<1>5. HeaderSeen = 0 /\ DataSeen = 0
  <2>1. HeaderSeen = 0
    BY <1>1, Zenon DEF HeaderSeen
  <2>2. DataSeen = 0 - 0
    BY <1>1, Zenon DEF DataSeen
  <2>3. QED
    BY <2>1, <2>2
<1>6. BuffersRight
  BY <1>1 DEF BuffersRight
<1>7. LinesRight
  BY <1>1, <1>2, <1>5 DEF LinesRight, LinesAre
<1>8. ReportsRight
  <2>1. wrong \in Seq(Reports) /\ ToSet(wrong) = {} /\ IsInjective(wrong)
    BY <1>1 DEF ToSet, IsInjective
  <2>2. \A e : ~ DueOf(work, 0, 0, e)
    BY <1>3, NoFaults DEF DueOf, CheckedFormats
  <2>3. QED
    BY <1>1, <1>5, <2>1, <2>2 DEF ReportsRight
<1>9. QED
  BY <1>4, <1>6, <1>7, <1>8 DEF ChecksInv

\* A step that checks nothing.
LEMMA NothingChecked ==
  ASSUME LinesRight, ReportsRight, UNCHANGED <<work, lines, wrong>>,
         HeaderSeen' = HeaderSeen, DataSeen' = DataSeen
  PROVE  LinesRight' /\ ReportsRight'
<1>1. LinesRight'
  BY Zenon DEF LinesRight
<1>2. ReportsRight'
  BY Zenon DEF ReportsRight, Count
<1>3. QED
  BY <1>1, <1>2

\* db_do(DBDO_READ_FORMATS): what has been read is still to be checked.
LEMMA ReadFormatsKeeps ==
  ASSUME ChecksInv, ReadFormats
  PROVE  ChecksInv'
<1> USE DEF ChecksInv
<1>1. /\ IsCheckJob(work) /\ work \in CheckJobs
      /\ Size(work, "header") \in Nat /\ Size(work, "data") \in Nat /\ read \in Nat
      /\ read <= Size(work, "data")
  BY Known DEF PlaceRight
<1>2. phase = "read" /\ fresh = {} /\ UNCHANGED <<work, lines, wrong>>
  BY DEF ReadFormats, PlaceRight
<1> DEFINE left == Len(work.data) - read
<1>3. PICK n \in {IF c < left THEN c ELSE left : c \in work.caches} :
         /\ buffers' = [data |-> IF n = 0 THEN buffers["data"] ELSE SubSeq(work.data, read + 1, read + n),
                        header |-> IF read = 0 THEN work.header ELSE buffers["header"]]
         /\ fresh' = fresh \cup {f \in CheckedFormats : IF f = "data" THEN n > 0 ELSE read = 0 /\ work.header # <<>>}
         /\ read' = read + n
         /\ phase' = IF n = 0 THEN "last" ELSE "check"
  BY DEF ReadFormats
<1>4. left \in Nat /\ left = Size(work, "data") - read
  BY <1>1 DEF Size
<1>5. n \in Nat /\ n <= left /\ (n = 0 => left = 0)
  <2>1. PICK c \in work.caches : n = IF c < left THEN c ELSE left
    OBVIOUS
  <2>2. c \in Nat \ {0}
    BY <1>1 DEF IsCheckJob
  <2> HIDE DEF left
  <2>3. QED
    BY <1>4, <2>1, <2>2
<1>6. /\ "data" \in fresh' <=> n > 0
      /\ "header" \in fresh' <=> read = 0 /\ work.header # <<>>
      /\ fresh' \subseteq CheckedFormats
  <2>1. fresh' = {f \in CheckedFormats : IF f = "data" THEN n > 0 ELSE read = 0 /\ work.header # <<>>}
    BY <1>2, <1>3
  <2>2. "data" \in CheckedFormats /\ "header" \in CheckedFormats /\ "header" # "data"
    BY DEF CheckedFormats
  <2>3. QED
    BY <2>1, <2>2
<1>7. /\ n > 0 => buffers'["data"] = SubSeq(work["data"], read + 1, read + n)
      /\ read = 0 => buffers'["header"] = work["header"]
  <2> DEFINE x == IF n = 0 THEN buffers["data"] ELSE SubSeq(work.data, read + 1, read + n)
             y == IF read = 0 THEN work.header ELSE buffers["header"]
  <2>1. buffers' = [data |-> x, header |-> y]
    BY <1>3
  <2> HIDE DEF x, y
  <2>2. buffers'["data"] = x /\ buffers'["header"] = y
    BY <2>1
  <2>3. n > 0 => n # 0
    BY <1>5
  <2>4. n > 0 => x = SubSeq(work.data, read + 1, read + n)
    BY <2>3, Zenon DEF x
  <2>5. read = 0 => y = work.header
    BY DEF y
  <2>6. work.data = work["data"] /\ work.header = work["header"]
    OBVIOUS
  <2>7. QED
    BY <2>2, <2>4, <2>5, <2>6, Zenon
<1>8. n > 0 => Len(buffers'["data"]) = n
  <2>1. work["data"] \in Seq(ToSet(work["data"])) /\ Len(work["data"]) = Size(work, "data")
    <3>1. AreRecords(work["data"])
      BY <1>1, JobRecords DEF CheckedFormats
    <3>2. QED
      BY <3>1 DEF AreRecords, Size
  <2>2. SUFFICES ASSUME n > 0 PROVE Len(SubSeq(work["data"], read + 1, read + n)) = n
    BY <1>7
  <2> HIDE DEF left
  <2>3. QED
    BY <1>1, <1>4, <1>5, <2>1, <2>2
<1>9. work.header # <<>> <=> Size(work, "header") # 0
  <2>1. AreRecords(work["header"])
    BY <1>1, JobRecords DEF CheckedFormats
  <2>2. QED
    BY <2>1 DEF AreRecords, Size
<1> HIDE DEF left
<1>10. DataSeen' = DataSeen /\ DataSeen = read
  <2>1. DataSeen = read
    BY <1>1, <1>2 DEF DataSeen
  <2>2. DataSeen' = (read + n) - IF n > 0 THEN n ELSE 0
    BY <1>3, <1>6, <1>8 DEF DataSeen
  <2>3. QED
    BY <1>1, <1>5, <2>1, <2>2
<1>11. HeaderSeen' = HeaderSeen
  <2>1. Size(work, "header")' = Size(work, "header")
    BY <1>2 DEF Size
  <2>2. phase' # "read"
    BY <1>3
  <2>3. HeaderSeen' = IF read = 0 /\ work.header # <<>> THEN 0 ELSE Size(work, "header")
    BY <1>6, <2>1, <2>2 DEF HeaderSeen
  <2>4. HeaderSeen = IF read = 0 THEN 0 ELSE Size(work, "header")
    BY <1>2 DEF HeaderSeen
  <2>5. QED
    BY <1>9, <2>3, <2>4
<1>12. PlaceRight'
  <2>1. read' \in 0 .. Size(work, "data") /\ (n = 0 => read' = Size(work, "data")) /\ (n # 0 => read' > 0)
    BY <1>1, <1>3, <1>4, <1>5
  <2>2. Size(work, "data")' = Size(work, "data")
    BY <1>2 DEF Size
  <2>3. QED
    BY <1>1, <1>2, <1>3, <2>1, <2>2 DEF PlaceRight
<1>13. BuffersRight'
  <2>1. "data" \in fresh' => /\ Len(buffers'["data"]) \in 1 .. read'
                             /\ buffers'["data"] = SubSeq(work["data"], DataSeen' + 1, read')
    BY <1>1, <1>3, <1>5, <1>6, <1>7, <1>8, <1>10
  <2>2. "header" \in fresh' => buffers'["header"] = work["header"] /\ DataSeen' = 0
    BY <1>6, <1>7, <1>10
  <2>3. work' = work
    BY <1>2
  <2>4. QED
    BY <1>6, <2>1, <2>2, <2>3 DEF BuffersRight
<1>14. LinesRight' /\ ReportsRight'
  BY <1>2, <1>10, <1>11, NothingChecked
<1>15. QED
  BY <1>12, <1>13, <1>14

\* Nothing happens.
LEMMA StutterKeeps ==
  ASSUME ChecksInv, UNCHANGED checkVars
  PROVE  ChecksInv'
<1>1. UNCHANGED <<work, read, buffers, fresh, lines, wrong, phase>>
  BY DEF checkVars
<1>2. Size(work, "header")' = Size(work, "header") /\ Size(work, "data")' = Size(work, "data")
  BY <1>1 DEF Size
<1>3. HeaderSeen' = HeaderSeen
  BY <1>1, <1>2, Zenon DEF HeaderSeen
<1>4. DataSeen' = DataSeen
  BY <1>1, Zenon DEF DataSeen
<1>5. PlaceRight'
  BY <1>1, <1>2, Zenon DEF ChecksInv, PlaceRight
<1>6. BuffersRight'
  BY <1>1, <1>4, Zenon DEF ChecksInv, BuffersRight
<1>7. LinesRight' /\ ReportsRight'
  BY <1>1, <1>3, <1>4, NothingChecked DEF ChecksInv
<1>8. QED
  BY <1>5, <1>6, <1>7 DEF ChecksInv

-----------------------------------------------------------------------------
(* do_checks *)

\* The records in memory that are to be checked, the lines before them, and the messages about them
Unchecked(f) == IF f \in fresh THEN Len(buffers[f]) ELSE 0
HeaderBase == lines[Count("header")]
DataBase == lines[Count("data")] + IF Count("header") = "data" THEN Unchecked("header") ELSE 0
NewErrors(f, base) == IF f \in fresh THEN BufferErrors(f, buffers[f], base) ELSE <<>>
NewHeader == NewErrors("header", HeaderBase)
NewData == NewErrors("data", DataBase)

\* do_checks, with the names above.
LEMMA DoChecksIs ==
  ASSUME DoChecks
  PROVE  /\ phase \in {"check", "last"}
         /\ wrong' = wrong \o NewHeader \o NewData
         /\ lines' = [lines EXCEPT !["data"] = DataBase + Unchecked("data"),
                                   !["header"] = @ + IF Count("header") = "data" THEN 0 ELSE Unchecked("header")]
         /\ fresh' = {}
         /\ phase' = IF phase = "last" THEN "done" ELSE "read"
         /\ UNCHANGED <<work, read, buffers>>
BY DEF DoChecks, StillFresh, NewHeader, NewData, NewErrors, HeaderBase, DataBase, Unchecked

\* The records to be checked are the next ones of the file.
LEMMA UncheckedRecords ==
  ASSUME PlaceRight, BuffersRight, phase \in {"check", "last"}
  PROVE  /\ HeaderSeen \in Nat /\ Unchecked("header") \in Nat
         /\ HeaderSeen + Unchecked("header") = Size(work, "header")
         /\ DataSeen \in Nat /\ Unchecked("data") \in Nat
         /\ DataSeen + Unchecked("data") = read /\ read <= Size(work, "data")
         /\ "header" \in fresh => DataSeen = 0 /\ HeaderSeen = 0
         /\ "header" \in fresh => /\ AreRecords(buffers["header"])
                                  /\ DOMAIN buffers["header"] = 1 .. Unchecked("header")
                                  /\ \A r \in 1 .. Unchecked("header") :
                                        buffers["header"][r] = work["header"][HeaderSeen + r]
         /\ "data" \in fresh => /\ AreRecords(buffers["data"])
                                /\ DOMAIN buffers["data"] = 1 .. Unchecked("data")
                                /\ \A r \in 1 .. Unchecked("data") :
                                      buffers["data"][r] = work["data"][DataSeen + r]
<1> DEFINE H == Size(work, "header")
           D == Size(work, "data")
           h == work["header"]
           d == work["data"]
<1>1. /\ H \in Nat /\ D \in Nat /\ read \in Nat /\ read <= D
      /\ AreRecords(h) /\ DOMAIN h = 1 .. H /\ AreRecords(d) /\ DOMAIN d = 1 .. D
  BY Known DEF CheckedFormats, PlaceRight
<1>2. HeaderSeen = IF "header" \in fresh THEN 0 ELSE H
  BY DEF HeaderSeen
<1>3. DataSeen = read - Unchecked("data")
  BY Zenon DEF DataSeen, Unchecked
<1>4. "header" \in fresh => buffers["header"] = h /\ DataSeen = 0
  BY DEF BuffersRight
<1>5. "data" \in fresh => Len(buffers["data"]) \in 1 .. read /\ buffers["data"] = SubSeq(d, DataSeen + 1, read)
  BY DEF BuffersRight
<1>6. Len(h) = H /\ Len(d) = D
  BY DEF Size
<1> HIDE DEF H, D, h, d
<1>7. Unchecked("header") = IF "header" \in fresh THEN H ELSE 0
  BY <1>4, <1>6 DEF Unchecked
<1>8. /\ HeaderSeen \in Nat /\ Unchecked("header") \in Nat /\ HeaderSeen + Unchecked("header") = H
      /\ "header" \in fresh => HeaderSeen = 0
  BY <1>1, <1>2, <1>7
<1>9. DataSeen \in Nat /\ Unchecked("data") \in Nat /\ DataSeen + Unchecked("data") = read
  <2>1. CASE "data" \in fresh
    BY <1>1, <1>3, <1>5, <2>1 DEF Unchecked
  <2>2. CASE "data" \notin fresh
    <3>1. Unchecked("data") = 0
      BY <2>2 DEF Unchecked
    <3>2. QED
      BY <1>1, <1>3, <3>1
  <2>3. QED
    BY <2>1, <2>2
<1>10. ASSUME "header" \in fresh
       PROVE  /\ AreRecords(buffers["header"])
              /\ DOMAIN buffers["header"] = 1 .. Unchecked("header")
              /\ \A r \in 1 .. Unchecked("header") : buffers["header"][r] = h[HeaderSeen + r]
  BY <1>1, <1>4, <1>7, <1>8, <1>10
<1>11. ASSUME "data" \in fresh
       PROVE  /\ AreRecords(buffers["data"])
              /\ DOMAIN buffers["data"] = 1 .. Unchecked("data")
              /\ \A r \in 1 .. Unchecked("data") : buffers["data"][r] = d[DataSeen + r]
  <2> DEFINE u == buffers["data"]
             n == Unchecked("data")
             s == DataSeen
  <2>1. u = SubSeq(d, s + 1, read) /\ s \in Nat /\ n \in Nat /\ s + n = read /\ read <= D
    BY <1>1, <1>5, <1>9, <1>11
  <2>2. d \in Seq(ToSet(d)) /\ \A row \in ToSet(d) : IsRecord(row)
    BY <1>1 DEF AreRecords
  <2> HIDE DEF u, n, s
  <2>3. /\ u \in Seq(ToSet(d)) /\ DOMAIN u = 1 .. n /\ Len(u) = n
        /\ \A r \in 1 .. n : u[r] = d[s + r]
    <3> DEFINE S == ToSet(d)
    <3>1. d \in Seq(S)
      BY <2>2
    <3> HIDE DEF S
    <3>2. u = SubSeq(d, s + 1, s + n) /\ s + n <= Len(d) /\ s \in Nat /\ n \in Nat
      BY <1>6, <2>1
    <3>3. u \in Seq(S) /\ DOMAIN u = 1 .. n /\ Len(u) = n
      BY <3>1, <3>2
    <3>4. \A r \in 1 .. n : u[r] = d[s + r]
      BY <3>1, <3>2
    <3>5. QED
      BY <3>3, <3>4 DEF S
  <2>4. ToSet(u) \subseteq ToSet(d) /\ u \in Seq(ToSet(u))
    BY <2>3 DEF ToSet
  <2>5. AreRecords(u)
    BY <2>2, <2>4 DEF AreRecords
  <2>6. QED
    BY <2>3, <2>5 DEF u, n, s
<1>12. QED
  BY <1>1, <1>4, <1>8, <1>9, <1>10, <1>11 DEF H, D, h, d

\* Which line comes before them.
LEMMA BasesRight ==
  ASSUME PlaceRight, BuffersRight, LinesRight, phase \in {"check", "last"}
  PROVE  /\ HeaderBase \in Nat /\ DataBase \in Nat
         /\ "header" \in fresh => \A r \in Nat : HeaderBase + r = LineAt(work, "header", HeaderSeen + r)
         /\ \A r \in Nat : DataBase + r = LineAt(work, "data", DataSeen + r)
<1> DEFINE hs == HeaderSeen
           ds == DataSeen
           H == Size(work, "header")
           hn == Unchecked("header")
<1>1. /\ hs \in Nat /\ ds \in Nat /\ hn \in Nat /\ hs + hn = H
      /\ ("header" \in fresh => ds = 0 /\ hs = 0)
  BY UncheckedRecords
<1>2. H \in Nat /\ work.separate \in BOOLEAN
  BY Known
<1>3. LinesAre(work, lines, hs, ds)
  BY DEF LinesRight
<1>4. Count("header") = IF work.separate THEN "header" ELSE "data"
  BY DEF Count
<1>5. Count("data") = "data"
  BY DEF Count
<1>6. /\ \A r : LineAt(work, "header", r) = r + 0
      /\ \A r : LineAt(work, "data", r) = r + IF work.separate THEN 0 ELSE H
  BY DEF LineAt
<1>7. /\ work.separate => lines["header"] = hs /\ lines["data"] = ds
      /\ ~ work.separate => lines["data"] = hs + ds
  BY <1>3 DEF LinesAre
<1> HIDE DEF hs, ds, H, hn
<1>8. CASE work.separate
  <2>1. HeaderBase = hs
    BY <1>4, <1>7, <1>8 DEF HeaderBase
  <2>2. DataBase = ds + 0
    BY <1>4, <1>5, <1>7, <1>8 DEF DataBase
  <2>3. QED
    BY <1>1, <1>2, <1>6, <1>8, <2>1, <2>2 DEF hs, ds
<1>9. CASE ~ work.separate
  <2>1. HeaderBase = hs + ds
    BY <1>4, <1>7, <1>9 DEF HeaderBase
  <2>2. DataBase = (hs + ds) + hn
    BY <1>4, <1>5, <1>7, <1>9 DEF DataBase, hn
  <2>3. /\ "header" \in fresh => \A r \in Nat : HeaderBase + r = LineAt(work, "header", hs + r)
        /\ \A r \in Nat : DataBase + r = LineAt(work, "data", ds + r)
    <3>1. ASSUME "header" \in fresh, NEW r \in Nat
          PROVE  HeaderBase + r = LineAt(work, "header", hs + r)
      <4>1. LineAt(work, "header", hs + r) = (hs + r) + 0
        BY <1>6
      <4>2. QED
        BY <1>1, <1>2, <2>1, <3>1, <4>1
    <3>2. ASSUME NEW r \in Nat
          PROVE  DataBase + r = LineAt(work, "data", ds + r)
      <4>1. LineAt(work, "data", ds + r) = (ds + r) + H
        BY <1>6, <1>9
      <4>2. QED
        BY <1>1, <1>2, <2>2, <4>1
    <3>3. QED
      BY <3>1, <3>2
  <2>4. HeaderBase \in Nat /\ DataBase \in Nat
    BY <1>1, <1>2, <2>1, <2>2
  <2>5. QED
    BY <2>3, <2>4 DEF hs, ds
<1>10. QED
  BY <1>2, <1>8, <1>9

\* No messages about no records.
LEMMA NothingReported ==
  ASSUME PlaceRight, NEW f \in CheckedFormats, NEW s \in Nat, NEW base \in Nat
  PROVE  RightReports(work, f, s, 0, base, <<>>)
<1>1. <<>> \in Seq(Reports) /\ IsInjective(<<>>) /\ ToSet(<<>>) = {}
  BY DEF IsInjective, ToSet
<1>2. IsCheckJob(work) /\ s + 0 = s
  BY Known DEF PlaceRight
<1>3. \A e : ~ FaultFrom(work, f, s, s, e)
  BY <1>2, NoFaults
<1>4. QED
  BY <1>1, <1>2, <1>3 DEF RightReports

\* The messages about the header are right: it is fresh or there are none.
LEMMA HeaderReported ==
  ASSUME PlaceRight, BuffersRight, LinesRight, phase \in {"check", "last"}
  PROVE  RightReports(work, "header", HeaderSeen, Unchecked("header"), HeaderBase, NewHeader)
<1>1. /\ HeaderSeen \in Nat /\ Unchecked("header") \in Nat /\ HeaderBase \in Nat
      /\ HeaderSeen + Unchecked("header") <= Size(work, "header")
      /\ IsCheckJob(work) /\ "header" \in CheckedFormats
  BY UncheckedRecords, BasesRight, Known DEF PlaceRight, CheckedFormats
<1>2. CASE "header" \in fresh
  <2> DEFINE records == buffers["header"]
  <2>1. /\ AreRecords(records) /\ DOMAIN records = 1 .. Unchecked("header")
        /\ \A r \in 1 .. Unchecked("header") : records[r] = work["header"][HeaderSeen + r]
    BY <1>2, UncheckedRecords
  <2>2. \A r \in 1 .. Unchecked("header") : HeaderBase + r = LineAt(work, "header", HeaderSeen + r)
    BY <1>2, BasesRight
  <2>3. NewHeader = BufferErrors("header", records, HeaderBase)
    BY <1>2 DEF NewHeader, NewErrors
  <2>4. NextRecords(work, "header", HeaderSeen, Unchecked("header"), HeaderBase, records)
    BY <2>1, <2>2 DEF NextRecords
  <2> HIDE DEF records
  <2>5. QED
    BY <1>1, <2>3, <2>4, PartReported
<1>3. CASE "header" \notin fresh
  <2>1. NewHeader = <<>> /\ Unchecked("header") = 0
    BY <1>3 DEF NewHeader, NewErrors, Unchecked
  <2>2. QED
    BY <1>1, <2>1, NothingReported
<1>4. QED
  BY <1>2, <1>3

\* So are those about the data.
LEMMA DataReported ==
  ASSUME PlaceRight, BuffersRight, LinesRight, phase \in {"check", "last"}
  PROVE  RightReports(work, "data", DataSeen, Unchecked("data"), DataBase, NewData)
<1>1. /\ DataSeen \in Nat /\ Unchecked("data") \in Nat /\ DataBase \in Nat
      /\ DataSeen + Unchecked("data") <= Size(work, "data")
      /\ IsCheckJob(work) /\ "data" \in CheckedFormats
  BY UncheckedRecords, BasesRight, Known DEF PlaceRight, CheckedFormats
<1>2. CASE "data" \in fresh
  <2> DEFINE records == buffers["data"]
  <2>1. /\ AreRecords(records) /\ DOMAIN records = 1 .. Unchecked("data")
        /\ \A r \in 1 .. Unchecked("data") : records[r] = work["data"][DataSeen + r]
    BY <1>2, UncheckedRecords
  <2>2. \A r \in 1 .. Unchecked("data") : DataBase + r = LineAt(work, "data", DataSeen + r)
    BY BasesRight
  <2>3. NewData = BufferErrors("data", records, DataBase)
    BY <1>2 DEF NewData, NewErrors
  <2>4. NextRecords(work, "data", DataSeen, Unchecked("data"), DataBase, records)
    BY <2>1, <2>2 DEF NextRecords
  <2> HIDE DEF records
  <2>5. QED
    BY <1>1, <2>3, <2>4, PartReported
<1>3. CASE "data" \notin fresh
  <2>1. NewData = <<>> /\ Unchecked("data") = 0
    BY <1>3 DEF NewData, NewErrors, Unchecked
  <2>2. QED
    BY <1>1, <2>1, NothingReported
<1>4. QED
  BY <1>2, <1>3

\* How the line counts go on.
LEMMA CountsGoOn ==
  ASSUME PlaceRight, BuffersRight, LinesRight, DoChecks
  PROVE  /\ LinesAre(work, lines', HeaderSeen + Unchecked("header"), DataSeen + Unchecked("data"))
         /\ lines' = [f \in CheckedFormats |-> lines'[f]]
         /\ \A f \in CheckedFormats : lines[f] \in Nat /\ lines'[f] \in Nat /\ lines[f] <= lines'[f]
         /\ HeaderBase + Unchecked("header") <= lines'[Count("header")]
         /\ DataBase + Unchecked("data") <= lines'["data"]
         /\ lines["data"] <= DataBase
<1> DEFINE hs == HeaderSeen
           ds == DataSeen
           hn == Unchecked("header")
           dn == Unchecked("data")
           lh == lines["header"]
           ld == lines["data"]
           nh == lh + IF Count("header") = "data" THEN 0 ELSE hn
           nd == DataBase + dn
<1>1. /\ phase \in {"check", "last"} /\ lines = [f \in CheckedFormats |-> lines[f]]
      /\ lines' = [lines EXCEPT !["data"] = nd, !["header"] = @ + IF Count("header") = "data" THEN 0 ELSE hn]
  BY DoChecksIs DEF LinesRight
<1>2. /\ lines' = [f \in CheckedFormats |-> lines'[f]]
      /\ lines'["data"] = nd /\ lines'["header"] = nh
  <2> HIDE DEF nd, hn
  <2>1. "data" \in CheckedFormats /\ "header" \in CheckedFormats /\ "data" # "header" /\ DOMAIN lines = CheckedFormats
    BY <1>1 DEF CheckedFormats
  <2>2. QED
    BY <1>1, <2>1
<1>3. hs \in Nat /\ ds \in Nat /\ hn \in Nat /\ dn \in Nat
  BY <1>1, UncheckedRecords
<1>4. work.separate \in BOOLEAN
  BY Known
<1>5. /\ work.separate => lh = hs /\ ld = ds
      /\ ~ work.separate => lh = 0 /\ ld = hs + ds
  BY DEF LinesRight, LinesAre
<1>6. /\ Count("header") = IF work.separate THEN "header" ELSE "data"
      /\ Count("data") = "data"
  BY DEF Count
<1>7. /\ work.separate => DataBase = ld + 0
      /\ ~ work.separate => DataBase = ld + hn
      /\ work.separate => HeaderBase = lh
      /\ ~ work.separate => HeaderBase = ld
  BY <1>6 DEF DataBase, HeaderBase
<1>8. /\ work.separate => nh = lh + hn
      /\ ~ work.separate => nh = lh + 0
  BY <1>6
<1>9. lh \in Nat /\ ld \in Nat
  <2> HIDE DEF hs, ds, hn, dn, lh, ld, nh
  <2>1. QED
    BY <1>3, <1>4, <1>5
<1>10. /\ work.separate => lines'[Count("header")] = nh
       /\ ~ work.separate => lines'[Count("header")] = nd
  BY <1>2, <1>6
<1>11. \A f \in CheckedFormats : f = "header" \/ f = "data"
  BY DEF CheckedFormats
<1> HIDE DEF hs, ds, hn, dn, lh, ld, nh
<1>12. nh \in Nat /\ nd \in Nat /\ lh <= nh /\ ld <= nd /\ ld <= DataBase
  BY <1>3, <1>4, <1>7, <1>8, <1>9
<1>13. HeaderBase + hn <= lines'[Count("header")]
  BY <1>3, <1>4, <1>7, <1>8, <1>9, <1>10
<1>14. LinesAre(work, lines', hs + hn, ds + dn)
  <2>1. /\ work.separate => nh = hs + hn /\ nd = ds + dn
        /\ ~ work.separate => nh = 0 /\ nd = (hs + hn) + (ds + dn)
    BY <1>3, <1>4, <1>5, <1>7, <1>8
  <2> HIDE DEF nd
  <2>2. QED
    BY <1>2, <1>4, <2>1 DEF LinesAre
<1>15. \A f \in CheckedFormats : lines[f] \in Nat /\ lines'[f] \in Nat /\ lines[f] <= lines'[f]
  BY <1>2, <1>9, <1>11, <1>12 DEF lh, ld
<1>16. QED
  BY <1>2, <1>12, <1>13, <1>14, <1>15, <1>3 DEF hs, hn, ds, dn, ld

\* do_checks reports what is due of the records in memory, and nothing twice.
LEMMA DoChecksKeeps ==
  ASSUME ChecksInv, DoChecks
  PROVE  ChecksInv'
<1> DEFINE hs == HeaderSeen
           ds == DataSeen
           hn == Unchecked("header")
           dn == Unchecked("data")
<1>1. PlaceRight /\ BuffersRight /\ LinesRight /\ ReportsRight
  BY DEF ChecksInv
<1>2. /\ phase \in {"check", "last"} /\ wrong' = wrong \o NewHeader \o NewData /\ fresh' = {}
      /\ phase' = IF phase = "last" THEN "done" ELSE "read"
      /\ UNCHANGED <<work, read, buffers>>
  BY DoChecksIs
<1>3. /\ hs \in Nat /\ hn \in Nat /\ hs + hn = Size(work, "header")
      /\ ds \in Nat /\ dn \in Nat /\ ds + dn = read
  BY <1>1, <1>2, UncheckedRecords
<1>4. /\ RightReports(work, "header", hs, hn, HeaderBase, NewHeader)
      /\ RightReports(work, "data", ds, dn, DataBase, NewData)
  BY <1>1, <1>2, HeaderReported, DataReported
<1>5. /\ LinesAre(work, lines', hs + hn, ds + dn)
      /\ lines' = [f \in CheckedFormats |-> lines'[f]]
      /\ \A f \in CheckedFormats : lines[f] \in Nat /\ lines'[f] \in Nat /\ lines[f] <= lines'[f]
      /\ HeaderBase + hn <= lines'[Count("header")]
      /\ DataBase + dn <= lines'["data"]
      /\ lines["data"] <= DataBase
  BY <1>1, CountsGoOn
<1>6. /\ IsCheckJob(work) /\ read \in Nat /\ work.separate \in BOOLEAN
      /\ HeaderBase \in Nat /\ DataBase \in Nat
  BY <1>1, <1>2, Known, BasesRight DEF PlaceRight
<1>7. HeaderSeen' = hs + hn
  <2>1. Size(work, "header")' = Size(work, "header")
    BY <1>2 DEF Size
  <2>2. ~ (phase' = "read" /\ read' = 0)
    <3>1. phase = "check" => read > 0
      BY <1>1 DEF PlaceRight
    <3>2. phase' = "read" => phase = "check"
      BY <1>2
    <3>3. QED
      BY <1>2, <1>6, <3>1, <3>2
  <2>3. HeaderSeen' = Size(work, "header")
    BY <1>2, <2>1, <2>2 DEF HeaderSeen
  <2>4. QED
    BY <1>3, <2>3
<1>8. DataSeen' = ds + dn
  <2>1. DataSeen' = read - 0
    BY <1>2, Zenon DEF DataSeen
  <2>2. QED
    BY <1>3, <1>6, <2>1
<1> HIDE DEF hs, ds, hn, dn
<1>9. PlaceRight'
  <2>1. Size(work, "data")' = Size(work, "data")
    BY <1>2 DEF Size
  <2>2. phase' \in {"read", "done"} /\ (phase' = "done" => phase = "last")
    BY <1>2
  <2>3. QED
    BY <1>1, <1>2, <2>1, <2>2 DEF PlaceRight
<1>10. BuffersRight'
  BY <1>2 DEF BuffersRight
<1>11. LinesRight'
  BY <1>2, <1>5, <1>7, <1>8 DEF LinesRight
<1>12. ReportsRight'
  <2> DEFINE nw == wrong \o NewHeader
  <2>1. /\ wrong \in Seq(Reports) /\ IsInjective(wrong)
        /\ \A e \in ToSet(wrong) : e.line <= lines[Count(e.format)]
        /\ \A e : e \in ToSet(wrong) <=> DueOf(work, hs, ds, e)
    BY <1>1 DEF ReportsRight, hs, ds
  <2>2. /\ NewHeader \in Seq(Reports) /\ IsInjective(NewHeader)
        /\ \A e : e \in ToSet(NewHeader) <=> FaultFrom(work, "header", hs, hs + hn, e)
        /\ \A e \in ToSet(NewHeader) : e.format = "header" /\ HeaderBase < e.line /\ e.line <= HeaderBase + hn
    BY <1>4 DEF RightReports
  <2>3. /\ NewData \in Seq(Reports) /\ IsInjective(NewData)
        /\ \A e : e \in ToSet(NewData) <=> FaultFrom(work, "data", ds, ds + dn, e)
        /\ \A e \in ToSet(NewData) : e.format = "data" /\ DataBase < e.line /\ e.line <= DataBase + dn
    BY <1>4 DEF RightReports
  <2>4. \A s \in Seq(Reports) : \A e \in ToSet(s) : e.format \in CheckedFormats /\ e.line \in Nat
    <3>1. \A s \in Seq(Reports) : \A e \in ToSet(s) : e \in Reports
      BY DEF ToSet
    <3>2. \A e \in Reports : e.format \in CheckedFormats /\ e.line \in Nat
      BY DEF Reports
    <3>3. QED
      BY <3>1, <3>2
  <2>5. Count("data") = "data" /\ \A f \in CheckedFormats : Count(f) \in CheckedFormats
    BY DEF Count, CheckedFormats
  <2>6. \A e \in ToSet(wrong) : e \notin ToSet(NewHeader)
    <3>1. SUFFICES ASSUME NEW e, e \in ToSet(wrong), e \in ToSet(NewHeader) PROVE FALSE
      OBVIOUS
    <3>2. e.format = "header" /\ HeaderBase < e.line /\ e.line \in Nat
      BY <2>2, <2>4, <3>1
    <3>3. e.line <= lines[Count("header")]
      BY <2>1, <3>1, <3>2
    <3>4. QED
      BY <1>6, <3>2, <3>3 DEF HeaderBase
  <2>7. /\ nw \in Seq(Reports) /\ ToSet(nw) = ToSet(wrong) \cup ToSet(NewHeader) /\ IsInjective(nw)
    BY <2>1, <2>2, <2>6, ConcatItems
  <2>8. \A e \in ToSet(nw) : e \notin ToSet(NewData)
    <3>1. SUFFICES ASSUME NEW e, e \in ToSet(nw), e \in ToSet(NewData) PROVE FALSE
      OBVIOUS
    <3>2. e.format = "data" /\ DataBase < e.line /\ e.line \in Nat
      BY <2>3, <2>4, <3>1
    <3>3. e \notin ToSet(NewHeader)
      BY <2>2, <3>2
    <3>4. e \in ToSet(wrong)
      BY <2>7, <3>1, <3>3
    <3>5. e.line <= lines["data"]
      <4>1. e.line <= lines[Count(e.format)]
        BY <2>1, <3>4
      <4>2. QED
        BY <2>5, <3>2, <4>1
    <3>6. lines["data"] \in Nat
      BY <1>5 DEF CheckedFormats
    <3>7. QED
      BY <1>5, <1>6, <3>2, <3>5, <3>6
  <2>9. /\ wrong' \in Seq(Reports) /\ ToSet(wrong') = ToSet(nw) \cup ToSet(NewData) /\ IsInjective(wrong')
    <3>1. wrong' = nw \o NewData
      BY <1>2
    <3> HIDE DEF nw
    <3>2. QED
      BY <2>3, <2>7, <2>8, <3>1, ConcatItems
  <2>10. ASSUME NEW e \in ToSet(wrong')
         PROVE  e.line <= lines'[Count(e.format)]
    <3>1. e \in ToSet(wrong) \/ e \in ToSet(NewHeader) \/ e \in ToSet(NewData)
      BY <2>7, <2>9
    <3>2. CASE e \in ToSet(wrong)
      <4>1. e.line <= lines[Count(e.format)] /\ e.line \in Nat /\ Count(e.format) \in CheckedFormats
        BY <2>1, <2>4, <2>5, <3>2
      <4>2. QED
        BY <1>5, <4>1
    <3>3. CASE e \in ToSet(NewHeader)
      <4>1. e.format = "header" /\ e.line <= HeaderBase + hn /\ e.line \in Nat
        BY <2>2, <2>4, <3>3
      <4>2. lines'[Count("header")] \in Nat
        BY <1>5, <2>5 DEF CheckedFormats
      <4>3. QED
        BY <1>3, <1>5, <1>6, <4>1, <4>2
    <3>4. CASE e \in ToSet(NewData)
      <4>1. e.format = "data" /\ e.line <= DataBase + dn /\ e.line \in Nat
        BY <2>3, <2>4, <3>4
      <4>2. lines'["data"] \in Nat
        BY <1>5 DEF CheckedFormats
      <4>3. QED
        BY <1>3, <1>5, <1>6, <2>5, <4>1, <4>2
    <3>5. QED
      BY <3>1, <3>2, <3>3, <3>4
  <2>11. ASSUME NEW e
         PROVE  e \in ToSet(wrong') <=> DueOf(work, hs + hn, ds + dn, e)
    <3>1. DueOf(work, hs + hn, ds + dn, e) <=>
             \/ DueOf(work, hs, ds, e)
             \/ FaultFrom(work, "header", hs, hs + hn, e)
             \/ FaultFrom(work, "data", ds, ds + dn, e)
      BY <1>3, <1>6, DueMore
    <3>2. e \in ToSet(wrong') <=> e \in ToSet(wrong) \/ e \in ToSet(NewHeader) \/ e \in ToSet(NewData)
      BY <2>7, <2>9
    <3>3. QED
      BY <2>1, <2>2, <2>3, <3>1, <3>2
  <2>12. \A e \in ToSet(wrong') : e.line <= lines'[(Count(e.format))']
    BY <1>2, <2>10 DEF Count
  <2>13. \A e : e \in ToSet(wrong') <=> DueOf(work', HeaderSeen', DataSeen', e)
    BY <1>2, <1>7, <1>8, <2>11
  <2>14. QED
    BY <2>9, <2>12, <2>13 DEF ReportsRight
<1>13. QED
  BY <1>9, <1>10, <1>11, <1>12 DEF ChecksInv

-----------------------------------------------------------------------------

\* The invariant holds.
THEOREM ChecksInvariant == ChecksSpec => []ChecksInv
<1>1. ASSUME ChecksInv, [ChecksNext]_checkVars
      PROVE  ChecksInv'
  <2>1. CASE ReadFormats
    BY <1>1, <2>1, ReadFormatsKeeps
  <2>2. CASE DoChecks
    BY <1>1, <2>2, DoChecksKeeps
  <2>3. CASE UNCHANGED checkVars
    BY <1>1, <2>3, StutterKeeps
  <2>4. QED
    BY <1>1, <2>1, <2>2, <2>3 DEF ChecksNext
<1>2. QED
  BY <1>1, InitRight, PTL DEF ChecksSpec

\* When chkform is done, all has been checked.
LEMMA DoneRight == ChecksInv => ChecksRight
<1> SUFFICES ASSUME ChecksInv, phase = "done" PROVE
        /\ ToSet(wrong) =
             UNION {UNION {{[format |-> f, line |-> LineOf(f, r), field |-> v] :
                               v \in {u \in DOMAIN work[f][r] : work[f][r][u].faulty}} :
                           r \in DOMAIN work[f]} : f \in CheckedFormats}
        /\ IsInjective(wrong)
        /\ lines["data"] + lines["header"] = Len(work.header) + Len(work.data)
  BY DEF ChecksRight
<1> DEFINE H == Size(work, "header")
           D == Size(work, "data")
<1>1. PlaceRight /\ LinesRight /\ ReportsRight
  BY DEF ChecksInv
<1>2. IsCheckJob(work) /\ work.separate \in BOOLEAN /\ H \in Nat /\ D \in Nat
  BY <1>1, Known
<1>3. fresh = {} /\ read = D
  BY <1>1 DEF PlaceRight
<1>4. HeaderSeen = H /\ DataSeen = D
  <2>1. HeaderSeen = H
    BY <1>3 DEF HeaderSeen
  <2>2. DataSeen = read - 0
    BY <1>3, Zenon DEF DataSeen
  <2> HIDE DEF H, D
  <2>3. QED
    BY <1>2, <1>3, <2>1, <2>2
<1>5. IsInjective(wrong) /\ \A e : e \in ToSet(wrong) <=> DueOf(work, H, D, e)
  BY <1>1, <1>4 DEF ReportsRight
<1>6. \A e : DueOf(work, H, D, e) <=> \E f \in CheckedFormats : FaultFrom(work, f, 0, Size(work, f), e)
  BY DEF DueOf, CheckedFormats
<1>7. ASSUME NEW f \in CheckedFormats, NEW e
      PROVE  FaultFrom(work, f, 0, Size(work, f), e) <=>
                \E r \in DOMAIN work[f] : \E v \in DOMAIN work[f][r] :
                   work[f][r][v].faulty /\ e = [format |-> f, line |-> LineOf(f, r), field |-> v]
  <2>1. \A r \in DOMAIN work[f] : 0 < r /\ r <= Size(work, f)
    BY <1>2, JobRecords
  <2>2. FaultFrom(work, f, 0, Size(work, f), e) <=> \E r \in DOMAIN work[f] : FaultIn(work, f, r, e)
    BY <2>1 DEF FaultFrom
  <2>3. \A r, v : Report(f, LineAt(work, f, r), v) = [format |-> f, line |-> LineOf(f, r), field |-> v]
    BY LineOfIs DEF Report
  <2>4. QED
    BY <2>2, <2>3 DEF FaultIn
<1>8. \A e : e \in ToSet(wrong) <=>
          \E f \in CheckedFormats : \E r \in DOMAIN work[f] : \E v \in DOMAIN work[f][r] :
             work[f][r][v].faulty /\ e = [format |-> f, line |-> LineOf(f, r), field |-> v]
  <2> HIDE DEF H, D
  <2>1. \A e : e \in ToSet(wrong) <=> \E f \in CheckedFormats : FaultFrom(work, f, 0, Size(work, f), e)
    BY <1>5, <1>6
  <2>2. QED
    BY <1>7, <2>1
<1>9. lines["data"] + lines["header"] = Len(work.header) + Len(work.data)
  <2>1. LinesAre(work, lines, H, D)
    BY <1>1, <1>4 DEF LinesRight
  <2>2. Len(work.header) = H /\ Len(work.data) = D
    BY DEF Size
  <2> HIDE DEF H, D
  <2>3. QED
    BY <1>2, <2>1, <2>2 DEF LinesAre
<1>10. ToSet(wrong) = UNION {UNION {{[format |-> f, line |-> LineOf(f, r), field |-> v] :
                                        v \in {u \in DOMAIN work[f][r] : work[f][r][u].faulty}} :
                                    r \in DOMAIN work[f]} : f \in CheckedFormats}
  <2> DEFINE E(f, r, v) == [format |-> f, line |-> LineOf(f, r), field |-> v]
             F(f, r) == {u \in DOMAIN work[f][r] : work[f][r][u].faulty}
  <2>1. \A f, r, v : v \in F(f, r) <=> v \in DOMAIN work[f][r] /\ work[f][r][v].faulty
    OBVIOUS
  <2>2. \A e : e \in ToSet(wrong) <=>
           \E f \in CheckedFormats : \E r \in DOMAIN work[f] : \E v \in DOMAIN work[f][r] :
              work[f][r][v].faulty /\ e = E(f, r, v)
    BY <1>8
  <2> HIDE DEF E, F
  <2>3. \A e : e \in ToSet(wrong) <=>
           \E f \in CheckedFormats : \E r \in DOMAIN work[f] : \E v \in F(f, r) : e = E(f, r, v)
    BY <2>1, <2>2
  <2>4. ToSet(wrong) = UNION {UNION {{E(f, r, v) : v \in F(f, r)} : r \in DOMAIN work[f]} : f \in CheckedFormats}
    BY <2>3
  <2>5. QED
    BY <2>4 DEF E, F
<1>11. QED
  BY <1>5, <1>9, <1>10

\* Whatever the cache holds, chkform reports every faulty field, each once and with its line, and
\* counts all lines: for any file of any records and fields (chkform, do_checks).
THEOREM ChecksAreRight == ChecksSpec => []ChecksRight
BY ChecksInvariant, DoneRight, PTL

-----------------------------------------------------------------------------
(* readfile: what the first lines of a session come to *)

Begin == [at |-> 0, flip |-> FALSE, shown |-> <<>>]
Line(g, ls, k) == IF k = 0 THEN Begin ELSE Means(g[k - 1], Repeated(ls)[k])

\* The recursive function exists, for any lines: it begins as the program does, and every line
\* means something after those before it.
LEMMA AfterIs ==
  ASSUME NEW ls, Len(ls) \in Nat
  PROVE  /\ After(ls)[0] = Begin
         /\ \A k \in 1 .. Len(ls) : After(ls)[k] = Means(After(ls)[k - 1], Repeated(ls)[k])
<1> DEFINE n == Len(ls)
           Upto(g, k) == /\ g = [i \in 0 .. n |-> g[i]]
                         /\ \A i \in 0 .. n : i <= k => g[i] = Line(g, ls, i)
           T == {k \in Nat : \E g : Upto(g, k)}
<1>1. 0 \in T
  <2> DEFINE g == [i \in 0 .. n |-> Begin]
  <2>1. Upto(g, 0)
    BY DEF Line
  <2>2. QED
    BY <2>1
<1>2. ASSUME NEW k \in Nat, k \in T
      PROVE  k + 1 \in T
  <2>1. PICK g : Upto(g, k)
    BY <1>2
  <2> DEFINE h == [i \in 0 .. n |-> Line(g, ls, i)]
  <2>2. ASSUME NEW i \in 0 .. n, i <= k + 1
        PROVE  h[i] = Line(h, ls, i)
    <3>1. h[i] = Line(g, ls, i)
      OBVIOUS
    <3>2. CASE i = 0
      BY <3>1, <3>2 DEF Line
    <3>3. CASE i # 0
      <4>1. i - 1 \in 0 .. n /\ i - 1 <= k
        BY <2>2, <3>3
      <4>2. h[i - 1] = g[i - 1]
        BY <2>1, <4>1
      <4>3. QED
        <5> HIDE DEF h
        <5>1. QED
          BY <3>1, <3>3, <4>2, Zenon DEF Line
    <3>4. QED
      BY <3>2, <3>3
  <2>3. Upto(h, k + 1)
    BY <2>2
  <2> HIDE DEF h, Upto
  <2>4. QED
    BY <2>3
<1>3. n \in T
  <2> HIDE DEF T
  <2>1. QED
    BY <1>1, <1>2, FromZero
<1>4. PICK g : Upto(g, n)
  BY <1>3
<1>5. g = [i \in 0 .. n |-> Line(g, ls, i)]
  BY <1>4
<1> DEFINE f == CHOOSE h : h = [i \in 0 .. n |-> Line(h, ls, i)]
<1>6. f = [i \in 0 .. n |-> Line(f, ls, i)]
  <2> HIDE DEF n
  <2>1. QED
    BY <1>5, Zenon
<1>7. After(ls) = f
  BY Zenon DEF After, Line, Begin
<1> HIDE DEF f
<1>8. \A i \in 0 .. n : f[i] = Line(f, ls, i)
  BY <1>6, Zenon
<1>9. f[0] = Begin
  BY <1>8 DEF Line
<1>10. ASSUME NEW k \in 1 .. n
       PROVE  f[k] = Means(f[k - 1], Repeated(ls)[k])
  <2>1. k \in 0 .. n /\ k # 0
    OBVIOUS
  <2>2. QED
    BY <1>8, <2>1, Zenon DEF Line
<1>11. QED
  BY <1>7, <1>9, <1>10

\* A line repeats itself, an empty one what the line before repeats.
LEMMA RepeatedNext ==
  ASSUME NEW ls, NEW n \in Nat, Len(ls) = n, DOMAIN ls = 1 .. n, NEW k \in 1 .. n
  PROVE  Repeated(ls)[k] = IF ls[k] # <<>> THEN ls[k] ELSE IF k = 1 THEN <<>> ELSE Repeated(ls)[k - 1]
<1> DEFINE Is(i, j) == /\ \A l \in j + 1 .. i : ls[l] = <<>>
                       /\ j > 0 => ls[j] # <<>>
           At(i) == CHOOSE j \in 0 .. i : Is(i, j)
           Of(j) == IF j = 0 THEN <<>> ELSE ls[j]
<1>1. \A i \in 1 .. n : Repeated(ls)[i] = Of(At(i))
  BY DEF Repeated
<1>2. CASE ls[k] # <<>>
  <2>1. Is(k, k)
    BY <1>2
  <2>2. ASSUME NEW j \in 0 .. k, Is(k, j)
        PROVE  j = k
    <3>1. k \notin j + 1 .. k
      BY <1>2, <2>2
    <3>2. QED
      BY <3>1
  <2>3. At(k) = k
    <3> HIDE DEF Is
    <3>1. k \in 0 .. k
      OBVIOUS
    <3>2. QED
      BY <2>1, <2>2, <3>1, Zenon
  <2>4. QED
    <3> HIDE DEF At
    <3>1. QED
      BY <1>1, <1>2, <2>3
<1>3. CASE ls[k] = <<>> /\ k = 1
  <2>1. Is(k, 0)
    BY <1>3
  <2>2. ASSUME NEW j \in 0 .. k, Is(k, j)
        PROVE  j = 0
    BY <1>3, <2>2
  <2>3. At(k) = 0
    <3> HIDE DEF Is
    <3>1. 0 \in 0 .. k
      OBVIOUS
    <3>2. QED
      BY <2>1, <2>2, <3>1, Zenon
  <2>4. QED
    <3> HIDE DEF At
    <3>1. QED
      BY <1>1, <1>3, <2>3
<1>4. CASE ls[k] = <<>> /\ k # 1
  <2> DEFINE i == k - 1
  <2>1. i \in 1 .. n /\ i \in Nat
    BY <1>4
  <2>2. {j \in 0 .. k : Is(k, j)} = {j \in 0 .. i : Is(i, j)}
    <3>1. ASSUME NEW j \in 0 .. k, Is(k, j)
          PROVE  j \in 0 .. i /\ Is(i, j)
      BY <1>4, <3>1
    <3>2. ASSUME NEW j \in 0 .. i, Is(i, j)
          PROVE  j \in 0 .. k /\ Is(k, j)
      <4>1. \A l \in j + 1 .. k : l \in j + 1 .. i \/ l = k
        OBVIOUS
      <4>2. QED
        BY <1>4, <3>2, <4>1
    <3> HIDE DEF i, Is
    <3>3. QED
      BY <3>1, <3>2
  <2>3. \A m : At(m) = CHOOSE j : j \in {l \in 0 .. m : Is(m, l)}
    <3>1. \A m, j : (j \in {l \in 0 .. m : Is(m, l)}) <=> (j \in 0 .. m /\ Is(m, j))
      OBVIOUS
    <3> HIDE DEF Is
    <3>2. QED
      BY <3>1, Zenon
  <2>4. At(k) = At(i)
    <3> HIDE DEF At, Is, i
    <3>1. QED
      BY <2>2, <2>3, Zenon
  <2> HIDE DEF At
  <2>5. Repeated(ls)[k] = Of(At(k)) /\ Repeated(ls)[i] = Of(At(i))
    BY <1>1, <2>1
  <2>6. QED
    BY <1>4, <2>4, <2>5
<1>5. QED
  BY <1>2, <1>3, <1>4

-----------------------------------------------------------------------------
(* The keys of a line *)

From(ks, p) == SubSeq(ks, p, Len(ks))

\* What is left of a sequence from a place on.
LEMMA FromIs ==
  ASSUME NEW S, NEW ks \in Seq(S), NEW p \in 1 .. Len(ks)
  PROVE  /\ From(ks, p) # <<>> /\ Head(From(ks, p)) = ks[p]
         /\ Len(From(ks, p)) = Len(ks) - p + 1
         /\ Tail(From(ks, p)) = From(ks, p + 1)
         /\ p < Len(ks) => From(ks, p)[2] = ks[p + 1]
         /\ p < Len(ks) => SubSeq(From(ks, p), 3, Len(From(ks, p))) = From(ks, p + 2)
<1> DEFINE f == From(ks, p)
<1>1. f \in Seq(S) /\ Len(f) = Len(ks) - p + 1 /\ \A i \in 1 .. Len(ks) - p + 1 : f[i] = ks[p + i - 1]
  BY DEF From
<1>2. f # <<>> /\ Head(f) = ks[p]
  BY <1>1
<1>3. p < Len(ks) => f[2] = ks[p + 1]
  BY <1>1
<1>4. Tail(f) = From(ks, p + 1)
  <2>1. Tail(f) \in Seq(S) /\ Len(Tail(f)) = Len(ks) - p
    BY <1>1, <1>2
  <2>2. From(ks, p + 1) \in Seq(S) /\ Len(From(ks, p + 1)) = Len(ks) - p
    BY DEF From
  <2>3. ASSUME NEW i \in 1 .. Len(ks) - p
        PROVE  Tail(f)[i] = From(ks, p + 1)[i]
    <3>1. Tail(f)[i] = f[i + 1]
      BY <1>1, <1>2
    <3>2. From(ks, p + 1)[i] = ks[p + i]
      BY DEF From
    <3>3. f[i + 1] = ks[p + i]
      BY <1>1
    <3>4. QED
      BY <3>1, <3>2, <3>3
  <2> HIDE DEF f
  <2>4. QED
    BY <2>1, <2>2, <2>3
<1>5. ASSUME p < Len(ks)
      PROVE  SubSeq(f, 3, Len(f)) = From(ks, p + 2)
  <2>1. From(ks, p + 2) \in Seq(S) /\ Len(From(ks, p + 2)) = Len(ks) - p - 1
    BY <1>5 DEF From
  <2>2. \A i \in 1 .. Len(ks) - p - 1 : From(ks, p + 2)[i] = ks[p + i + 1]
    BY <1>5 DEF From
  <2> HIDE DEF f, From
  <2>3. SubSeq(f, 3, Len(f)) \in Seq(S) /\ Len(SubSeq(f, 3, Len(f))) = Len(ks) - p - 1
    BY <1>1, <1>5
  <2>4. \A i \in 1 .. Len(ks) - p - 1 : SubSeq(f, 3, Len(f))[i] = f[i + 2]
    BY <1>1, <1>5
  <2>5. \A i \in 1 .. Len(ks) - p - 1 : f[i + 2] = ks[p + i + 1]
    BY <1>1, <1>5
  <2> DEFINE A == SubSeq(f, 3, Len(f))
             B == From(ks, p + 2)
             m == Len(ks) - p - 1
  <2>6. A \in Seq(S) /\ B \in Seq(S) /\ Len(A) = m /\ Len(B) = m /\ \A i \in 1 .. m : A[i] = B[i]
    BY <2>1, <2>2, <2>3, <2>4, <2>5
  <2> HIDE DEF A, B, m
  <2>7. A = B
    BY <2>6
  <2>8. QED
    BY <2>7 DEF A, B
<1>6. QED
  BY <1>1, <1>2, <1>3, <1>4, <1>5

\* get_option reads a key, and with it the end of the line if it is typed.
LEMMA KeyRead ==
  ASSUME NEW S, session.keys \in Seq(S), NEW p \in 1 .. Len(session.keys)
  PROVE  LET ks == session.keys IN
         /\ Head(From(ks, p)) = ks[p]
         /\ session.piped \/ ks[p] = EOL => AfterKey(From(ks, p)) = From(ks, p + 1)
         /\ p < Len(ks) /\ ks[p + 1] # EOL => AfterKey(From(ks, p)) = From(ks, p + 1)
         /\ ~session.piped /\ ks[p] # EOL /\ p < Len(ks) /\ ks[p + 1] = EOL => AfterKey(From(ks, p)) = From(ks, p + 2)
<1> DEFINE ks == session.keys
           f == From(ks, p)
<1>1. /\ f # <<>> /\ Head(f) = ks[p] /\ Len(f) = Len(ks) - p + 1 /\ Tail(f) = From(ks, p + 1)
      /\ p < Len(ks) => f[2] = ks[p + 1] /\ SubSeq(f, 3, Len(f)) = From(ks, p + 2)
  BY FromIs
<1>2. Len(f) > 1 <=> p < Len(ks)
  BY <1>1
<1> HIDE DEF f
<1>3. QED
  BY <1>1, <1>2 DEF AfterKey, f

-----------------------------------------------------------------------------
(* A line is read by one step *)

UnsignedOf(r) == IF r[1] = "u" /\ r[2] \in UnsignedTypes THEN r[2] ELSE " "
Again(k) == Repeated(session.lines)[k]
KeysFrom(k) == From(session.keys, session.starts[k])
\* What is remembered after k lines
Remembered(k) == k > 0 => lastOption = Again(k)[1] /\ lastUnsigned = UnsignedOf(Again(k))

\* What the next keys are, by what the next line repeats
NextLine(k) ==
    LET r == Again(k)
        alone == r[1] \notin {"u", "p"} \/ (r[1] = "u" /\ TypeKnown)
    IN  /\ r[1] # "q" /\ Option = r[1]
        /\ alone => AfterKey(keys) = KeysFrom(k + 1)
        /\ ~alone => r = <<r[1], Head(AfterKey(keys))>> /\ AfterKey(AfterKey(keys)) = KeysFrom(k + 1)
        /\ r[1] \notin {"u", "p"} => r = <<r[1]>>
        /\ r[1] = "u" /\ TypeKnown => r = <<"u", lastUnsigned>>
        /\ r[1] = "p" => r[2] \in DOMAIN KeyPlaces

\* Whether a line is one key or two, or empty, its keys say what it repeats.
LEMMA LineKeys ==
  ASSUME session \in Sessions, NEW k \in DOMAIN session.lines, keys = KeysFrom(k), Remembered(k - 1)
  PROVE  NextLine(k) /\ Head(keys) # "q"
<1> DEFINE ks == session.keys
           ls == session.lines
           p == session.starts[k]
           q == session.starts[k + 1]
           l == ls[k]
           r == Again(k)
           n == Len(ls)
<1>1. IsSession(session)
  BY ViewerAssumption
<1>2. /\ n \in Nat /\ DOMAIN ls = 1 .. n /\ k \in 1 .. n
      /\ ks \in Seq(ToSet(ks)) /\ session.piped \in BOOLEAN
      /\ p \in 1 .. Len(ks) /\ q \in 1 .. Len(ks)
  <2>1. ls \in Seq(ToSet(ls)) /\ session.starts \in [1 .. n + 1 -> 1 .. Len(ks)]
        /\ ks \in Seq(ToSet(ks)) /\ session.piped \in BOOLEAN
    BY <1>1 DEF IsSession
  <2>2. n \in Nat /\ DOMAIN ls = 1 .. n
    BY <2>1
  <2>3. k \in 1 .. n + 1 /\ k + 1 \in 1 .. n + 1
    BY <2>2
  <2>4. QED
    BY <2>1, <2>2, <2>3
<1>3. /\ IsLine(l) /\ IsLine(r) /\ r # <<>>
      /\ l = <<>> => r[1] # "p" /\ (r[1] = "u" => r[2] \in UnsignedTypes)
      /\ q = p + Len(l) + IF l = <<>> \/ ~session.piped THEN 1 ELSE 0
      /\ \A j \in DOMAIN l : ks[p + j - 1] = l[j]
      /\ (l = <<>> \/ ~session.piped) => ks[p + Len(l)] = EOL
  BY <1>1, Zenon DEF IsSession, Again
<1>4. Head(keys) = ks[p]
  BY <1>2, KeyRead DEF KeysFrom
<1>5. l # <<>> => r = l
  BY <1>2, RepeatedNext DEF Again
<1> HIDE DEF ks, ls, p, q, l, r, n
<1>6. CASE l = <<>>
  <2>1. Len(l) = 0 /\ q = p + 1 /\ ks[p] = EOL
    BY <1>2, <1>3, <1>6
  <2>2. AfterKey(keys) = KeysFrom(k + 1)
    BY <1>2, <2>1, KeyRead DEF KeysFrom, ks, p, q
  <2>3. k > 1 /\ r = Again(k - 1)
    <3>1. r = IF k = 1 THEN <<>> ELSE Again(k - 1)
      BY <1>2, <1>6, RepeatedNext DEF Again, l, r, ls, n
    <3>2. QED
      BY <1>2, <1>3, <3>1
  <2>4. lastOption = r[1] /\ lastUnsigned = UnsignedOf(r)
    BY <1>2, <2>3 DEF Remembered
  <2>5. Option = r[1]
    BY <1>4, <2>1, <2>4 DEF Option
  <2>6. r[1] = "u" => TypeKnown /\ lastUnsigned = r[2] /\ r = <<"u", r[2]>>
    <3>1. SUFFICES ASSUME r[1] = "u" PROVE TypeKnown /\ lastUnsigned = r[2] /\ r = <<"u", r[2]>>
      OBVIOUS
    <3>2. r[2] \in UnsignedTypes
      BY <1>3, <1>6, <3>1
    <3>3. lastUnsigned = r[2] /\ lastUnsigned # " "
      BY <2>4, <3>1, <3>2 DEF UnsignedOf, UnsignedTypes
    <3>4. r = <<"u", r[2]>>
      BY <1>3, <3>1 DEF IsLine
    <3>5. QED
      BY <1>4, <2>1, <3>3, <3>4 DEF TypeKnown
  <2>7. r[1] # "p"
    BY <1>3, <1>6
  <2>8. r[1] # "u" => r = <<r[1]>> /\ r[1] # "q"
    BY <1>3, <2>7 DEF IsLine
  <2>9. QED
    BY <1>4, <2>1, <2>2, <2>5, <2>6, <2>7, <2>8 DEF NextLine, r, EOL
<1>7. CASE l # <<>>
  <2>1. r = l
    BY <1>5, <1>7
  <2>2. ~(Len(l) = 0) /\ (Len(l) = 1 \/ Len(l) = 2) /\ DOMAIN l = 1 .. Len(l) /\ l[1] # EOL /\ l[1] # "q"
    BY <1>3, <1>7 DEF IsLine, EOL
  <2>3. ks[p] = l[1]
    <3>1. ks[p + 1 - 1] = l[1] /\ p + 1 - 1 = p
      BY <1>2, <1>3, <2>2
    <3>2. QED
      BY <3>1
  <2>4. Option = l[1] /\ ~TypeKnown
    BY <1>4, <2>2, <2>3 DEF Option, TypeKnown
  <2>5. CASE Len(l) = 1
    <3>1. l = <<l[1]>> /\ l[1] \notin {"u", "p"}
      BY <1>3, <1>7, <2>5 DEF IsLine
    <3>2. AfterKey(keys) = KeysFrom(k + 1)
      <4>1. CASE session.piped
        <5>1. q = p + 1
          BY <1>2, <1>3, <1>7, <2>5, <4>1
        <5>2. QED
          BY <1>2, <4>1, <5>1, KeyRead DEF KeysFrom, ks, p, q
      <4>2. CASE ~session.piped
        <5>1. q = p + 2 /\ ks[p + 1] = EOL /\ p < Len(ks)
          BY <1>2, <1>3, <1>7, <2>5, <4>2
        <5>2. QED
          BY <1>2, <2>2, <2>3, <4>2, <5>1, KeyRead DEF KeysFrom, ks, p, q
      <4>3. QED
        BY <4>1, <4>2
    <3>3. QED
      BY <1>4, <2>1, <2>2, <2>3, <2>4, <3>1, <3>2 DEF NextLine, r
  <2>6. CASE Len(l) = 2
    <3>1. l = <<l[1], l[2]>> /\ l[1] \in {"u", "p"} /\ l[2] # EOL /\ (l[1] = "p" => l[2] \in DOMAIN KeyPlaces)
      <4>1. l[2] # EOL /\ (l = <<"u", l[2]>> \/ (l = <<"p", l[2]>> /\ l[2] \in DOMAIN KeyPlaces))
        BY <1>3, <1>7, <2>6 DEF IsLine
      <4>2. QED
        BY <4>1
    <3>2. ks[p + 1] = l[2]
      <4>1. ks[p + 2 - 1] = l[2] /\ p + 2 - 1 = p + 1
        BY <1>2, <1>3, <2>2, <2>6
      <4>2. QED
        BY <4>1
    <3>3. p + 1 \in 1 .. Len(ks)
      BY <1>2, <1>3, <1>7, <2>6
    <3>4. AfterKey(keys) = From(ks, p + 1)
      BY <1>2, <3>1, <3>2, <3>3, KeyRead DEF KeysFrom, ks, p
    <3>5. Head(From(ks, p + 1)) = l[2]
      BY <1>2, <3>2, <3>3, KeyRead DEF ks
    <3>6. AfterKey(From(ks, p + 1)) = KeysFrom(k + 1)
      <4>1. CASE session.piped
        <5>1. q = (p + 1) + 1
          BY <1>2, <1>3, <1>7, <2>6, <4>1
        <5>2. QED
          BY <1>2, <3>3, <4>1, <5>1, KeyRead DEF KeysFrom, ks, q
      <4>2. CASE ~session.piped
        <5>1. q = (p + 1) + 2 /\ ks[(p + 1) + 1] = EOL /\ p + 1 < Len(ks)
          <6>1. q = p + 3 /\ ks[p + 2] = EOL
            BY <1>2, <1>3, <1>7, <2>6, <4>2
          <6>2. (p + 1) + 2 = p + 3 /\ (p + 1) + 1 = p + 2
            BY <1>2
          <6>3. QED
            BY <1>2, <6>1, <6>2
        <5>2. QED
          BY <1>2, <3>1, <3>2, <3>3, <4>2, <5>1, KeyRead DEF KeysFrom, ks, q
      <4>3. QED
        BY <4>1, <4>2
    <3>7. QED
      BY <1>4, <2>1, <2>2, <2>3, <2>4, <3>1, <3>4, <3>5, <3>6 DEF NextLine, r
  <2>7. QED
    BY <2>2, <2>5, <2>6
<1>8. QED
  BY <1>6, <1>7

-----------------------------------------------------------------------------
(* The steps *)

Viewed(a, f, s) == [at |-> a, flip |-> f, shown |-> s]
Shows == Viewed(at, flip, shown)

\* The members of what a session has come to, ...
LEMMA ViewedMembers ==
  \A a, f, s : Viewed(a, f, s).at = a /\ Viewed(a, f, s).flip = f /\ Viewed(a, f, s).shown = s
BY DEF Viewed

\* ... and what lines make of it: bytes are swapped, ...
LEMMA MeansFlip ==
  ASSUME NEW a, NEW f \in BOOLEAN, NEW s
  PROVE  Means(Viewed(a, f, s), <<"b">>) = Viewed(a, ~f, s)
BY DEF Means, Viewed

\* ... a position is taken, ...
LEMMA MeansPosition ==
  ASSUME NEW a, NEW f, NEW s, NEW t, NEW b, b = IF KeyPlaces[t] <= Length THEN KeyPlaces[t] ELSE a
  PROVE  Means(Viewed(a, f, s), <<"p", t>>) = Viewed(b, f, s)
<1> DEFINE r == <<"p", t>>
<1>1. r # <<"b">> /\ r[1] = "p" /\ r[Len(r)] = t
  OBVIOUS
<1> HIDE DEF r
<1>2. Means(Viewed(a, f, s), r) = [Viewed(a, f, s) EXCEPT !.at = IF KeyPlaces[t] <= Length THEN KeyPlaces[t] ELSE Viewed(a, f, s).at]
  BY <1>1, Zenon DEF Means, Last
<1>3. Viewed(a, f, s).at = a
  BY ViewedMembers
<1>4. Means(Viewed(a, f, s), r) = [Viewed(a, f, s) EXCEPT !.at = b]
  BY <1>2, <1>3, Zenon
<1>5. [Viewed(a, f, s) EXCEPT !.at = b] = Viewed(b, f, s)
  BY DEF Viewed
<1>6. QED
  BY <1>4, <1>5, Zenon DEF r

\* ... a value is shown if it is in the file, ...
LEMMA MeansValue ==
  ASSUME NEW a, NEW f, NEW s, NEW r, NEW t, r # <<"b">>, r[1] # "p", r[Len(r)] = t,
         t \in (IF r[1] = "u" THEN UnsignedTypes ELSE DOMAIN Sizes),
         NEW v, v = [type |-> t, unsigned |-> r[1] = "u", at |-> a, flipped |-> f /\ Sizes[t] > 1]
  PROVE  Means(Viewed(a, f, s), r) = IF a + Sizes[t] > Length THEN Viewed(Length, f, s)
                                    ELSE Viewed(a + Sizes[t], f, Append(s, v))
<1>1. Viewed(a, f, s).at = a /\ Viewed(a, f, s).flip = f /\ Viewed(a, f, s).shown = s
  BY ViewedMembers
<1> DEFINE k == Viewed(a, f, s)
<1>2. Means(k, r) = IF k.at + Sizes[t] > Length THEN [k EXCEPT !.at = Length]
                    ELSE [at |-> k.at + Sizes[t],
                          shown |-> Append(k.shown, [type |-> t, unsigned |-> r[1] = "u", at |-> k.at,
                                                     flipped |-> k.flip /\ Sizes[t] > 1]),
                          flip |-> k.flip]
  <2> HIDE DEF k
  <2>1. QED
    BY Zenon DEF Means, Last
<1>3. k.at = a /\ k.shown = s /\ k.flip = f
  BY <1>1
<1> HIDE DEF k
<1>4. Means(k, r) = IF a + Sizes[t] > Length THEN [k EXCEPT !.at = Length]
                    ELSE [at |-> a + Sizes[t], shown |-> Append(s, v), flip |-> f]
  BY <1>2, <1>3, Zenon
<1> DEFINE n == Length m == a + Sizes[t] q == Append(s, v)
<1>5. [Viewed(a, f, s) EXCEPT !.at = n] = Viewed(n, f, s)
  <2> HIDE DEF n, m, q
  <2>1. QED
    BY DEF Viewed
<1>6. [at |-> m, shown |-> q, flip |-> f] = Viewed(m, f, q)
  <2> HIDE DEF n, m, q
  <2>1. QED
    BY DEF Viewed
<1>7. QED
  BY <1>4, <1>5, <1>6, Zenon DEF k

\* ... and nothing else changes it.
LEMMA MeansNothing ==
  ASSUME NEW k, NEW r, NEW t, r # <<"b">>, r[1] # "p", r[Len(r)] = t,
         t \notin (IF r[1] = "u" THEN UnsignedTypes ELSE DOMAIN Sizes)
  PROVE  Means(k, r) = k
BY Zenon DEF Means, Last

\* A step does what a line means
Does(r, next) ==
    /\ session' = session /\ keys' = next
    /\ Shows' = Means(Shows, r)
    /\ lastOption' = r[1] /\ lastUnsigned' = UnsignedOf(r)
    /\ at' \in Nat /\ flip' \in BOOLEAN
Typed == at \in Nat /\ flip \in BOOLEAN

\* A value is shown, in the type of the line, if the file has it.
LEMMA ReadMeans ==
  ASSUME Typed, NEW t \in DOMAIN Sizes, NEW r,
         \/ r = <<t>>
         \/ r = <<"u", t>> /\ t \in UnsignedTypes,
         Read(t, r[1] = "u"), flip' = flip
  PROVE  Shows' = Means(Shows, r) /\ at' \in Nat /\ flip' \in BOOLEAN
<1> DEFINE u == r[1] = "u"
           value == [type |-> t, unsigned |-> u, at |-> at, flipped |-> flip /\ Sizes[t] > 1]
<1>1. Sizes[t] \in Nat /\ t \in {"t", "c", "s", "i", "l", "f", "d"} /\ Length \in Nat /\ at \in Nat
  BY ViewerAssumption DEF Sizes, Typed
<1>2. /\ r[1] # "p" /\ r # <<"b">> /\ r[Len(r)] = t
      /\ t \in (IF u THEN UnsignedTypes ELSE DOMAIN Sizes)
  <2>1. r[1] # "p" /\ r # <<"b">> /\ r[Len(r)] = t
    <3>1. CASE r = <<t>>
      BY <1>1, <3>1
    <3>2. CASE r = <<"u", t>>
      BY <3>2
    <3>3. QED
      BY <3>1, <3>2
  <2>2. CASE u
    <3>1. r = <<"u", t>> /\ t \in UnsignedTypes
      BY <1>1, <2>2
    <3>2. QED
      BY <2>1, <2>2, <3>1
  <2>3. QED
    BY <2>1, <2>2
<1>3. Means(Shows, r) = IF at + Sizes[t] > Length THEN Viewed(Length, flip, shown)
                        ELSE Viewed(at + Sizes[t], flip, Append(shown, value))
  <2>1. t \in (IF r[1] = "u" THEN UnsignedTypes ELSE DOMAIN Sizes)
    BY <1>2
  <2>2. value = [type |-> t, unsigned |-> r[1] = "u", at |-> at, flipped |-> flip /\ Sizes[t] > 1]
    OBVIOUS
  <2> HIDE DEF value, u
  <2>3. Means(Viewed(at, flip, shown), r) = IF at + Sizes[t] > Length THEN Viewed(Length, flip, shown)
                                           ELSE Viewed(at + Sizes[t], flip, Append(shown, value))
    BY <1>2, <2>1, <2>2, MeansValue
  <2>4. QED
    BY <2>3, Zenon DEF Shows
<1>4. CASE Length - at >= Sizes[t]
  <2>1. shown' = Append(shown, value) /\ at' = at + Sizes[t]
    BY <1>4, Zenon DEF Read
  <2>2. ~(at + Sizes[t] > Length)
    BY <1>1, <1>4
  <2> HIDE DEF value
  <2>3. Shows' = Viewed(at + Sizes[t], flip, Append(shown, value))
    BY <2>1 DEF Shows
  <2>4. QED
    BY <1>1, <1>3, <2>1, <2>2, <2>3 DEF Typed
<1>5. CASE ~(Length - at >= Sizes[t])
  <2>1. shown' = shown /\ at' = Length
    BY <1>5, Zenon DEF Read
  <2>2. at + Sizes[t] > Length
    BY <1>1, <1>5
  <2>3. Shows' = Viewed(Length, flip, shown)
    BY <2>1 DEF Shows
  <2> HIDE DEF value
  <2>4. QED
    BY <1>1, <1>3, <2>1, <2>2, <2>3 DEF Typed
<1>6. QED
  BY <1>4, <1>5

\* A value of a signed type, or a real one, or a character.
LEMMA ShowSignedMeans ==
  ASSUME Typed, NEW k, NextLine(k), Option \in DOMAIN Sizes, ShowSigned
  PROVE  Does(Again(k), KeysFrom(k + 1))
<1> DEFINE r == Again(k)
<1>1. Option = r[1] /\ Option \notin {"u", "p"}
  BY DEF NextLine, Sizes
<1>2. r = <<Option>> /\ AfterKey(keys) = KeysFrom(k + 1)
  BY <1>1 DEF NextLine
<1>3. UnsignedOf(r) = " " /\ (r[1] = "u") = FALSE
  BY <1>1 DEF UnsignedOf
<1>4. /\ Read(Option, FALSE) /\ flip' = flip
      /\ keys' = AfterKey(keys) /\ lastOption' = Option /\ session' = session /\ lastUnsigned' = " "
  BY DEF ShowSigned, Remember
<1> HIDE DEF r
<1>5. Shows' = Means(Shows, r) /\ at' \in Nat /\ flip' \in BOOLEAN
  <2>1. Read(Option, r[1] = "u")
    BY <1>3, <1>4
  <2> DEFINE t == Option
  <2>2. t \in DOMAIN Sizes /\ r = <<t>> /\ Read(t, r[1] = "u")
    BY <1>2, <2>1
  <2> HIDE DEF t
  <2>3. QED
    BY <1>4, <2>2, ReadMeans
<1>6. QED
  BY <1>1, <1>2, <1>3, <1>4, <1>5 DEF Does, r

\* A value of an unsigned type, typed or remembered; another type shows nothing.
LEMMA ShowUnsignedMeans ==
  ASSUME Typed, NEW k, NextLine(k), ShowUnsigned
  PROVE  Does(Again(k), KeysFrom(k + 1))
<1> DEFINE r == Again(k)
           t == IF TypeKnown THEN lastUnsigned ELSE Head(AfterKey(keys))
<1>1. Option = "u" /\ r[1] = "u" /\ r = <<"u", t>>
  BY DEF ShowUnsigned, NextLine
<1>2. keys' = KeysFrom(k + 1)
  BY <1>1 DEF ShowUnsigned, NextLine
<1>3. /\ IF t \in UnsignedTypes THEN Read(t, TRUE) /\ lastUnsigned' = t
         ELSE lastUnsigned' = " " /\ UNCHANGED <<at, shown>>
      /\ lastOption' = Option /\ session' = session /\ flip' = flip
  BY DEF ShowUnsigned, Remember
<1>4. r[2] = t /\ (r[1] = "u") = TRUE
  BY <1>1
<1> HIDE DEF r, t
<1>5. CASE t \in UnsignedTypes
  <2>1. t \in DOMAIN Sizes /\ Read(t, r[1] = "u")
    BY <1>3, <1>4, <1>5 DEF UnsignedTypes, Sizes
  <2>2. Shows' = Means(Shows, r) /\ at' \in Nat /\ flip' \in BOOLEAN
    BY <1>1, <1>3, <1>5, <2>1, ReadMeans
  <2>3. QED
    BY <1>1, <1>2, <1>3, <1>4, <1>5, <2>2 DEF Does, UnsignedOf, r
<1>6. CASE t \notin UnsignedTypes
  <2>1. Means(Shows, r) = Shows
    <3>1. r # <<"b">> /\ r[1] # "p" /\ r[Len(r)] = t /\ r[1] = "u"
      BY <1>1
    <3>2. t \notin (IF r[1] = "u" THEN UnsignedTypes ELSE DOMAIN Sizes)
      BY <1>6, <3>1
    <3>3. QED
      BY <3>1, <3>2, MeansNothing
  <2>2. Shows' = Shows
    BY <1>3, <1>6 DEF Shows
  <2>3. QED
    BY <1>1, <1>2, <1>3, <1>4, <1>6, <2>1, <2>2 DEF Does, UnsignedOf, Typed, r
<1>7. QED
  BY <1>5, <1>6

\* The bytes of the values to come are swapped, or no longer.
LEMMA FlipMeans ==
  ASSUME Typed, NEW k, NextLine(k), Flip
  PROVE  Does(Again(k), KeysFrom(k + 1))
<1> DEFINE r == Again(k)
<1>1. Option = "b" /\ r = <<"b">> /\ keys' = KeysFrom(k + 1)
  BY DEF Flip, NextLine
<1>2. flip' = ~flip /\ at' = at /\ shown' = shown /\ lastOption' = Option /\ session' = session /\ lastUnsigned' = " "
  BY DEF Flip, Remember
<1>3. Means(Shows, r) = Viewed(at, ~flip, shown)
  BY <1>1, MeansFlip DEF Typed, Shows
<1>4. Shows' = Viewed(at, ~flip, shown)
  BY <1>2, Zenon DEF Shows
<1>6. Shows' = Means(Shows, r)
  BY <1>3, <1>4, Zenon
<1>7. UnsignedOf(r) = " " /\ r[1] = "b"
  BY <1>1 DEF UnsignedOf
<1> HIDE DEF r
<1>8. flip' \in BOOLEAN /\ at' \in Nat
  BY <1>2 DEF Typed
<1>9. QED
  BY <1>1, <1>2, <1>6, <1>7, <1>8 DEF Does, r

\* A position that the file has is taken.
LEMMA SetPositionMeans ==
  ASSUME Typed, NEW k, NextLine(k), SetPosition
  PROVE  Does(Again(k), KeysFrom(k + 1))
<1> DEFINE r == Again(k)
           t == Head(AfterKey(keys))
<1>1. Option = "p" /\ r[1] = "p" /\ r = <<"p", t>> /\ t \in DOMAIN KeyPlaces
  <2>1. Option = "p"
    BY DEF SetPosition
  <2>2. r[1] = "p"
    BY <2>1 DEF NextLine
  <2>3. r = <<r[1], t>> /\ r[2] \in DOMAIN KeyPlaces
    BY <2>2 DEF NextLine
  <2>4. QED
    BY <2>1, <2>2, <2>3
<1>2. keys' = KeysFrom(k + 1)
  BY <1>1 DEF SetPosition, NextLine
<1>3. /\ at' = IF KeyPlaces[t] > Length THEN at ELSE KeyPlaces[t]
      /\ flip' = flip /\ shown' = shown /\ lastOption' = Option /\ session' = session /\ lastUnsigned' = " "
  BY DEF SetPosition, Remember
<1>4. UnsignedOf(r) = " "
  BY <1>1 DEF UnsignedOf
<1> HIDE DEF r, t
<1>6. KeyPlaces[t] \in Nat /\ Length \in Nat
  BY <1>1, ViewerAssumption
<1>7. at' = IF KeyPlaces[t] <= Length THEN KeyPlaces[t] ELSE at
  <2> DEFINE x == KeyPlaces[t]
  <2>1. (x > Length) <=> ~(x <= Length)
    BY <1>6
  <2>2. at' = IF x > Length THEN at ELSE x
    BY <1>3
  <2> HIDE DEF x
  <2>3. at' = IF x <= Length THEN x ELSE at
    BY <2>1, <2>2, Zenon
  <2>4. QED
    BY <2>3, Zenon DEF x
<1>8. Shows' = Viewed(at', flip, shown)
  BY <1>3 DEF Shows
<1>9. Shows' = Means(Shows, r)
  <2> DEFINE b == at'
  <2>1. b = IF KeyPlaces[t] <= Length THEN KeyPlaces[t] ELSE at
    BY <1>7
  <2> HIDE DEF b
  <2>2. Means(Viewed(at, flip, shown), <<"p", t>>) = Viewed(b, flip, shown)
    BY <2>1, MeansPosition
  <2>3. QED
    BY <1>1, <1>8, <2>2, Zenon DEF Shows, b
<1>10. at' \in Nat /\ flip' \in BOOLEAN
  BY <1>3, <1>6 DEF Typed
<1>11. QED
  BY <1>1, <1>2, <1>3, <1>4, <1>9, <1>10 DEF Does, r

\* All other options show no value.
LEMMA OnlyTellMeans ==
  ASSUME Typed, NEW k, NextLine(k), OnlyTell
  PROVE  Does(Again(k), KeysFrom(k + 1))
<1> DEFINE r == Again(k)
<1>1. Option \notin DOMAIN Sizes \cup {"u", "b", "p"} /\ r = <<Option>> /\ keys' = KeysFrom(k + 1)
  BY DEF OnlyTell, NextLine
<1>2. flip' = flip /\ at' = at /\ shown' = shown /\ lastOption' = Option /\ session' = session /\ lastUnsigned' = " "
  BY DEF OnlyTell, Remember
<1>3. r[1] = Option /\ r[Len(r)] = Option /\ r # <<"b">> /\ r[1] # "p" /\ r[1] # "u"
  BY <1>1
<1> HIDE DEF r
<1>4. Means(Shows, r) = Shows
  <2> DEFINE t == Option
  <2>1. t \notin (IF r[1] = "u" THEN UnsignedTypes ELSE DOMAIN Sizes) /\ r[Len(r)] = t
    BY <1>1, <1>3
  <2> HIDE DEF t
  <2>2. QED
    BY <1>3, <2>1, MeansNothing
<1>5. Shows' = Shows
  BY <1>2 DEF Shows
<1>6. QED
  BY <1>1, <1>2, <1>3, <1>4, <1>5 DEF Does, UnsignedOf, Typed, r

-----------------------------------------------------------------------------
(* The invariant *)

Behind(k) == keys = KeysFrom(k + 1) /\ Shows = After(session.lines)[k] /\ Remembered(k)
ViewerInv ==
    /\ session \in Sessions /\ Typed
    /\ \E k \in 0 .. Len(session.lines) : Behind(k)

\* There are so many lines, and after the last of them the session ends.
LEMMA SessionIs ==
  ASSUME session \in Sessions
  PROVE  /\ Len(session.lines) \in Nat /\ DOMAIN session.lines = 1 .. Len(session.lines)
         /\ session.starts[1] = 1
         /\ From(session.keys, 1) = session.keys
         /\ KeysFrom(Len(session.lines) + 1) # <<>> /\ Head(KeysFrom(Len(session.lines) + 1)) = "q"
<1> DEFINE ks == session.keys
<1>1. IsSession(session)
  BY ViewerAssumption
<1>2. /\ Len(session.lines) \in Nat /\ DOMAIN session.lines = 1 .. Len(session.lines)
      /\ session.starts[1] = 1 /\ ks \in Seq(ToSet(ks))
      /\ session.starts[Len(session.lines) + 1] = Len(ks) /\ ks[Len(ks)] = "q"
      /\ session.starts \in [1 .. Len(session.lines) + 1 -> 1 .. Len(ks)]
  BY <1>1 DEF IsSession, Last
<1>3. Len(ks) \in 1 .. Len(ks)
  BY <1>2
<1>4. From(ks, 1) = ks
  <2> HIDE DEF ks
  <2>1. QED
    BY <1>2 DEF From
<1>5. From(ks, Len(ks)) # <<>> /\ Head(From(ks, Len(ks))) = "q"
  <2> HIDE DEF ks
  <2>1. QED
    BY <1>2, <1>3, FromIs
<1>6. QED
  BY <1>2, <1>4, <1>5 DEF KeysFrom

\* It holds when a session begins.
LEMMA ViewerBegins ==
  ASSUME ViewerInit
  PROVE  ViewerInv
<1>1. /\ session \in Sessions /\ keys = session.keys /\ at = 0 /\ flip = FALSE /\ shown = <<>>
  BY DEF ViewerInit
<1>2. Len(session.lines) \in Nat /\ keys = KeysFrom(0 + 1)
  BY <1>1, SessionIs DEF KeysFrom
<1>3. Shows = After(session.lines)[0]
  <2>1. After(session.lines)[0] = Begin
    BY <1>2, AfterIs
  <2>2. QED
    BY <1>1, <2>1 DEF Shows, Begin, Viewed
<1>4. Behind(0) /\ 0 \in 0 .. Len(session.lines)
  BY <1>2, <1>3 DEF Behind, Remembered
<1>5. QED
  BY <1>1, <1>4 DEF ViewerInv, Typed

\* Every step reads the next line, if there is one.
LEMMA ViewerGoesOn ==
  ASSUME ViewerInv, ViewerNext
  PROVE  ViewerInv'
<1>1. PICK k \in 0 .. Len(session.lines) : Behind(k)
  BY DEF ViewerInv
<1>2. session \in Sessions /\ Typed
  BY DEF ViewerInv
<1>3. Turn
  BY DEF ViewerNext, ShowInteger, ShowReal, ShowUnsigned, Flip, SetPosition, OnlyTell
<1>4. Len(session.lines) \in Nat /\ DOMAIN session.lines = 1 .. Len(session.lines) /\ k \in Nat
  BY <1>2, SessionIs
<1>5. k + 1 \in DOMAIN session.lines
  <2>1. SUFFICES ASSUME k = Len(session.lines) PROVE FALSE
    BY <1>4
  <2>2. Head(keys) = "q"
    BY <1>1, <1>2, <2>1, SessionIs DEF Behind
  <2>3. QED
    BY <1>3, <2>2 DEF Turn
<1> DEFINE m == k + 1
<1>6. m \in DOMAIN session.lines /\ m - 1 = k /\ keys = KeysFrom(m) /\ Remembered(m - 1)
  BY <1>1, <1>4, <1>5 DEF Behind
<1> HIDE DEF m
<1>7. NextLine(m)
  BY <1>2, <1>6, LineKeys
<1>8. Does(Again(m), KeysFrom(m + 1))
  <2>1. CASE ShowInteger
    BY <1>2, <1>7, <2>1, ShowSignedMeans DEF ShowInteger, UnsignedTypes, Sizes
  <2>2. CASE ShowReal
    BY <1>2, <1>7, <2>2, ShowSignedMeans DEF ShowReal, Sizes
  <2>3. CASE ShowUnsigned
    BY <1>2, <1>7, <2>3, ShowUnsignedMeans
  <2>4. CASE Flip
    BY <1>2, <1>7, <2>4, FlipMeans
  <2>5. CASE SetPosition
    BY <1>2, <1>7, <2>5, SetPositionMeans
  <2>6. CASE OnlyTell
    BY <1>2, <1>7, <2>6, OnlyTellMeans
  <2>7. QED
    BY <2>1, <2>2, <2>3, <2>4, <2>5, <2>6 DEF ViewerNext
<1>9. Shows' = After(session.lines)[m]
  <2>1. After(session.lines)[m] = Means(After(session.lines)[m - 1], Repeated(session.lines)[m])
    BY <1>4, <1>6, AfterIs
  <2>2. Shows = After(session.lines)[m - 1]
    BY <1>1, <1>6 DEF Behind
  <2>3. Shows' = Means(Shows, Again(m))
    BY <1>8 DEF Does
  <2>4. QED
    BY <2>1, <2>2, <2>3 DEF Again
<1>10. session' = session /\ keys' = KeysFrom(m + 1) /\ Typed'
       /\ lastOption' = Again(m)[1] /\ lastUnsigned' = UnsignedOf(Again(m))
  BY <1>8 DEF Does, Typed
<1>11. Behind(m)'
  BY <1>9, <1>10 DEF Behind, KeysFrom, Again, Remembered
<1>12. m \in 0 .. Len(session'.lines)
  BY <1>4, <1>6, <1>10
<1>13. QED
  BY <1>2, <1>10, <1>11, <1>12 DEF ViewerInv

\* At every moment a session has done what its first lines mean.
THEOREM ViewerInvariant == ViewerSpec => []ViewerInv
<1>1. ViewerInit => ViewerInv
  BY ViewerBegins
<1>2. ViewerInv /\ [ViewerNext]_viewerVars => ViewerInv'
  <2>1. SUFFICES ASSUME ViewerInv, [ViewerNext]_viewerVars PROVE ViewerInv'
    OBVIOUS
  <2>2. CASE ViewerNext
    BY <2>1, <2>2, ViewerGoesOn
  <2>3. CASE UNCHANGED viewerVars
    BY <2>1, <2>3 DEF viewerVars, ViewerInv, Behind, Typed, Shows, KeysFrom, Again, Remembered
  <2>4. QED
    BY <2>1, <2>2, <2>3
<1>3. QED
  BY <1>1, <1>2, PTL DEF ViewerSpec

\* For any session and any file: at its end all values that its lines ask for have been shown, and
\* no others (main, get_option).
THEOREM ValuesAreShown == ViewerSpec => []ValuesShown
<1>1. ViewerInv => ValuesShown
  <2>1. SUFFICES ASSUME ViewerInv, Head(keys) = "q"
                 PROVE  shown = After(session.lines)[Len(session.lines)].shown
    BY DEF ValuesShown
  <2>2. PICK k \in 0 .. Len(session.lines) : Behind(k)
    BY <2>1 DEF ViewerInv
  <2>3. session \in Sessions
    BY <2>1 DEF ViewerInv
  <2>4. Len(session.lines) \in Nat /\ DOMAIN session.lines = 1 .. Len(session.lines) /\ k \in Nat
    BY <2>3, SessionIs
  <2>5. k = Len(session.lines)
    <3>1. SUFFICES ASSUME k + 1 \in DOMAIN session.lines PROVE FALSE
      BY <2>4
    <3> DEFINE m == k + 1
    <3>2. m \in DOMAIN session.lines /\ keys = KeysFrom(m) /\ Remembered(m - 1)
      BY <2>2, <2>4, <3>1 DEF Behind
    <3> HIDE DEF m
    <3>3. QED
      BY <2>1, <2>3, <3>2, LineKeys
  <2>6. Shows = After(session.lines)[Len(session.lines)]
    BY <2>2, <2>5 DEF Behind
  <2>7. Shows.shown = shown
    BY ViewedMembers DEF Shows
  <2>8. QED
    BY <2>6, <2>7
<1>2. QED
  BY <1>1, ViewerInvariant, PTL

-----------------------------------------------------------------------------
(* The programs take the command line that they are given: the options *)

\* No option sets a member twice, and only -ol sets the log, a file that it makes anew
OptionRight(o) ==
    /\ o.more \in {<<>>, <<"SDE_grid_size2", "SDE_grid_size3">>}
    /\ o.members \cup o.marks \subseteq Members
    /\ \A j \in DOMAIN o.more : o.more[j] \in Members \ (o.members \cup o.marks \cup {"log_file"})
    /\ "log_file" \notin o.marks
    /\ "log_file" \in o.members => o.test = "new"

LEMMA OptionsAre ==
    ASSUME NEW o \in OptionNames
    PROVE  OptionRight(Options[o])
<1> DEFINE p == Options[o]
<1>1. p.members \cup p.marks \subseteq Members /\ ToSet(p.more) \subseteq Members
  BY DEF Members
<1>2. /\ p.more \in {<<>>, <<"SDE_grid_size2", "SDE_grid_size3">>}
      /\ p.more # <<>> => p.members \cup p.marks = {"SDE_grid_size"}
      /\ "log_file" \notin p.marks
      /\ "log_file" \in p.members => p.test = "new"
  <2>1. CASE o \in {"-b", "-c", "-d", "-ep", "-el", "-f", "-ft"}
    BY <2>1 DEF Options, OptionNames, OptionB, OptionC, OptionD, OptionE, OptionF, Takes, Switch
  <2>2. CASE o \in {"-g", "-if", "-ift", "-m", "-mm"}
    BY <2>2 DEF Options, OptionNames, OptionG, OptionI, OptionM, Takes, Switch
  <2>3. CASE o \in {"-o", "-od", "-of", "-oft", "-ol"}
    BY <2>3 DEF Options, OptionNames, OptionO, Takes, Switch
  <2>4. CASE o \in {"-p", "-s", "-t", "-q", "-v"}
    BY <2>4 DEF Options, OptionNames, OptionP, OptionS, OptionT, OptionQ, OptionV, Takes, Switch
  <2>5. QED
    BY <2>1, <2>2, <2>3, <2>4 DEF OptionNames
<1>3. \A j \in DOMAIN p.more : p.more[j] \in {"SDE_grid_size2", "SDE_grid_size3"} /\ p.more[j] \in ToSet(p.more)
  BY <1>2 DEF ToSet
<1> HIDE DEF p
<1>4. QED
  BY <1>1, <1>2, <1>3 DEF OptionRight, p

-----------------------------------------------------------------------------
(* While they read the command line, the arguments are what the settings so    *)
(* far say, and the log's file is new; then the log and the messages are kept  *)

Said == ToSet(Words) \cup {"no data", "command line", "unused option", "data"}
CommandTypes ==
    /\ command \in Commands /\ place \in Nat \ {0}
    /\ args = [m \in Members |-> args[m]]
    /\ told \in Seq(Said)
    /\ files \in [Creatable -> Seq(Said \cup {"old", "log"})]
    /\ text \in {<<>>, <<"log">>}
    /\ pc \in {"parse", "check", "work", "log", "failed", "last", "end"}

\* What the first k settings say of a member
MeantBy(ss, m, k) ==
    LET ks == {j \in 1 .. k : m \in DOMAIN ss[j].sets} IN
    IF ks = {} THEN Nil ELSE ss[Max(ks)].sets[m]
Arguments == Members \ {"is_stdin_redirected"}
GoodBy(k) == \A j \in 1 .. k : Settings[j].good
Taken(k) ==
    /\ told = <<>> <=> GoodBy(k)
    /\ told = <<>> => \A m \in Arguments : args[m] = MeantBy(Settings, m, k)
\* The first k settings have been read; a value that is missing may be looked for behind the last word
Past(k) == place = command.starts[k + 1] \/ (k = Len(Settings) /\ place > Len(Words))
Parsing == FrontComplete => \E k \in 0 .. Len(Settings) : Past(k) /\ Taken(k)

Log == args["log_file"]
NewLog == IsSet("log_file") /\ told = <<>> => Log \in Creatable /\ files[Log] = <<>>
\* The log is still to be written, or it is what the file has
LogKept(f) == text # <<>> => IsSet("log_file") /\ Log \in Creatable /\ files[Log] = f
LogThere == text # <<>> => "log" \in ToSet(files[Log]) /\ "old" \notin ToSet(files[Log])
IsPart(s, t) == \E k \in 0 .. Len(t) - Len(s) : s = SubSeq(t, k + 1, k + Len(s))
ToldKept ==
    \/ screen = told
    \/ args["error_log"] \in Creatable /\ IsPart(told, files[args["error_log"]])
    \/ IsSet("log_file") /\ args["error_log"] \notin Creatable
Outputs ==
    /\ pc \in {"parse", "check", "work"} => text = <<>> /\ NewLog
    /\ pc \in {"check", "work"} => told = <<>>
    /\ pc = "log" => told \in {<<>>, <<"data">>} /\ command.program # "chkform" /\ LogKept(<<>>)
    /\ pc = "failed" => LogKept(IF command.program = "chkform" THEN <<>> ELSE <<"log">>)
    /\ pc \notin {"last", "end"} => screen = <<>>
    /\ pc = "last" => (text # <<>> => IsSet("log_file") /\ Log \in Creatable /\ "old" \notin ToSet(files[Log]))
    /\ pc = "end" => LogThere
    /\ pc \in {"last", "end"} => ToldKept
CommandInv ==
    /\ CommandTypes
    /\ pc = "parse" => Parsing
    /\ OptionsRight
    /\ Outputs

-----------------------------------------------------------------------------
(* Command lines and what they are made of *)

LEMMA CommandIs ==
    ASSUME NEW c \in Commands
    PROVE  /\ c.words \in Seq(ToSet(c.words)) /\ Len(c.words) \in Nat /\ DOMAIN c.words = 1 .. Len(c.words)
           /\ "old" \notin ToSet(c.words)
           /\ Len(c.settings) \in Nat /\ DOMAIN c.settings = 1 .. Len(c.settings)
           /\ \A k \in 1 .. Len(c.settings) + 1 : c.starts[k] \in 1 .. Len(c.words) + 1
           /\ c.starts[1] = 1 /\ c.starts[Len(c.settings) + 1] = Len(c.words) + 1
<1> DEFINE s == c.settings
           w == c.words
<1>1. IsCommand(c)
  BY CommandsAssumption
<1>2. w \in Seq(ToSet(w)) /\ s \in Seq(ToSet(s)) /\ "old" \notin ToSet(w)
  BY <1>1 DEF IsCommand
<1>3. c.starts \in [1 .. Len(s) + 1 -> 1 .. Len(w) + 1] /\ c.starts[1] = 1 /\ c.starts[Len(s) + 1] = Len(w) + 1
  BY <1>1 DEF IsCommand
<1> HIDE DEF s, w
<1>4. Len(w) \in Nat /\ DOMAIN w = 1 .. Len(w) /\ Len(s) \in Nat /\ DOMAIN s = 1 .. Len(s)
  BY <1>2
<1>5. \A k \in 1 .. Len(s) + 1 : c.starts[k] \in 1 .. Len(w) + 1
  BY <1>3
<1>6. QED
  BY <1>2, <1>3, <1>4, <1>5 DEF s, w

\* One setting and its place among the words
LEMMA SettingIs ==
    ASSUME NEW c \in Commands, NEW k \in DOMAIN c.settings, NEW w, w = c.settings[k].words
    PROVE  /\ IsSetting(c, k) /\ Len(w) \in Nat /\ DOMAIN w = 1 .. Len(w)
           /\ {c.settings[k].complete, c.settings[k].good} \subseteq BOOLEAN
           /\ c.starts[k + 1] = c.starts[k] + Len(w)
           /\ \A j \in 1 .. Len(w) : c.words[c.starts[k] + j - 1] = w[j]
<1>1. IsCommand(c)
  BY CommandsAssumption
<1>2. /\ IsSetting(c, k) /\ w \in Seq(ToSet(w)) /\ c.starts[k + 1] = c.starts[k] + Len(w)
      /\ {c.settings[k].complete, c.settings[k].good} \subseteq BOOLEAN
      /\ \A j \in DOMAIN w : c.words[c.starts[k] + j - 1] = w[j]
  BY <1>1 DEF IsCommand
<1>3. Len(w) \in Nat /\ DOMAIN w = 1 .. Len(w)
  BY <1>2
<1>4. QED
  BY <1>2, <1>3

\* An option with its values
HasValues(c, k, s, w, o) ==
    /\ s.complete /\ Len(w) \in 2 .. Len(o.more) + 2
    /\ o.test = "positive" => w[2] \notin Dashed
    /\ s.good = \A j \in 2 .. Len(w) : ~Refused(o.test, w[j])
    /\ \A j \in 3 .. Len(w) : w[j] \notin Dashed
    /\ k < Len(c.settings) /\ Len(w) < Len(o.more) + 2 => c.settings[k + 1].words[1] \in Dashed
    /\ s.good => s.sets = Sets(o, w)

Kinds(c, k, s, w, o) ==
    /\ w[1] \notin Dashed =>
         /\ Len(w) = 1 /\ s.complete
         /\ \/ k = 1 /\ s.good = (w[1] \in Existing) /\ s.sets = [m \in {"input_file"} |-> w[1]]
            \/ k > 1 /\ ~s.good
    /\ w[1] \in Dashed \ OptionNames => Len(w) = 1 /\ ~s.good
    /\ w[1] \in Dashed \cap OptionNames /\ o.test = "none" =>
         Len(w) = 1 /\ s.good /\ s.sets = [m \in o.marks |-> "set"]
    /\ w[1] \in Dashed \cap OptionNames /\ o.test # "none" =>
         \/ Len(w) = 2 /\ ~s.good /\ o.test = "positive" /\ w[2] \in Dashed
         \/ Len(w) = 1 /\ ~s.complete /\ ~s.good
         \/ HasValues(c, k, s, w, o)

LEMMA SettingKinds ==
    ASSUME NEW c, NEW k, IsSetting(c, k), NEW s, s = c.settings[k], NEW w, w = s.words, NEW o, o = Options[w[1]]
    PROVE  Kinds(c, k, s, w, o)
BY DEF IsSetting, HasValues, Kinds

LEMMA SettingSize ==
    ASSUME NEW c, NEW k, NEW s, NEW w, Len(w) \in Nat, Kinds(c, k, s, w, Options[w[1]])
    PROVE  Len(w) >= 1
<1>1. w[1] \in OptionNames => Len(Options[w[1]].more) \in Nat
  BY OptionsAre DEF OptionRight
<1>2. HasValues(c, k, s, w, Options[w[1]]) => Len(w) \in 2 .. Len(Options[w[1]].more) + 2
  BY DEF HasValues
<1>3. CASE w[1] \notin OptionNames
  BY <1>3 DEF Kinds
<1>4. CASE w[1] \in OptionNames
  <2>1. HasValues(c, k, s, w, Options[w[1]]) => Len(w) >= 2
    BY <1>1, <1>2, <1>4
  <2>2. QED
    BY <1>4, <2>1 DEF Kinds
<1>5. QED
  BY <1>3, <1>4

LEMMA SettingBad ==
    ASSUME NEW c, NEW k, IsSetting(c, k), ~c.settings[k].complete
    PROVE  ~c.settings[k].good
BY DEF IsSetting

-----------------------------------------------------------------------------
(* One setting more *)

LEMMA MeantNext ==
    ASSUME NEW ss, NEW m, NEW k \in Nat \ {0}
    PROVE  MeantBy(ss, m, k) = IF m \in DOMAIN ss[k].sets THEN ss[k].sets[m] ELSE MeantBy(ss, m, k - 1)
<1> DEFINE Ks(n) == {j \in 1 .. n : m \in DOMAIN ss[j].sets}
<1>1. CASE m \in DOMAIN ss[k].sets
  <2>1. k \in Ks(k) /\ \A j \in Ks(k) : k >= j /\ j \in Nat
    BY <1>1
  <2> HIDE DEF Ks
  <2>2. \A x \in Ks(k) : (\A y \in Ks(k) : x >= y) => x = k
    BY <2>1
  <2>3. Max(Ks(k)) = k
    BY <2>1, <2>2 DEF Max
  <2>4. MeantBy(ss, m, k) = IF Ks(k) = {} THEN Nil ELSE ss[Max(Ks(k))].sets[m]
    BY DEF MeantBy, Ks
  <2>5. QED
    BY <1>1, <2>1, <2>3, <2>4
<1>2. CASE m \notin DOMAIN ss[k].sets
  <2>1. Ks(k) = Ks(k - 1)
    BY <1>2
  <2>2. \A n : MeantBy(ss, m, n) = IF Ks(n) = {} THEN Nil ELSE ss[Max(Ks(n))].sets[m]
    BY DEF MeantBy
  <2> HIDE DEF Ks
  <2>3. QED
    BY <1>2, <2>1, <2>2
<1>3. QED
  BY <1>1, <1>2

LEMMA MeantFirst == \A ss, m : MeantBy(ss, m, 0) = Nil
BY DEF MeantBy

\* What reading the kth setting does
Effect(k) ==
    /\ Past(k)'
    /\ told' = <<>> <=> told = <<>> /\ Settings[k].good
    /\ told' = <<>> => \A m \in Arguments : args'[m] = IF m \in DOMAIN Settings[k].sets THEN Settings[k].sets[m] ELSE args[m]

LEMMA SettingTaken ==
    ASSUME NEW k \in Nat \ {0}, command' = command, Taken(k - 1), Effect(k)
    PROVE  Taken(k)'
<1>1. Settings' = Settings
  BY DEF Settings
<1>2. GoodBy(k)' <=> GoodBy(k - 1) /\ Settings[k].good
  BY <1>1 DEF GoodBy
<1>3. told' = <<>> <=> GoodBy(k)'
  BY <1>2 DEF Effect, Taken
<1>4. ASSUME told' = <<>>, NEW m \in Arguments PROVE args'[m] = MeantBy(Settings', m, k)
  <2>1. args'[m] = IF m \in DOMAIN Settings[k].sets THEN Settings[k].sets[m] ELSE args[m]
    BY <1>4 DEF Effect
  <2>2. told = <<>>
    BY <1>4 DEF Effect
  <2>3. args[m] = MeantBy(Settings, m, k - 1)
    BY <2>2 DEF Taken
  <2>4. QED
    BY <1>1, <2>1, <2>3, MeantNext
<1>5. QED
  BY <1>3, <1>4 DEF Taken

\* The option at hand is one that -g's further values follow, or none; which is what CHOOSE finds
More == Len(TheOption.more)
Follow(k) == (\A j \in 1 .. k : IsPlain(place + 1 + j)) /\ (k < More => ~IsPlain(place + 2 + k))
LEMMA FurtherIs ==
    ASSUME place \in Nat, OptionRight(TheOption)
    PROVE  /\ More \in {0, 2} /\ Further \in 0 .. More /\ Follow(Further)
           /\ \A k \in 0 .. More : Follow(k) => k = Further
<1>1. More \in {0, 2}
  BY DEF OptionRight, More
<1>2. \E k \in 0 .. More : Follow(k)
  <2>1. CASE More = 0
    BY <2>1 DEF Follow
  <2>2. CASE More = 2 /\ ~IsPlain(place + 2)
    BY <2>2 DEF Follow
  <2>3. CASE More = 2 /\ IsPlain(place + 2) /\ ~IsPlain(place + 3)
    <3>1. Follow(1)
      <4>1. \A j \in 1 .. 1 : j = 1
        OBVIOUS
      <4>2. place + 1 + 1 = place + 2 /\ place + 2 + 1 = place + 3
        OBVIOUS
      <4>3. QED
        BY <2>3, <4>1, <4>2 DEF Follow
    <3>2. QED
      BY <2>3, <3>1
  <2>4. CASE More = 2 /\ IsPlain(place + 2) /\ IsPlain(place + 3)
    <3>1. Follow(2)
      <4>1. \A j \in 1 .. 2 : j = 1 \/ j = 2
        OBVIOUS
      <4>2. place + 1 + 1 = place + 2 /\ place + 1 + 2 = place + 3
        OBVIOUS
      <4>3. QED
        BY <2>4, <4>1, <4>2 DEF Follow
    <3>2. QED
      BY <2>4, <3>1
  <2>5. QED
    BY <1>1, <2>1, <2>2, <2>3, <2>4
<1>3. Further = CHOOSE k \in 0 .. More : Follow(k)
  BY DEF Further, More, Follow
<1>4. \A k, l \in 0 .. More : Follow(k) /\ Follow(l) => ~(k < l)
  <2>1. SUFFICES ASSUME NEW k \in 0 .. More, NEW l \in 0 .. More, Follow(k), Follow(l), k < l PROVE FALSE
    OBVIOUS
  <2>2. k + 1 \in 1 .. l /\ k < More /\ place + 1 + (k + 1) = place + 2 + k
    BY <1>1, <2>1
  <2>3. QED
    BY <2>1, <2>2 DEF Follow
<1>5. Further \in 0 .. More /\ Follow(Further)
  BY <1>2, <1>3
<1>6. \A k \in 0 .. More : Follow(k) => k = Further
  BY <1>1, <1>4, <1>5
<1>7. QED
  BY <1>1, <1>5, <1>6

\* The kth setting is the one at hand
At(k) == k \in DOMAIN Settings /\ place = command.starts[k]
LEMMA AtIs ==
    ASSUME command \in Commands, NEW k, At(k), NEW w, w = Settings[k].words
    PROVE  /\ k \in 1 .. Len(Settings) /\ Len(Settings) \in Nat /\ place \in Nat /\ Len(Words) \in Nat
           /\ Len(w) \in Nat /\ Len(w) >= 1 /\ IsSetting(command, k)
           /\ Kinds(command, k, Settings[k], w, Options[w[1]])
           /\ w[1] = Words[place]
           /\ command.starts[k + 1] = place + Len(w) /\ command.starts[k + 1] \in 1 .. Len(Words) + 1
           /\ \A j \in 1 .. Len(w) : HasValue(place + j - 1) /\ Words[place + j - 1] = w[j]
           /\ \A i : HasValue(i) <=> i \in 1 .. Len(Words)
<1>1. k \in DOMAIN command.settings /\ w = command.settings[k].words /\ place = command.starts[k]
  BY DEF At, Settings
<1>2. /\ Len(Settings) \in Nat /\ DOMAIN Settings = 1 .. Len(Settings)
      /\ DOMAIN Words = 1 .. Len(Words) /\ Len(Words) \in Nat
      /\ \A i \in 1 .. Len(Settings) + 1 : command.starts[i] \in 1 .. Len(Words) + 1
  BY CommandIs DEF Settings, Words
<1>3. k \in 1 .. Len(Settings) /\ k \in 1 .. Len(Settings) + 1 /\ k + 1 \in 1 .. Len(Settings) + 1
  BY <1>1, <1>2 DEF Settings
<1>4. /\ IsSetting(command, k) /\ Len(w) \in Nat /\ command.starts[k + 1] = place + Len(w)
      /\ \A j \in 1 .. Len(w) : Words[place + j - 1] = w[j]
  BY <1>1, SettingIs DEF Words
<1>5. place \in 1 .. Len(Words) + 1 /\ command.starts[k + 1] \in 1 .. Len(Words) + 1
  BY <1>1, <1>2, <1>3
<1>6. \A j \in 1 .. Len(w) : HasValue(place + j - 1)
  BY <1>2, <1>4, <1>5 DEF HasValue
<1>7. Kinds(command, k, Settings[k], w, Options[w[1]])
  BY <1>4, SettingKinds DEF Settings
<1>8. Len(w) >= 1
  BY <1>4, <1>7, SettingSize
<1>9. w[1] = Words[place]
  <2>1. 1 \in 1 .. Len(w) /\ place + 1 - 1 = place
    BY <1>4, <1>5, <1>8
  <2>2. QED
    BY <1>4, <2>1
<1>10. QED
  BY <1>2, <1>3, <1>4, <1>5, <1>6, <1>7, <1>8, <1>9 DEF HasValue

LEMMA UnknownTaken ==
    ASSUME CommandTypes, NEW k, At(k), UnknownOption
    PROVE  Effect(k)
<1> DEFINE s == Settings[k]
           w == s.words
<1>1. command.starts[k + 1] = place + Len(w) /\ w[1] = Words[place] /\ Kinds(command, k, s, w, Options[w[1]])
  BY AtIs DEF CommandTypes
<1>2. Words[place] \in Dashed \ OptionNames /\ told' = Append(told, Words[place]) /\ place' = place + 1 /\ command' = command
  BY DEF UnknownOption, AtOption, Tell
<1> HIDE DEF w
<1>3. Len(w) = 1 /\ ~s.good
  BY <1>1, <1>2 DEF Kinds
<1>4. told' # <<>>
  BY <1>2 DEF CommandTypes
<1>5. Past(k)'
  BY <1>1, <1>2, <1>3 DEF Past
<1>6. QED
  BY <1>3, <1>4, <1>5 DEF Effect

LEMMA SwitchTaken ==
    ASSUME CommandTypes, NEW k, At(k), ReadSwitch
    PROVE  Effect(k)
<1> DEFINE s == Settings[k]
           w == s.words
<1>1. command.starts[k + 1] = place + Len(w) /\ w[1] = Words[place] /\ Kinds(command, k, s, w, Options[w[1]])
  BY AtIs DEF CommandTypes
<1>2. /\ Words[place] \in Dashed \cap OptionNames /\ TheOption.test = "none"
      /\ told' = told /\ place' = place + 1 /\ command' = command
      /\ args' = [m \in Members |-> IF m \in TheOption.marks THEN "set" ELSE args[m]]
  BY DEF ReadSwitch, AtOption
<1> HIDE DEF w
<1>3. Len(w) = 1 /\ s.good /\ s.sets = [m \in TheOption.marks |-> "set"]
  BY <1>1, <1>2 DEF Kinds, TheOption
<1>4. \A m \in Arguments : args'[m] = IF m \in DOMAIN s.sets THEN s.sets[m] ELSE args[m]
  BY <1>2, <1>3 DEF Arguments
<1>5. Past(k)'
  BY <1>1, <1>2, <1>3 DEF Past
<1>6. QED
  BY <1>2, <1>3, <1>4, <1>5 DEF Effect

LEMMA WordTaken ==
    ASSUME CommandTypes, NEW k, At(k), ReadWord
    PROVE  Effect(k)
<1> DEFINE s == Settings[k]
           w == s.words
<1>1. /\ command.starts[k + 1] = place + Len(w) /\ w[1] = Words[place] /\ Kinds(command, k, s, w, Options[w[1]])
      /\ k \in 1 .. Len(Settings) /\ place \in Nat /\ Len(Settings) \in Nat
  BY AtIs DEF CommandTypes
<1>2. /\ Words[place] \notin Dashed /\ place' = place + 1 /\ command' = command
      /\ args' = IF place = 1 THEN [args EXCEPT !["input_file"] = Words[place]] ELSE args
      /\ told' = IF place > 1 \/ Words[place] \notin Existing THEN Append(told, Words[place]) ELSE told
  BY DEF ReadWord, IsPlain
<1>3. k = 1 <=> place = 1
  <2>1. k = 1 => place = 1
    BY CommandIs DEF At, CommandTypes
  <2>2. ASSUME k > 1 PROVE place > 1
    <3> DEFINE i == k - 1
    <3>1. i \in DOMAIN command.settings
      BY <1>1, <2>2, CommandIs DEF Settings, CommandTypes
    <3>2. i + 1 = k /\ i \in 1 .. Len(Settings) + 1
      BY <1>1, <2>2
    <3> HIDE DEF i
    <3>3. Len(command.settings[i].words) \in Nat /\ command.starts[k] = command.starts[i] + Len(command.settings[i].words) /\ IsSetting(command, i)
      BY <3>1, <3>2, SettingIs DEF CommandTypes
    <3>4. Len(command.settings[i].words) >= 1
      BY <3>3, SettingKinds, SettingSize
    <3>5. command.starts[i] \in 1 .. Len(command.words) + 1 /\ Len(command.words) \in Nat
      BY <3>2, CommandIs DEF CommandTypes, Settings
    <3>6. QED
      BY <3>3, <3>4, <3>5 DEF At
  <2>3. QED
    BY <1>1, <2>1, <2>2
<1> HIDE DEF w
<1>4. /\ Len(w) = 1 /\ (k > 1 => ~s.good)
      /\ k = 1 => s.good = (w[1] \in Existing) /\ s.sets = [m \in {"input_file"} |-> w[1]]
  BY <1>1, <1>2 DEF Kinds
<1>5. told' = <<>> <=> told = <<>> /\ s.good
  <2>1. Append(told, Words[place]) # <<>>
    BY DEF CommandTypes
  <2>2. CASE k = 1
    <3>1. told' = IF Words[place] \notin Existing THEN Append(told, Words[place]) ELSE told
      BY <1>2, <1>3, <2>2
    <3>2. QED
      BY <1>1, <1>4, <2>1, <2>2, <3>1
  <2>3. CASE k # 1
    <3>1. k > 1 /\ place > 1
      BY <1>1, <1>3, <2>3 DEF CommandTypes
    <3>2. QED
      BY <1>2, <1>4, <2>1, <3>1
  <2>4. QED
    BY <2>2, <2>3
<1>6. ASSUME told' = <<>>, NEW m \in Arguments PROVE args'[m] = IF m \in DOMAIN s.sets THEN s.sets[m] ELSE args[m]
  <2>1. k = 1 /\ place = 1
    <3>1. ~(k > 1)
      BY <1>4, <1>5, <1>6
    <3>2. QED
      BY <1>1, <1>3, <3>1
  <2>2. s.sets = [i \in {"input_file"} |-> Words[place]]
    BY <1>1, <1>4, <2>1
  <2>3. args' = [args EXCEPT !["input_file"] = Words[place]] /\ DOMAIN args = Members /\ m \in Members
    BY <1>2, <2>1 DEF CommandTypes, Arguments
  <2>4. QED
    BY <2>2, <2>3
<1>7. Past(k)'
  BY <1>1, <1>2, <1>4 DEF Past
<1>8. QED
  BY <1>5, <1>6, <1>7 DEF Effect

LEMMA NoValueTaken ==
    ASSUME CommandTypes, NEW k, At(k), FrontComplete, NoValue
    PROVE  Effect(k)
<1> DEFINE s == Settings[k]
<1>0. PICK w : w = Settings[k].words
  OBVIOUS
<1>1. /\ command.starts[k + 1] = place + Len(w) /\ w[1] = Words[place] /\ Kinds(command, k, s, w, Options[w[1]])
      /\ k \in 1 .. Len(Settings) /\ place \in Nat /\ Len(Settings) \in Nat /\ Len(w) \in Nat /\ Len(Words) \in Nat
      /\ \A j \in 1 .. Len(w) : HasValue(place + j - 1) /\ Words[place + j - 1] = w[j]
  BY <1>0, AtIs DEF CommandTypes
<1>2. /\ Words[place] \in Dashed \cap OptionNames /\ TheOption.test # "none" /\ MissesValue
      /\ told' = Append(told, Words[place]) /\ place' = place + 2 /\ command' = command
  BY DEF NoValue, AtOption, Tell
<1>3. Kinds(command, k, s, w, TheOption)
  BY <1>1 DEF TheOption
<1>4. /\ ~s.good
      /\ Len(w) = 2 \/ (Len(w) = 1 /\ ~s.complete)
  <2>1. ASSUME HasValues(command, k, s, w, TheOption) PROVE FALSE
    <3>1. w[1] \in OptionNames
      BY <1>1, <1>2
    <3>2. Len(TheOption.more) \in Nat
      BY <1>1, <3>1, OptionsAre DEF TheOption, OptionRight
    <3>3. Len(w) >= 2 /\ (TheOption.test = "positive" => w[2] \notin Dashed)
      BY <1>1, <2>1, <3>2 DEF HasValues
    <3>4. HasValue(place + 1) /\ Words[place + 1] = w[2]
      <4>1. 2 \in 1 .. Len(w) /\ place + 2 - 1 = place + 1
        BY <1>1, <3>3
      <4>2. QED
        BY <1>1, <4>1
    <3>5. QED
      BY <1>2, <1>3, <3>3, <3>4 DEF MissesValue
  <2>2. QED
    BY <1>1, <1>2, <1>3, <2>1 DEF Kinds
<1>5. told' # <<>>
  BY <1>2 DEF CommandTypes
<1>6. Past(k)'
  <2>1. CASE Len(w) = 2
    BY <1>1, <1>2, <2>1 DEF Past
  <2>2. CASE Len(w) = 1 /\ ~s.complete
    <3>1. k = Len(Settings)
      <4>1. ~(k < Len(Settings))
        BY <2>2 DEF FrontComplete, At
      <4>2. QED
        BY <1>1, <4>1
    <3>2. command.starts[Len(Settings) + 1] = Len(Words) + 1
      BY CommandIs DEF CommandTypes, Settings, Words
    <3>3. place + 2 > Len(Words)
      BY <1>1, <2>2, <3>1, <3>2
    <3>4. QED
      BY <1>2, <3>1, <3>3 DEF Past, Settings, Words
  <2>3. QED
    BY <1>4, <2>1, <2>2
<1>7. QED
  BY <1>4, <1>5, <1>6 DEF Effect

\* The values that the option at hand takes are those of its setting
LEMMA ValuesTaken ==
    ASSUME CommandTypes, NEW k, At(k), FrontComplete, AtOption, Words[place] \in OptionNames,
           TheOption.test # "none", ~MissesValue, NEW w, w = Settings[k].words
    PROVE  /\ HasValues(command, k, Settings[k], w, TheOption) /\ Further = Len(w) - 2 /\ Len(w) \in 2 .. 4
           /\ command.starts[k + 1] = place + Len(w) /\ place \in Nat
           /\ \A j \in 0 .. Further : Value(j) = w[j + 2]
<1> DEFINE s == Settings[k]
<1>1. /\ command.starts[k + 1] = place + Len(w) /\ w[1] = Words[place] /\ Kinds(command, k, s, w, TheOption)
      /\ k \in 1 .. Len(Settings) /\ place \in Nat /\ Len(Settings) \in Nat /\ Len(w) \in Nat /\ Len(Words) \in Nat
      /\ \A j \in 1 .. Len(w) : HasValue(place + j - 1) /\ Words[place + j - 1] = w[j]
      /\ \A i : HasValue(i) <=> i \in 1 .. Len(Words)
  BY AtIs DEF CommandTypes, TheOption
<1>2. Words[place] \in Dashed \cap OptionNames
  BY DEF AtOption
<1>3. HasValue(place + 1) /\ ~(TheOption.test = "positive" /\ Words[place + 1] \in Dashed)
  BY DEF MissesValue
<1>4. command.starts[Len(Settings) + 1] = Len(Words) + 1
  BY CommandIs DEF CommandTypes, Settings, Words
<1>5. ~(Len(w) = 2 /\ TheOption.test = "positive" /\ w[2] \in Dashed)
  <2>1. Len(w) = 2 => Words[place + 1] = w[2]
    <3>1. Len(w) = 2 => 2 \in 1 .. Len(w) /\ place + 2 - 1 = place + 1
      BY <1>1
    <3>2. QED
      BY <1>1, <3>1
  <2>2. QED
    BY <1>3, <2>1
<1>6. ~(Len(w) = 1 /\ ~s.complete)
  <2>1. SUFFICES ASSUME Len(w) = 1, ~s.complete PROVE FALSE
    OBVIOUS
  <2>2. k = Len(Settings)
    <3>1. ~(k < Len(Settings))
      BY <2>1 DEF FrontComplete, At
    <3>2. QED
      BY <1>1, <3>1
  <2>3. place + 1 = Len(Words) + 1
    BY <1>1, <1>4, <2>1, <2>2
  <2>4. QED
    BY <1>1, <1>3, <2>3
<1>7. HasValues(command, k, s, w, TheOption)
  BY <1>1, <1>2, <1>5, <1>6 DEF Kinds
<1>8. OptionRight(TheOption)
  BY OptionsAre DEF TheOption
<1>9. /\ More \in {0, 2} /\ Further \in 0 .. More /\ Follow(Further)
      /\ \A i \in 0 .. More : Follow(i) => i = Further
  BY <1>1, <1>8, FurtherIs
<1>10. Len(w) \in 2 .. More + 2
  BY <1>7 DEF HasValues, More
<1>11. Follow(Len(w) - 2)
  <2>1. ASSUME NEW j \in 1 .. Len(w) - 2 PROVE IsPlain(place + 1 + j)
    <3>1. j + 2 \in 1 .. Len(w) /\ j + 2 \in 3 .. Len(w) /\ place + (j + 2) - 1 = place + 1 + j
      BY <1>1, <1>10, <2>1
    <3>2. HasValue(place + 1 + j) /\ Words[place + 1 + j] = w[j + 2]
      BY <1>1, <3>1
    <3>3. w[j + 2] \notin Dashed
      BY <1>7, <3>1 DEF HasValues
    <3>4. QED
      BY <3>2, <3>3 DEF IsPlain
  <2>2. ASSUME Len(w) - 2 < More, IsPlain(place + Len(w)) PROVE FALSE
    <3>1. Len(w) < Len(TheOption.more) + 2
      BY <1>1, <1>9, <2>2 DEF More
    <3>2. CASE k < Len(Settings)
      <4>1. command.settings[k + 1].words[1] \in Dashed
        BY <1>7, <3>1, <3>2 DEF HasValues, Settings
      <4>2. k + 1 \in DOMAIN command.settings
        BY <1>1, <3>2, CommandIs DEF CommandTypes, Settings
      <4> DEFINE v == command.settings[k + 1].words
      <4>3. /\ IsSetting(command, k + 1) /\ Len(v) \in Nat
            /\ \A j \in 1 .. Len(v) : command.words[command.starts[k + 1] + j - 1] = v[j]
        BY <4>2, SettingIs DEF CommandTypes
      <4>4. Len(v) >= 1
        BY <4>3, SettingKinds, SettingSize
      <4> HIDE DEF v
      <4>5. 1 \in 1 .. Len(v) /\ command.starts[k + 1] + 1 - 1 = place + Len(w)
        BY <1>1, <4>3, <4>4
      <4>6. Words[place + Len(w)] = v[1]
        BY <4>3, <4>5 DEF Words
      <4>7. QED
        BY <2>2, <4>1, <4>6 DEF IsPlain, v
    <3>3. CASE k = Len(Settings)
      BY <1>1, <1>4, <2>2, <3>3 DEF IsPlain
    <3>4. QED
      BY <1>1, <3>2, <3>3
  <2>3. place + 2 + (Len(w) - 2) = place + Len(w)
    <3>1. place \in Nat /\ Len(w) \in Nat
      BY <1>1
    <3>2. \A a, b \in Nat : a + 2 + (b - 2) = a + b
      OBVIOUS
    <3>3. QED
      BY <3>1, <3>2
  <2>4. QED
    BY <2>1, <2>2, <2>3 DEF Follow
<1>12. Further = Len(w) - 2 /\ Len(w) \in 2 .. 4
  <2>1. Len(w) - 2 \in 0 .. More
    BY <1>9, <1>10
  <2>2. Further = Len(w) - 2
    BY <1>9, <1>11, <2>1
  <2>3. More = 0 \/ More = 2
    BY <1>9
  <2>4. Len(w) \in 2 .. 4
    <3>1. CASE More = 0
      <4>1. 2 .. More + 2 \subseteq 2 .. 4
        BY <3>1
      <4>2. QED
        BY <1>10, <4>1
    <3>2. CASE More = 2
      <4>1. More + 2 = 4
        BY <3>2
      <4>2. QED
        BY <1>10, <4>1
    <3>3. QED
      BY <2>3, <3>1, <3>2
  <2>5. QED
    BY <2>2, <2>4
<1>13. ASSUME NEW j \in 0 .. Further PROVE Value(j) = w[j + 2]
  <2>1. j \in 0 .. Len(w) - 2 /\ Len(w) \in Nat /\ place \in Nat
    BY <1>1, <1>12, <1>13
  <2> HIDE DEF s
  <2>2. j + 2 \in 1 .. Len(w) /\ place + (j + 2) - 1 = place + 1 + j
    BY <2>1
  <2>3. QED
    BY <1>1, <2>2 DEF Value
<1>14. QED
  BY <1>1, <1>7, <1>12, <1>13

\* The values are words, and so are the messages about them
LEMMA ValuesAre ==
    ASSUME CommandTypes, Words[place] \in OptionNames, TheOption.test # "none", ~MissesValue, NEW j \in Nat
    PROVE  /\ j <= Further => Value(j) \in ToSet(Words)
           /\ Refusal(j) \in Seq(Said)
<1>1. OptionRight(TheOption) /\ place \in Nat
  BY OptionsAre DEF TheOption, CommandTypes
<1>2. Further \in Nat /\ \A i \in 1 .. Further : IsPlain(place + 1 + i)
  BY <1>1, FurtherIs DEF Follow
<1>3. HasValue(place + 1)
  BY DEF MissesValue
<1>4. ASSUME j <= Further PROVE HasValue(place + 1 + j)
  <2>1. CASE j = 0
    <3>1. place + 1 + j = place + 1
      BY <1>1, <2>1
    <3>2. QED
      BY <1>3, <3>1
  <2>2. CASE j # 0
    <3>1. j \in 1 .. Further
      BY <1>2, <1>4, <2>2
    <3>2. QED
      BY <1>2, <3>1 DEF IsPlain
  <2>3. QED
    BY <2>1, <2>2
<1>5. ASSUME j <= Further PROVE Value(j) \in ToSet(Words)
  BY <1>4, <1>5 DEF Value, HasValue, ToSet
<1>6. ASSUME j <= Further PROVE <<Value(j)>> \in Seq(Said)
  <2>1. Value(j) \in Said
    BY <1>5, <1>6 DEF Said
  <2>2. QED
    BY <2>1
<1>7. <<>> \in Seq(Said)
  OBVIOUS
<1>8. QED
  BY <1>5, <1>6, <1>7 DEF Refusal

LEMMA ValueTaken ==
    ASSUME CommandTypes, NEW k, At(k), FrontComplete, ReadValue
    PROVE  Effect(k)
<1> DEFINE s == Settings[k]
<1>1. PICK w : w = Settings[k].words
  OBVIOUS
<1>2. /\ AtOption /\ Words[place] \in OptionNames /\ TheOption.test # "none" /\ ~MissesValue
      /\ command' = command /\ place' = place + 2 + Further
      /\ told' = told \o Refusal(0) \o Refusal(1) \o Refusal(2)
  BY DEF ReadValue
<1>3. /\ HasValues(command, k, s, w, TheOption) /\ Further = Len(w) - 2 /\ Len(w) \in 2 .. 4
      /\ command.starts[k + 1] = place + Len(w) /\ place \in Nat
      /\ \A j \in 0 .. Further : Value(j) = w[j + 2]
  BY <1>1, <1>2, ValuesTaken
<1>4. OptionRight(TheOption)
  BY <1>2, OptionsAre DEF TheOption
<1>5. Past(k)'
  BY <1>2, <1>3 DEF Past
<1>6. s.good <=> \A j \in 0 .. Further : ~Refused(TheOption.test, Value(j))
  <2>1. s.good = \A j \in 2 .. Len(w) : ~Refused(TheOption.test, w[j])
    BY <1>3 DEF HasValues
  <2>2. (\A j \in 2 .. Len(w) : ~Refused(TheOption.test, w[j])) <=> \A j \in 0 .. Further : ~Refused(TheOption.test, w[j + 2])
    <3>1. ASSUME NEW j \in 2 .. Len(w) PROVE j - 2 \in 0 .. Further /\ (j - 2) + 2 = j
      BY <1>3
    <3>2. ASSUME NEW j \in 0 .. Further PROVE j + 2 \in 2 .. Len(w)
      BY <1>3
    <3>3. QED
      BY <3>1, <3>2
  <2>3. QED
    BY <1>3, <2>1, <2>2
<1>7. told' = <<>> <=> told = <<>> /\ s.good
  <2>1. \A j : (Refusal(j) = <<>> \/ Refusal(j) = <<Value(j)>>) /\ (Refusal(j) = <<>> <=> ~(j <= Further /\ Refused(TheOption.test, Value(j))))
    BY DEF Refusal
  <2>2. told' = <<>> <=> told = <<>> /\ Refusal(0) = <<>> /\ Refusal(1) = <<>> /\ Refusal(2) = <<>>
    <3>1. told \in Seq(Said) /\ Refusal(0) \in Seq(Said) /\ Refusal(1) \in Seq(Said) /\ Refusal(2) \in Seq(Said)
      BY <1>2, ValuesAre DEF CommandTypes
    <3>2. QED
      BY <1>2, <3>1
  <2>3. Further \in 0 .. 2
    BY <1>3
  <2>4. (\A j \in 0 .. Further : ~Refused(TheOption.test, Value(j)))
          <=> Refusal(0) = <<>> /\ Refusal(1) = <<>> /\ Refusal(2) = <<>>
    <3>1. \A j \in 0 .. Further : j = 0 \/ j = 1 \/ j = 2
      BY <2>3
    <3>2. \A j \in {0, 1, 2} : j \in 0 .. Further <=> j <= Further
      BY <2>3
    <3>3. QED
      BY <2>1, <3>1, <3>2
  <2>5. QED
    BY <1>6, <2>2, <2>4
<1>8. ASSUME told' = <<>>, NEW m \in Arguments PROVE args'[m] = IF m \in DOMAIN s.sets THEN s.sets[m] ELSE args[m]
  <2> DEFINE o == TheOption
             more == {j \in 1 .. Len(w) - 2 : j \in DOMAIN o.more}
  <2>1. s.sets = Sets(o, w)
    BY <1>3, <1>7, <1>8 DEF HasValues
  <2>2. Sets(o, w) = [i \in o.members \cup o.marks \cup {o.more[j] : j \in more} |->
                         IF i \in o.members THEN w[2] ELSE IF i \in o.marks THEN "set"
                         ELSE w[2 + CHOOSE j \in more : o.more[j] = i]]
    BY DEF Sets
  <2>3. more = 1 .. Further
    <3>1. Len(w) - 2 <= Len(o.more)
      <4>1. Len(o.more) \in Nat /\ Len(w) \in 2 .. Len(o.more) + 2
        BY <1>3, <1>4 DEF HasValues, OptionRight
      <4>2. QED
        BY <4>1
    <3>2. DOMAIN o.more = 1 .. Len(o.more) /\ Len(o.more) \in Nat
      BY <1>4 DEF OptionRight
    <3> HIDE DEF o
    <3>3. QED
      BY <1>3, <3>1, <3>2
  <2>4. args' = [i \in Members |->
                  IF i \in o.members THEN Value(0)
                  ELSE IF i \in o.marks THEN "set"
                  ELSE IF \E j \in 1 .. Further : o.more[j] = i
                       THEN Value(CHOOSE j \in 1 .. Further : o.more[j] = i)
                  ELSE IF i = "is_stdin_redirected" /\ "input_file" \in o.members THEN Nil ELSE args[i]]
    BY DEF ReadValue
  <2>5. m \in Members /\ m # "is_stdin_redirected"
    BY <1>8 DEF Arguments
  <2>6. Value(0) = w[2]
    BY <1>3
  <2> HIDE DEF o, more
  <2>7. CASE m \in o.members \cup o.marks
    BY <2>1, <2>2, <2>4, <2>5, <2>6, <2>7
  <2>8. CASE m \notin o.members \cup o.marks /\ \E j \in 1 .. Further : o.more[j] = m
    <3> DEFINE i == CHOOSE j \in 1 .. Further : o.more[j] = m
    <3>1. i \in 1 .. Further
      BY <2>8
    <3>2. args'[m] = Value(i)
      BY <2>4, <2>5, <2>8
    <3>3. m \in DOMAIN s.sets /\ s.sets[m] = w[2 + i]
      BY <2>1, <2>2, <2>3, <2>8
    <3> HIDE DEF i
    <3>4. Value(i) = w[i + 2] /\ 2 + i = i + 2
      BY <1>3, <3>1
    <3>5. QED
      BY <3>2, <3>3, <3>4
  <2>9. CASE m \notin o.members \cup o.marks /\ ~\E j \in 1 .. Further : o.more[j] = m
    BY <2>1, <2>2, <2>3, <2>4, <2>5, <2>9
  <2>10. QED
    BY <2>7, <2>8, <2>9
<1>9. QED
  BY <1>5, <1>7, <1>8 DEF Effect

LEMMA SettingReached ==
    ASSUME CommandTypes, NEW k \in 0 .. Len(Settings), Past(k), HasValue(place)
    PROVE  At(k + 1) /\ k + 1 \in 1 .. Len(Settings)
<1>1. PICK n, l : n = Len(Settings) /\ l = Len(Words)
  OBVIOUS
<1>2. n \in Nat /\ DOMAIN Settings = 1 .. n /\ DOMAIN Words = 1 .. l /\ l \in Nat /\ command.starts[n + 1] = l + 1
  BY <1>1, CommandIs DEF CommandTypes, Settings, Words
<1>3. place \in 1 .. l /\ k \in 0 .. n
  BY <1>1, <1>2 DEF HasValue
<1>4. ~(place > l)
  BY <1>2, <1>3
<1>5. place = command.starts[k + 1]
  BY <1>1, <1>4 DEF Past
<1>6. k # n
  BY <1>2, <1>3, <1>5
<1>7. k + 1 \in 1 .. n
  BY <1>2, <1>3, <1>6
<1>8. QED
  BY <1>1, <1>2, <1>5, <1>7 DEF At

Reads == UnknownOption \/ ReadSwitch \/ NoValue \/ ReadValue \/ ReadWord
LEMMA ReadsIs ==
    ASSUME Reads
    PROVE  pc = "parse" /\ pc' = pc /\ HasValue(place) /\ command' = command /\ text' = text /\ screen' = screen
BY DEF Reads, UnknownOption, ReadSwitch, NoValue, ReadValue, ReadWord, AtOption, IsPlain

LEMMA ParsingGoesOn ==
    ASSUME CommandTypes, Parsing, Reads
    PROVE  Parsing'
<1>1. HasValue(place) /\ command' = command
  BY ReadsIs
<1>2. Settings' = Settings /\ (FrontComplete' <=> FrontComplete)
  BY <1>1 DEF Settings, FrontComplete
<1>3. SUFFICES ASSUME FrontComplete PROVE (\E k \in 0 .. Len(Settings) : Past(k) /\ Taken(k))'
  BY <1>2 DEF Parsing
<1>4. PICK k \in 0 .. Len(Settings) : Past(k) /\ Taken(k)
  BY <1>3 DEF Parsing
<1> DEFINE n == k + 1
<1>5. At(n) /\ n \in 1 .. Len(Settings)
  BY <1>1, <1>4, SettingReached
<1>6. n \in Nat \ {0} /\ n - 1 = k /\ n \in 0 .. Len(Settings)
  <2>1. PICK l : l = Len(Settings)
    OBVIOUS
  <2>2. l \in Nat
    BY <2>1, CommandIs DEF CommandTypes, Settings
  <2>3. k \in 0 .. l /\ n \in 1 .. l
    BY <1>4, <1>5, <2>1
  <2>4. QED
    BY <2>1, <2>2, <2>3
<1> HIDE DEF n
<1>7. Effect(n)
  BY <1>3, <1>5, UnknownTaken, SwitchTaken, NoValueTaken, ValueTaken, WordTaken DEF Reads
<1>8. Taken(n)'
  BY <1>1, <1>4, <1>6, <1>7, SettingTaken
<1>9. QED
  BY <1>2, <1>6, <1>7, <1>8 DEF Effect

LEMMA MembersAre == {"input_file", "log_file", "error_log", "is_stdin_redirected"} \subseteq Members
<1>1. "input_file" \in Options["-d"].members /\ "-d" \in OptionNames
  BY DEF Options, OptionNames, OptionD, Takes
<1>2. "log_file" \in Options["-ol"].members /\ "-ol" \in OptionNames
  BY DEF Options, OptionNames, OptionO, Takes
<1>3. "error_log" \in Options["-el"].members /\ "-el" \in OptionNames
  BY DEF Options, OptionNames, OptionE, Takes
<1>4. QED
  BY <1>1, <1>2, <1>3 DEF Members

\* The whole command line has been read
LEMMA AllTaken ==
    ASSUME CommandTypes, Parsing, FrontComplete, ~HasValue(place)
    PROVE  /\ told = <<>> <=> AllGood
           /\ told = <<>> => \A m \in Arguments : args[m] = Meant(m)
<1>1. PICK n, l : n = Len(Settings) /\ l = Len(Words)
  OBVIOUS
<1>2. /\ n \in Nat /\ DOMAIN Settings = 1 .. n /\ DOMAIN Words = 1 .. l /\ l \in Nat
      /\ place \in Nat /\ place > l
  <2>1. n \in Nat /\ DOMAIN Settings = 1 .. n /\ DOMAIN Words = 1 .. l /\ l \in Nat
    BY <1>1, CommandIs DEF CommandTypes, Settings, Words
  <2>2. place \in Nat \ {0} /\ place \notin 1 .. l
    BY <2>1 DEF HasValue, CommandTypes
  <2>3. QED
    BY <2>1, <2>2
<1>3. PICK k \in 0 .. n : Past(k) /\ Taken(k)
  BY <1>1 DEF Parsing
<1>4. k = n
  <2>1. SUFFICES ASSUME k # n PROVE FALSE
    OBVIOUS
  <2>2. place = command.starts[k + 1]
    BY <1>1, <1>3, <2>1 DEF Past
  <2> DEFINE i == k + 1
  <2>3. i \in 1 .. n
    BY <1>2, <1>3, <2>1
  <2>4. At(i)
    BY <1>2, <2>2, <2>3 DEF At
  <2> HIDE DEF i
  <2>5. PICK w : w = Settings[i].words
    OBVIOUS
  <2>6. Len(w) \in Nat /\ Len(w) >= 1 /\ command.starts[i + 1] = place + Len(w) /\ command.starts[i + 1] \in 1 .. l + 1
    BY <1>1, <2>4, <2>5, AtIs DEF CommandTypes
  <2>7. QED
    BY <1>2, <2>6
<1>5. GoodBy(k) <=> AllGood
  BY <1>2, <1>4 DEF GoodBy, AllGood
<1>6. \A m : Meant(m) = MeantBy(Settings, m, k)
  BY <1>2, <1>4 DEF Meant, MeantBy
<1>7. QED
  BY <1>3, <1>5, <1>6 DEF Taken

LEMMA FinishRight ==
    ASSUME CommandTypes, Parsing, FinishParse
    PROVE  OptionsRight'
<1> DEFINE none == ~IsSet("input_file") /\ ~command.redirected /\ Words # <<>>
<1>1. /\ ~HasValue(place) /\ command' = command
      /\ pc' = IF told # <<>> \/ none THEN "failed" ELSE "check"
      /\ \A m \in Arguments \ {"error_log"} : args'[m] = args[m]
  <2>1. \A m \in Arguments \ {"error_log"} : args'[m] = args[m]
    BY DEF FinishParse, CommandTypes, Arguments
  <2>2. QED
    BY <2>1 DEF FinishParse
<1>2. Complete => FrontComplete
  BY DEF Complete, FrontComplete
<1>3. ASSUME FrontComplete PROVE pc' = "check" <=> AllGood /\ HasData
  <2>1. told = <<>> <=> AllGood
    BY <1>1, <1>3, AllTaken
  <2>2. told = <<>> => args["input_file"] = Meant("input_file")
    <3>1. "input_file" \in Arguments
      BY MembersAre DEF Arguments
    <3>2. QED
      BY <1>1, <1>3, <3>1, AllTaken
  <2>3. told = <<>> => (none <=> ~HasData)
    BY <2>2 DEF HasData, IsSet
  <2>4. QED
    BY <1>1, <2>1, <2>3
<1>4. ASSUME FrontComplete, pc' = "check", NEW m \in Arguments \ {"error_log"} PROVE args'[m] = Meant(m)
  <2>1. told = <<>>
    BY <1>1, <1>4
  <2>2. args[m] = Meant(m)
    BY <1>1, <1>4, <2>1, AllTaken
  <2>3. QED
    BY <1>1, <1>4, <2>2
<1>5. ASSUME ~Complete PROVE ~AllGood
  <2>1. PICK k \in DOMAIN Settings : ~Settings[k].complete
    BY <1>5 DEF Complete
  <2>2. IsSetting(command, k) /\ Settings[k] = command.settings[k]
    BY <2>1, SettingIs DEF Settings, CommandTypes
  <2>3. ~Settings[k].good
    BY <2>1, <2>2, SettingBad
  <2>4. QED
    BY <2>1, <2>3 DEF AllGood
<1>6. /\ Complete' <=> Complete
      /\ FrontComplete' <=> FrontComplete
      /\ AllGood' <=> AllGood
      /\ HasData' <=> HasData
      /\ \A m \in Arguments : Meant(m)' = Meant(m)
  BY <1>1 DEF Complete, FrontComplete, AllGood, HasData, Meant, Settings, Words
<1>7. pc' \in {"failed", "check"}
  BY <1>1
<1>8. Members \ {"is_stdin_redirected", "error_log"} = Arguments \ {"error_log"}
  BY DEF Arguments
<1> HIDE DEF none
<1>9. /\ Complete => (pc' = "check") = (AllGood /\ HasData)
      /\ Complete /\ pc' = "check" => \A m \in Arguments \ {"error_log"} : args'[m] = Meant(m)
      /\ ~Complete /\ FrontComplete => pc' = "failed"
  BY <1>2, <1>3, <1>4, <1>5, <1>7
<1>10. QED
  BY <1>6, <1>8, <1>9 DEF OptionsRight

-----------------------------------------------------------------------------
(* The messages and the log *)

LEMMA SeqMore ==
    ASSUME NEW A, NEW B, A \subseteq B, NEW s \in Seq(A)
    PROVE  s \in Seq(B)
<1>1. Len(s) \in Nat /\ s \in [1 .. Len(s) -> A]
  OBVIOUS
<1>2. s \in [1 .. Len(s) -> B]
  BY <1>1
<1>3. QED
  BY <1>1, <1>2

LEMMA EmptyParts ==
    ASSUME NEW S, NEW a \in Seq(S), NEW b \in Seq(S), NEW c \in Seq(S), NEW d \in Seq(S), a \o b \o c \o d = <<>>
    PROVE  a = <<>> /\ b = <<>>
OBVIOUS

InFiles == Said \cup {"old", "log"}
LEMMA TypesFollow ==
    ASSUME CommandTypes, command' = command, place' \in Nat \ {0}, told' \in Seq(Said),
           args' = [m \in Members |-> args'[m]], files' \in [Creatable -> Seq(InFiles)],
           text' \in {<<>>, <<"log">>}, pc' \in {"parse", "check", "work", "log", "failed", "last", "end"}
    PROVE  CommandTypes'
BY DEF CommandTypes, Said, Words, InFiles

LEMMA ToldMore ==
    ASSUME CommandTypes, NEW w \in Said
    PROVE  Append(told, w) \in Seq(Said)
BY DEF CommandTypes

LEMMA WordSaid ==
    ASSUME HasValue(place)
    PROVE  Words[place] \in Said
BY DEF HasValue, Said, ToSet

LEMMA ReadsTypes ==
    ASSUME CommandTypes, Reads
    PROVE  CommandTypes'
<1>1. pc = "parse" /\ pc' = pc /\ HasValue(place) /\ command' = command /\ text' = text
  BY ReadsIs
<1>2. Words[place] \in Said /\ Append(told, Words[place]) \in Seq(Said)
  BY <1>1, WordSaid, ToldMore
<1>3. /\ told \in Seq(Said) /\ args = [m \in Members |-> args[m]] /\ place \in Nat \ {0}
      /\ files \in [Creatable -> Seq(InFiles)] /\ text \in {<<>>, <<"log">>}
  BY DEF CommandTypes, InFiles
<1>4. CASE UnknownOption
  <2>1. place' = place + 1 /\ told' = Append(told, Words[place]) /\ args' = args /\ files' = files
    BY <1>4 DEF UnknownOption, Tell
  <2>2. QED
    BY <1>1, <1>2, <1>3, <2>1, TypesFollow
<1>5. CASE ReadSwitch
  <2>1. place' = place + 1 /\ told' = told /\ files' = files /\ args' = [m \in Members |-> args'[m]]
    BY <1>5 DEF ReadSwitch
  <2>2. QED
    BY <1>1, <1>3, <2>1, TypesFollow
<1>6. CASE NoValue
  <2>1. place' = place + 2 /\ told' = Append(told, Words[place]) /\ args' = args /\ files' = files
    BY <1>6 DEF NoValue, Tell
  <2>2. QED
    BY <1>1, <1>2, <1>3, <2>1, TypesFollow
<1>7. CASE ReadValue
  <2>1. /\ Words[place] \in OptionNames /\ TheOption.test # "none" /\ ~MissesValue
        /\ told' = told \o Refusal(0) \o Refusal(1) \o Refusal(2)
        /\ place' = place + 2 + Further
        /\ args' = [m \in Members |-> args'[m]]
        /\ files' = IF TheOption.test = "new" /\ Value(0) \in Creatable THEN [files EXCEPT ![Value(0)] = <<>>] ELSE files
    BY <1>7 DEF ReadValue
  <2>2. Refusal(0) \in Seq(Said) /\ Refusal(1) \in Seq(Said) /\ Refusal(2) \in Seq(Said)
    BY <2>1, ValuesAre
  <2>3. told' \in Seq(Said)
    BY <1>3, <2>1, <2>2
  <2>4. Further \in Nat
    <3>1. OptionRight(TheOption)
      BY <2>1, OptionsAre DEF TheOption
    <3>2. QED
      BY <1>3, <3>1, FurtherIs
  <2>5. files' \in [Creatable -> Seq(InFiles)]
    <3>1. <<>> \in Seq(InFiles)
      OBVIOUS
    <3>2. QED
      BY <1>3, <2>1, <3>1
  <2>6. QED
    BY <1>1, <1>3, <2>1, <2>3, <2>4, <2>5, TypesFollow
<1>8. CASE ReadWord
  <2>1. place' = place + 1 /\ told' \in {told, Append(told, Words[place])} /\ files' = files
    BY <1>8 DEF ReadWord
  <2>2. args' = IF place = 1 THEN [args EXCEPT !["input_file"] = Words[place]] ELSE args
    BY <1>8 DEF ReadWord
  <2>3. args' = [m \in Members |-> args'[m]]
    BY <1>3, <2>2
  <2>4. place' \in Nat \ {0} /\ told' \in Seq(Said) /\ files' \in [Creatable -> Seq(InFiles)]
    <3>1. place' \in Nat \ {0}
      BY <1>3, <2>1
    <3>2. told' \in Seq(Said)
      BY <1>2, <1>3, <2>1
    <3>3. QED
      BY <1>3, <2>1, <3>1, <3>2
  <2>5. QED
    BY <1>1, <1>3, <2>3, <2>4, TypesFollow
<1>9. QED
  BY <1>4, <1>5, <1>6, <1>7, <1>8 DEF Reads

LEMMA ReadsOutputs ==
    ASSUME CommandTypes, Outputs, Reads
    PROVE  Outputs'
<1>1. pc = "parse" /\ pc' = "parse" /\ command' = command /\ text' = text /\ screen' = screen
  BY ReadsIs
<1>2. NewLog /\ text = <<>> /\ screen = <<>>
  BY <1>1 DEF Outputs
<1>3. "log_file" \in Members
  BY MembersAre
<1>4. told \in Seq(Said) /\ DOMAIN args = Members
  BY DEF CommandTypes
<1>5. ASSUME told' = <<>> PROVE NewLog'
  <2>1. CASE UnknownOption \/ NoValue
    <3>1. told' = Append(told, Words[place])
      BY <2>1 DEF UnknownOption, NoValue, Tell
    <3>2. Append(told, Words[place]) # <<>>
      BY <1>4
    <3>3. QED
      BY <1>5, <3>1, <3>2
  <2>2. CASE ReadSwitch
    <3>1. OptionRight(TheOption)
      BY <2>2, OptionsAre DEF ReadSwitch, TheOption
    <3>2. args'["log_file"] = args["log_file"] /\ told' = told /\ files' = files
      BY <1>3, <2>2, <3>1 DEF ReadSwitch, OptionRight
    <3>3. QED
      BY <1>2, <3>2 DEF NewLog, Log, IsSet
  <2>3. CASE ReadWord
    <3>1. files' = files /\ args' = IF place = 1 THEN [args EXCEPT !["input_file"] = Words[place]] ELSE args
      BY <2>3 DEF ReadWord
    <3>2. args'["log_file"] = args["log_file"]
      BY <3>1
    <3>3. told = <<>>
      <4>1. told' \in {told, Append(told, Words[place])}
        BY <2>3 DEF ReadWord
      <4>2. Append(told, Words[place]) # <<>>
        BY <1>4
      <4>3. QED
        BY <1>5, <4>1, <4>2
    <3>4. QED
      BY <1>2, <3>1, <3>2, <3>3 DEF NewLog, Log, IsSet
  <2>4. CASE ReadValue
    <3>1. /\ Words[place] \in OptionNames /\ TheOption.test # "none" /\ ~MissesValue
          /\ told' = told \o Refusal(0) \o Refusal(1) \o Refusal(2)
          /\ files' = IF TheOption.test = "new" /\ Value(0) \in Creatable THEN [files EXCEPT ![Value(0)] = <<>>] ELSE files
          /\ args'["log_file"] = IF "log_file" \in TheOption.members THEN Value(0)
                ELSE IF "log_file" \in TheOption.marks THEN "set"
                ELSE IF \E j \in 1 .. Further : TheOption.more[j] = "log_file"
                     THEN Value(CHOOSE j \in 1 .. Further : TheOption.more[j] = "log_file")
                ELSE args["log_file"]
      BY <1>3, <2>4 DEF ReadValue
    <3>2. OptionRight(TheOption) /\ place \in Nat
      BY <3>1, OptionsAre DEF TheOption, CommandTypes
    <3>3. Refusal(0) \in Seq(Said) /\ Refusal(1) \in Seq(Said) /\ Refusal(2) \in Seq(Said)
      BY <3>1, ValuesAre
    <3>4. told = <<>> /\ Refusal(0) = <<>>
      BY <1>4, <1>5, <3>1, <3>3, EmptyParts
    <3>5. Further \in 0 .. More /\ More = Len(TheOption.more)
      BY <3>2, FurtherIs DEF More
    <3>6. CASE "log_file" \in TheOption.members
      <4>1. TheOption.test = "new"
        BY <3>2, <3>6 DEF OptionRight
      <4>2. ~Refused("new", Value(0))
        <5>1. 0 <= Further
          BY <3>2, <3>5, FurtherIs
        <5>2. <<Value(0)>> # <<>>
          OBVIOUS
        <5>3. QED
          BY <3>4, <4>1, <5>1, <5>2 DEF Refusal
      <4>3. Value(0) \in Creatable
        BY <4>2 DEF Refused
      <4>4. args'["log_file"] = Value(0) /\ files' = [files EXCEPT ![Value(0)] = <<>>] /\ DOMAIN files = Creatable
        BY <3>1, <3>6, <4>1, <4>3 DEF CommandTypes
      <4>5. files'[args'["log_file"]] = <<>>
        BY <4>3, <4>4
      <4>6. QED
        BY <4>3, <4>4, <4>5 DEF NewLog, Log
    <3>7. CASE "log_file" \notin TheOption.members
      <4>1. ~\E j \in 1 .. Further : TheOption.more[j] = "log_file"
        <5>1. DOMAIN TheOption.more = 1 .. More /\ More \in Nat
          BY <3>2 DEF OptionRight, More
        <5>2. 1 .. Further \subseteq DOMAIN TheOption.more
          BY <3>5, <5>1
        <5>3. QED
          BY <3>2, <5>2 DEF OptionRight
      <4>2. args'["log_file"] = args["log_file"]
        BY <3>1, <3>2, <3>7, <4>1 DEF OptionRight
      <4>3. \A f \in Creatable : files[f] = <<>> => files'[f] = <<>>
        BY <3>1 DEF CommandTypes
      <4>4. QED
        BY <1>2, <3>4, <4>2, <4>3 DEF NewLog, Log, IsSet
    <3>8. QED
      BY <3>6, <3>7
  <2>5. QED
    BY <2>1, <2>2, <2>3, <2>4 DEF Reads
<1>6. NewLog'
  BY <1>5 DEF NewLog
<1>7. QED
  BY <1>1, <1>2, <1>6 DEF Outputs

LEMMA SeqJoin ==
    ASSUME NEW S, NEW s \in Seq(S), NEW t \in Seq(S), NEW u \in Seq(S)
    PROVE  s \o t \o u \in Seq(S)
OBVIOUS

LEMMA ToSetOne ==
    /\ ToSet(<<>>) = {}
    /\ \A x : ToSet(<<x>>) = {x}
<1>1. ToSet(<<>>) = {}
  BY DEF ToSet
<1>2. ASSUME NEW x PROVE ToSet(<<x>>) = {x}
  <2>1. DOMAIN <<x>> = {1} /\ <<x>>[1] = x
    OBVIOUS
  <2>2. QED
    BY <2>1 DEF ToSet
<1>3. QED
  BY <1>1, <1>2

\* A message that tells that the command line was refused is from reading it
LEMMA NotEnded ==
    ASSUME pc' \notin {"failed", "check"} \/ (pc' = "failed" /\ told' \in {<<>>, <<"data">>, <<"unused option">>})
    PROVE  OptionsRight'
<1>1. \A t \in {<<>>, <<"data">>, <<"unused option">>} : "command line" \notin ToSet(t)
  <2>1. ToSet(<<>>) = {} /\ \A x : ToSet(<<x>>) = {x}
    BY ToSetOne
  <2>2. "command line" \notin ToSet(<<>>)
    BY <2>1
  <2>3. "command line" \notin ToSet(<<"data">>)
    <3>1. ToSet(<<"data">>) = {"data"}
      BY <2>1
    <3>2. "command line" \notin {"data"}
      OBVIOUS
    <3>3. QED
      BY <3>1, <3>2
  <2>4. "command line" \notin ToSet(<<"unused option">>)
    <3>1. ToSet(<<"unused option">>) = {"unused option"}
      BY <2>1
    <3>2. "command line" \notin {"unused option"}
      OBVIOUS
    <3>3. QED
      BY <3>1, <3>2
  <2>5. QED
    BY <2>2, <2>3, <2>4
<1>2. ~ParseEnded'
  BY <1>1 DEF ParseEnded
<1>3. QED
  BY <1>2 DEF OptionsRight

LEMMA FinishesKeeps ==
    ASSUME CommandInv, FinishParse
    PROVE  CommandInv'
<1>1. /\ pc = "parse" /\ command' = command /\ place' = place /\ text' = text /\ files' = files /\ screen' = screen
      /\ pc' \in {"failed", "check"}
  BY DEF FinishParse
<1>2. CommandTypes /\ Parsing /\ NewLog /\ text = <<>> /\ screen = <<>>
  BY <1>1 DEF CommandInv, Outputs
<1> DEFINE none == ~IsSet("input_file") /\ ~command.redirected /\ Words # <<>>
           line == told # <<>> \/ none
           a == IF none THEN <<"no data">> ELSE <<>>
           b == IF line THEN <<"command line">> ELSE <<>>
<1>3. /\ told' \in Seq(Said)
      /\ pc' = "check" => told = <<>> /\ told' = <<>>
  <2>1. told' = told \o a \o b /\ pc' = IF line THEN "failed" ELSE "check"
    BY DEF FinishParse
  <2>2. a \in {<<"no data">>, <<>>} /\ b \in {<<"command line">>, <<>>}
    OBVIOUS
  <2>3. pc' = "check" => told = <<>> /\ a = <<>> /\ b = <<>>
    BY <2>1
  <2> HIDE DEF a, b
  <2>4. told \in Seq(Said) /\ "no data" \in Said /\ "command line" \in Said
    BY <1>2 DEF CommandTypes, Said
  <2>5. <<>> \in Seq(Said) /\ <<"no data">> \in Seq(Said) /\ <<"command line">> \in Seq(Said)
    <3>1. \A x \in Said : <<x>> \in Seq(Said)
      OBVIOUS
    <3>2. <<>> \in Seq(Said)
      OBVIOUS
    <3>3. <<"no data">> \in Seq(Said)
      BY <2>4, <3>1
    <3>4. <<"command line">> \in Seq(Said)
      BY <2>4, <3>1
    <3>5. QED
      BY <3>2, <3>3, <3>4
  <2>6. a \in Seq(Said) /\ b \in Seq(Said)
    BY <2>2, <2>5
  <2>7. told \o a \o b \in Seq(Said)
    BY <2>4, <2>6, SeqJoin
  <2>8. <<>> \o <<>> \o <<>> = <<>>
    OBVIOUS
  <2>9. QED
    BY <2>1, <2>3, <2>7, <2>8
<1> HIDE DEF none, line, a, b
<1>4. args' = [m \in Members |-> args'[m]] /\ args'["log_file"] = args["log_file"]
  <2>1. args = [m \in Members |-> args[m]] /\ DOMAIN args = Members
    BY <1>2 DEF CommandTypes
  <2>2. PICK x, y : args' = [args EXCEPT !["is_stdin_redirected"] = x, !["error_log"] = y]
    BY DEF FinishParse
  <2>3. DOMAIN args' = Members
    BY <2>1, <2>2
  <2>4. args' = [m \in DOMAIN args' |-> args'[m]]
    BY <2>2
  <2>5. args'["log_file"] = args["log_file"]
    BY <2>1, <2>2, MembersAre
  <2>6. QED
    BY <2>3, <2>4, <2>5
<1>5. CommandTypes'
  <2>1. place \in Nat \ {0} /\ files \in [Creatable -> Seq(InFiles)] /\ text \in {<<>>, <<"log">>}
    BY <1>2 DEF CommandTypes, InFiles
  <2>2. pc' \in {"failed", "check"}
    BY <1>1
  <2>3. QED
    BY <1>1, <1>2, <1>3, <1>4, <2>1, <2>2, TypesFollow
<1>6. OptionsRight'
  BY <1>2, FinishRight
<1>7. pc' = "check" => told' = <<>> /\ NewLog'
  BY <1>1, <1>2, <1>3, <1>4 DEF NewLog, Log, IsSet
<1>8. pc' \in {"failed", "check"}
  BY <1>1
<1>9. Outputs'
  BY <1>1, <1>2, <1>7, <1>8 DEF Outputs, LogKept
<1>10. QED
  BY <1>5, <1>6, <1>8, <1>9 DEF CommandInv

LEMMA CheckKeeps ==
    ASSUME CommandInv, Check
    PROVE  CommandInv'
<1>1. /\ pc = "check" /\ command' = command /\ args' = args /\ place' = place
      /\ text' = text /\ files' = files /\ screen' = screen
      /\ \/ pc' = "failed" /\ told' = Append(told, "unused option")
         \/ pc' \in {"end", "work"} /\ told' = told
  BY DEF Check, Tell
<1>2. CommandTypes /\ NewLog /\ text = <<>> /\ screen = <<>> /\ told = <<>>
  BY <1>1 DEF CommandInv, Outputs
<1>3. told' \in Seq(Said) /\ told' \in {<<>>, <<"unused option">>} /\ (pc' # "failed" => told' = <<>>)
  <2>1. Append(<<>>, "unused option") = <<"unused option">>
    OBVIOUS
  <2>2. <<>> \in Seq(Said) /\ <<"unused option">> \in Seq(Said)
    BY DEF Said
  <2>3. QED
    BY <1>1, <1>2, <2>1, <2>2
<1>4. CommandTypes'
  <2>1. /\ args = [m \in Members |-> args[m]] /\ place \in Nat \ {0}
        /\ files \in [Creatable -> Seq(InFiles)] /\ text \in {<<>>, <<"log">>}
    BY <1>2 DEF CommandTypes, InFiles
  <2>2. args' = [m \in Members |-> args'[m]]
    BY <1>1, <2>1
  <2>3. pc' \in {"failed", "end", "work"}
    BY <1>1
  <2>4. QED
    BY <1>1, <1>2, <1>3, <2>1, <2>2, <2>3, TypesFollow
<1>5. OptionsRight'
  BY <1>1, <1>3, NotEnded
<1>6. pc' \in {"failed", "end", "work"}
  BY <1>1
<1>7. NewLog' \/ pc' # "work"
  BY <1>1, <1>2 DEF NewLog, Log, IsSet
<1>8. Outputs'
  BY <1>1, <1>2, <1>3, <1>6, <1>7 DEF Outputs, LogKept, LogThere, ToldKept
<1>9. QED
  BY <1>4, <1>5, <1>6, <1>8 DEF CommandInv

LEMMA WorkKeeps ==
    ASSUME CommandInv, Work
    PROVE  CommandInv'
<1>1. /\ pc = "work" /\ command' = command /\ args' = args /\ place' = place /\ files' = files /\ screen' = screen
      /\ text' = IF IsSet("log_file") THEN <<"log">> ELSE <<>>
      /\ \E t \in {<<>>, <<"data">>} : told' = told \o t
      /\ pc' = IF command.program = "chkform" THEN "failed" ELSE "log"
  BY DEF Work
<1>2. CommandTypes /\ NewLog /\ text = <<>> /\ screen = <<>> /\ told = <<>>
  BY <1>1 DEF CommandInv, Outputs
<1>3. told' \in {<<>>, <<"data">>} /\ told' \in Seq(Said)
  <2>1. <<>> \o <<>> = <<>> /\ <<>> \o <<"data">> = <<"data">>
    OBVIOUS
  <2>2. <<>> \in Seq(Said) /\ <<"data">> \in Seq(Said)
    BY DEF Said
  <2>3. QED
    BY <1>1, <1>2, <2>1, <2>2
<1>4. CommandTypes'
  <2>1. /\ args = [m \in Members |-> args[m]] /\ place \in Nat \ {0} /\ files \in [Creatable -> Seq(InFiles)]
    BY <1>2 DEF CommandTypes, InFiles
  <2>2. args' = [m \in Members |-> args'[m]]
    BY <1>1, <2>1
  <2>3. pc' \in {"failed", "log"} /\ text' \in {<<>>, <<"log">>}
    BY <1>1
  <2>4. QED
    BY <1>1, <1>2, <1>3, <2>1, <2>2, <2>3, TypesFollow
<1>5. pc' \in {"failed", "log"}
  BY <1>1
<1>6. OptionsRight'
  BY <1>3, <1>5, NotEnded
<1>7. LogKept(<<>>)'
  <2>1. text' # <<>> => IsSet("log_file")
    BY <1>1
  <2>2. IsSet("log_file") => Log \in Creatable /\ files[Log] = <<>>
    BY <1>2 DEF NewLog
  <2>3. QED
    BY <1>1, <2>1, <2>2 DEF LogKept, Log, IsSet
<1>8. Outputs'
  BY <1>1, <1>2, <1>3, <1>7 DEF Outputs
<1>9. QED
  BY <1>4, <1>5, <1>6, <1>8 DEF CommandInv

LEMMA ToSetMore ==
    ASSUME NEW S, NEW s \in Seq(S), NEW x
    PROVE  ToSet(Append(s, x)) = ToSet(s) \cup {x}
<1>1. PICK n : n = Len(s)
  OBVIOUS
<1>2. n \in Nat /\ DOMAIN s = 1 .. n /\ DOMAIN Append(s, x) = 1 .. n + 1
  BY <1>1
<1>3. (\A i \in 1 .. n : Append(s, x)[i] = s[i]) /\ Append(s, x)[n + 1] = x
  BY <1>1
<1>4. 1 .. n + 1 = (1 .. n) \cup {n + 1}
  BY <1>2
<1>5. QED
  BY <1>2, <1>3, <1>4 DEF ToSet

LEMMA ToSetJoin ==
    ASSUME NEW S, NEW s \in Seq(S), NEW t \in Seq(S), NEW w, w \in ToSet(s \o t)
    PROVE  w \in ToSet(s) \cup ToSet(t)
<1>1. PICK n, m : n = Len(s) /\ m = Len(t)
  OBVIOUS
<1>2. n \in Nat /\ m \in Nat /\ DOMAIN s = 1 .. n /\ DOMAIN t = 1 .. m /\ DOMAIN (s \o t) = 1 .. n + m
  BY <1>1
<1>3. PICK i \in 1 .. n + m : (s \o t)[i] = w
  BY <1>2 DEF ToSet
<1>4. CASE i <= n
  <2>1. i \in DOMAIN s /\ s[i] = w
    BY <1>1, <1>2, <1>3, <1>4
  <2>2. QED
    BY <2>1 DEF ToSet
<1>5. CASE ~(i <= n)
  <2>1. i - n \in DOMAIN t /\ t[i - n] = w
    BY <1>1, <1>2, <1>3, <1>5
  <2>2. QED
    BY <2>1 DEF ToSet
<1>6. QED
  BY <1>4, <1>5

LEMMA PartJoined ==
    ASSUME NEW S, NEW s \in Seq(S), NEW t \in Seq(S)
    PROVE  IsPart(t, s \o t)
<1>1. PICK n, m : n = Len(s) /\ m = Len(t)
  OBVIOUS
<1>2. n \in Nat /\ m \in Nat /\ Len(s \o t) = n + m
  BY <1>1
<1>3. n \in 0 .. Len(s \o t) - Len(t)
  BY <1>1, <1>2
<1>4. t = SubSeq(s \o t, n + 1, n + Len(t))
  BY <1>1, <1>2
<1>5. QED
  BY <1>3, <1>4 DEF IsPart

LEMMA PartMore ==
    ASSUME NEW S, NEW s \in Seq(S), NEW t \in Seq(S), NEW x \in S, IsPart(s, t)
    PROVE  IsPart(s, Append(t, x))
<1>1. PICK n, m : n = Len(s) /\ m = Len(t)
  OBVIOUS
<1>2. n \in Nat /\ m \in Nat /\ Len(Append(t, x)) = m + 1
  BY <1>1
<1>3. PICK k \in 0 .. m - n : s = SubSeq(t, k + 1, k + n)
  BY <1>1 DEF IsPart
<1>4. k \in 0 .. Len(Append(t, x)) - n
  BY <1>2, <1>3
<1>5. SubSeq(Append(t, x), k + 1, k + n) = SubSeq(t, k + 1, k + n)
  BY <1>1, <1>2, <1>3
<1>6. QED
  BY <1>1, <1>3, <1>4, <1>5 DEF IsPart

\* The log comes first if its file is also for the messages
LEMMA WriteLogKeeps ==
    ASSUME CommandInv, WriteLog
    PROVE  CommandInv'
<1>1. /\ pc = "log" /\ pc' = "failed" /\ command' = command /\ args' = args /\ place' = place
      /\ text' = text /\ screen' = screen /\ told' = told
      /\ files' = IF text = <<>> THEN files ELSE [files EXCEPT ![Log] = Written]
  BY DEF WriteLog, LogWritten, Log
<1>2. CommandTypes /\ LogKept(<<>>) /\ screen = <<>> /\ told \in {<<>>, <<"data">>} /\ command.program # "chkform"
  BY <1>1 DEF CommandInv, Outputs
<1>3. text # <<>> => IsSet("log_file") /\ Log \in Creatable /\ Written = <<"log">>
  <2>1. Append(<<>>, "log") = <<"log">>
    OBVIOUS
  <2>2. QED
    BY <1>2, <2>1 DEF LogKept, Written, Log
<1>4. CommandTypes'
  <2>1. /\ args = [m \in Members |-> args[m]] /\ place \in Nat \ {0} /\ told \in Seq(Said)
        /\ files \in [Creatable -> Seq(InFiles)] /\ text \in {<<>>, <<"log">>}
    BY <1>2 DEF CommandTypes, InFiles
  <2>2. <<"log">> \in Seq(InFiles)
    BY DEF InFiles
  <2>3. files' \in [Creatable -> Seq(InFiles)]
    BY <1>1, <1>3, <2>1, <2>2
  <2>4. args' = [m \in Members |-> args'[m]]
    BY <1>1, <2>1
  <2>5. QED
    BY <1>1, <1>2, <2>1, <2>3, <2>4, TypesFollow
<1>5. OptionsRight'
  BY <1>1, <1>2, NotEnded
<1>6. LogKept(<<"log">>)'
  <2>1. text # <<>> => files'[Log] = <<"log">>
    BY <1>1, <1>2, <1>3 DEF CommandTypes
  <2>2. QED
    BY <1>1, <1>3, <2>1 DEF LogKept, Log, IsSet
<1>7. Outputs'
  BY <1>1, <1>2, <1>6 DEF Outputs
<1>8. QED
  BY <1>1, <1>4, <1>5, <1>7 DEF CommandInv

LEMMA ToldIsNew ==
    ASSUME CommandTypes
    PROVE  "old" \notin ToSet(told)
<1>1. "old" \notin Said
  BY CommandIs DEF CommandTypes, Said, Words
<1>2. \A i \in DOMAIN told : told[i] \in Said
  BY DEF CommandTypes
<1>3. QED
  BY <1>1, <1>2 DEF ToSet

LEMMA ShowKeeps ==
    ASSUME CommandInv, ShowMessages
    PROVE  CommandInv'
<1> DEFINE E == args["error_log"]
<1>1. /\ pc = "failed" /\ command' = command /\ args' = args /\ place' = place /\ text' = text /\ told' = told
      /\ files' = IF told # <<>> /\ E \in Creatable THEN [files EXCEPT ![E] = files[E] \o told] ELSE files
      /\ screen' = IF told # <<>> /\ ~IsSet("log_file") THEN told ELSE screen
      /\ pc' = IF command.program = "chkform" THEN "last" ELSE "end"
  BY DEF ShowMessages
<1>2. /\ CommandTypes /\ screen = <<>>
      /\ LogKept(IF command.program = "chkform" THEN <<>> ELSE <<"log">>)
  BY <1>1 DEF CommandInv, Outputs
<1> HIDE DEF E
<1>3. /\ args = [m \in Members |-> args[m]] /\ place \in Nat \ {0} /\ told \in Seq(Said) /\ told \in Seq(InFiles)
      /\ files \in [Creatable -> Seq(InFiles)] /\ text \in {<<>>, <<"log">>}
  <2>1. told \in Seq(Said) /\ Said \subseteq InFiles
    BY <1>2 DEF CommandTypes, InFiles
  <2>2. told \in Seq(InFiles)
    BY <2>1, SeqMore
  <2>3. QED
    BY <1>2, <2>2 DEF CommandTypes, InFiles
<1>4. CommandTypes'
  <2>1. files' \in [Creatable -> Seq(InFiles)]
    <3>1. E \in Creatable => files[E] \o told \in Seq(InFiles)
      BY <1>3
    <3>2. QED
      BY <1>1, <1>3, <3>1
  <2>2. args' = [m \in Members |-> args'[m]]
    BY <1>1, <1>3
  <2>3. pc' \in {"last", "end"}
    BY <1>1
  <2>4. QED
    BY <1>1, <1>2, <1>3, <2>1, <2>2, <2>3, TypesFollow
<1>5. pc' \in {"last", "end"}
  BY <1>1
<1>6. OptionsRight'
  BY <1>5, NotEnded
<1>7. ToldKept'
  <2>1. CASE told = <<>>
    BY <1>1, <1>2, <2>1 DEF ToldKept
  <2>2. CASE told # <<>> /\ ~IsSet("log_file")
    BY <1>1, <2>2 DEF ToldKept
  <2>3. CASE told # <<>> /\ IsSet("log_file") /\ E \notin Creatable
    BY <1>1, <2>3 DEF ToldKept, IsSet, E
  <2>4. CASE told # <<>> /\ E \in Creatable
    <3>1. files'[E] = files[E] \o told /\ files[E] \in Seq(InFiles)
      BY <1>1, <1>3, <2>4
    <3>2. IsPart(told, files'[E])
      BY <1>3, <3>1, PartJoined
    <3>3. QED
      BY <1>1, <2>4, <3>2 DEF ToldKept, E
  <2>5. QED
    BY <2>1, <2>2, <2>3, <2>4
<1>8. ASSUME text # <<>>
      PROVE  /\ IsSet("log_file") /\ Log \in Creatable /\ "old" \notin ToSet(files'[Log])
             /\ command.program # "chkform" => "log" \in ToSet(files'[Log])
  <2>1. /\ IsSet("log_file") /\ Log \in Creatable
        /\ files[Log] = IF command.program = "chkform" THEN <<>> ELSE <<"log">>
    BY <1>2, <1>8 DEF LogKept
  <2>2. files'[Log] \in {files[Log], files[Log] \o told}
    <3>1. CASE Log = E
      BY <1>1, <1>3, <2>1, <3>1
    <3>2. CASE Log # E
      BY <1>1, <1>3, <2>1, <3>2
    <3>3. QED
      BY <3>1, <3>2
  <2>3. files[Log] \in Seq(InFiles)
    BY <1>3, <2>1
  <2>4. "old" \notin ToSet(files[Log])
    <3>1. ToSet(<<>>) = {} /\ ToSet(<<"log">>) = {"log"}
      BY ToSetOne
    <3>2. "old" \notin {"log"}
      OBVIOUS
    <3>3. QED
      BY <2>1, <3>1, <3>2
  <2>5. "old" \notin ToSet(files[Log] \o told)
    BY <1>2, <1>3, <2>3, <2>4, ToSetJoin, ToldIsNew
  <2>6. ASSUME command.program # "chkform" PROVE "log" \in ToSet(files'[Log])
    <3>1. files[Log] = <<"log">>
      BY <2>1, <2>6
    <3>2. files'[Log][1] = "log" /\ 1 \in DOMAIN files'[Log]
      BY <1>3, <2>2, <3>1
    <3>3. QED
      BY <3>2 DEF ToSet
  <2>7. QED
    BY <2>1, <2>2, <2>4, <2>5, <2>6
<1>9. Outputs'
  <2>1. /\ pc' = "last" => (text' # <<>> => IsSet("log_file")' /\ Log' \in Creatable /\ "old" \notin ToSet(files'[Log']))
        /\ pc' = "end" => LogThere'
    BY <1>1, <1>8 DEF LogThere, Log, IsSet
  <2>2. QED
    BY <1>5, <1>7, <2>1 DEF Outputs
<1>10. QED
  BY <1>4, <1>5, <1>6, <1>9 DEF CommandInv

LEMMA WriteLastKeeps ==
    ASSUME CommandInv, WriteLogLast
    PROVE  CommandInv'
<1>1. /\ pc = "last" /\ pc' = "end" /\ command' = command /\ args' = args /\ place' = place
      /\ text' = text /\ screen' = screen /\ told' = told
      /\ files' = IF text = <<>> THEN files ELSE [files EXCEPT ![Log] = Written]
      /\ Written = IF args["error_log"] = Log THEN Append(files[Log], "log") ELSE <<"log">>
  BY DEF WriteLogLast, LogWritten, Log, Written
<1>2. /\ CommandTypes /\ ToldKept
      /\ text # <<>> => IsSet("log_file") /\ Log \in Creatable /\ "old" \notin ToSet(files[Log])
  BY <1>1 DEF CommandInv, Outputs
<1>3. /\ args = [m \in Members |-> args[m]] /\ place \in Nat \ {0} /\ told \in Seq(Said) /\ told \in Seq(InFiles)
      /\ files \in [Creatable -> Seq(InFiles)] /\ text \in {<<>>, <<"log">>}
  <2>1. told \in Seq(Said) /\ Said \subseteq InFiles
    BY <1>2 DEF CommandTypes, InFiles
  <2>2. told \in Seq(InFiles)
    BY <2>1, SeqMore
  <2>3. QED
    BY <1>2, <2>2 DEF CommandTypes, InFiles
<1>4. "log" \in InFiles /\ <<"log">> \in Seq(InFiles)
  BY DEF InFiles
<1>5. CommandTypes'
  <2>1. Log \in Creatable => Written \in Seq(InFiles)
    BY <1>1, <1>3, <1>4
  <2>2. files' \in [Creatable -> Seq(InFiles)]
    BY <1>1, <1>2, <1>3, <2>1
  <2>3. args' = [m \in Members |-> args'[m]]
    BY <1>1, <1>3
  <2>4. QED
    BY <1>1, <1>2, <1>3, <2>2, <2>3, TypesFollow
<1>6. OptionsRight'
  BY <1>1, NotEnded
<1>7. LogThere'
  <2>1. ASSUME text # <<>> PROVE "log" \in ToSet(files'[Log]) /\ "old" \notin ToSet(files'[Log])
    <3>1. files'[Log] = Written /\ files[Log] \in Seq(InFiles)
      BY <1>1, <1>2, <1>3, <2>1
    <3>2. ToSet(Written) \subseteq ToSet(files[Log]) \cup {"log"} /\ "log" \in ToSet(Written)
      <4>1. ToSet(Append(files[Log], "log")) = ToSet(files[Log]) \cup {"log"} /\ ToSet(<<"log">>) = {"log"}
        BY <3>1, ToSetMore, ToSetOne
      <4>2. QED
        BY <1>1, <4>1
    <3>3. "old" # "log"
      OBVIOUS
    <3>4. QED
      BY <1>2, <2>1, <3>1, <3>2, <3>3
  <2>2. QED
    BY <1>1, <2>1 DEF LogThere, Log
<1>8. ToldKept'
  <2> DEFINE E == args["error_log"]
  <2>1. SUFFICES ASSUME E \in Creatable, IsPart(told, files[E]) PROVE IsPart(told, files'[E])
    BY <1>1, <1>2 DEF ToldKept, IsSet
  <2>2. CASE text # <<>> /\ E = Log
    <3>1. files'[E] = Append(files[E], "log") /\ files[E] \in Seq(InFiles)
      BY <1>1, <1>3, <2>1, <2>2
    <3>2. QED
      BY <1>3, <1>4, <2>1, <3>1, PartMore
  <2>3. CASE text = <<>> \/ E # Log
    BY <1>1, <1>3, <2>1, <2>3
  <2>4. QED
    BY <2>2, <2>3
<1>9. Outputs'
  BY <1>1, <1>7, <1>8 DEF Outputs
<1>10. QED
  BY <1>1, <1>5, <1>6, <1>9 DEF CommandInv

LEMMA CommandBegins == CommandInit => CommandInv
<1>1. SUFFICES ASSUME CommandInit PROVE CommandInv
  OBVIOUS
<1>2. /\ command \in Commands /\ place = 1 /\ told = <<>> /\ pc = "parse" /\ text = <<>> /\ screen = <<>>
      /\ files = [f \in Creatable |-> <<"old">>]
      /\ args = [StdArgs EXCEPT !["is_stdin_redirected"] = IF command.words = <<>> /\ command.redirected THEN "set" ELSE Nil]
  BY <1>1 DEF CommandInit
<1>3. DOMAIN args = Members /\ args = [m \in Members |-> args[m]] /\ \A m \in Arguments : args[m] = Nil
  BY <1>2 DEF StdArgs, Arguments
<1>4. CommandTypes
  <2>1. <<"old">> \in Seq(InFiles) /\ <<>> \in Seq(Said)
    BY DEF InFiles
  <2>2. files \in [Creatable -> Seq(InFiles)]
    BY <1>2, <2>1
  <2>3. command \in Commands /\ place \in Nat \ {0} /\ told \in Seq(Said)
    BY <1>2, <2>1
  <2>4. text \in {<<>>, <<"log">>} /\ pc \in {"parse", "check", "work", "log", "failed", "last", "end"}
    BY <1>2
  <2>5. QED
    BY <1>3, <2>2, <2>3, <2>4 DEF CommandTypes, InFiles
<1>5. Parsing
  <2>1. 0 \in 0 .. Len(Settings) /\ command.starts[0 + 1] = 1
    BY <1>2, CommandIs DEF Settings
  <2>2. GoodBy(0)
    BY DEF GoodBy
  <2>3. Taken(0)
    BY <1>2, <1>3, <2>2, MeantFirst DEF Taken
  <2>4. Past(0)
    BY <1>2, <2>1 DEF Past
  <2>5. QED
    BY <2>1, <2>3, <2>4 DEF Parsing
<1>6. Outputs
  <2>1. args["log_file"] = Nil
    BY <1>3, MembersAre DEF Arguments
  <2>2. QED
    BY <1>2, <2>1 DEF Outputs, NewLog, IsSet
<1>7. OptionsRight
  BY <1>2 DEF OptionsRight, ParseEnded
<1>8. QED
  BY <1>4, <1>5, <1>6, <1>7 DEF CommandInv

\* While the command line is read the arguments are what its settings say so far, and the log's file
\* stays new until the log is in it.
THEOREM CommandInvariant == CommandSpec => []CommandInv
<1>1. CommandInv /\ [CommandNext]_commandVars => CommandInv'
  <2>1. SUFFICES ASSUME CommandInv, [CommandNext]_commandVars PROVE CommandInv'
    OBVIOUS
  <2>2. CASE Reads
    <3>1. CommandTypes /\ Outputs /\ Parsing
      BY <2>1, <2>2, ReadsIs DEF CommandInv
    <3>2. pc' = "parse"
      BY <2>2, ReadsIs
    <3>3. OptionsRight'
      BY <3>2, NotEnded
    <3>4. QED
      BY <2>2, <3>1, <3>3, ReadsTypes, ReadsOutputs, ParsingGoesOn DEF CommandInv
  <2>3. CASE FinishParse
    BY <2>1, <2>3, FinishesKeeps
  <2>4. CASE Check
    BY <2>1, <2>4, CheckKeeps
  <2>5. CASE Work
    BY <2>1, <2>5, WorkKeeps
  <2>6. CASE WriteLog
    BY <2>1, <2>6, WriteLogKeeps
  <2>7. CASE ShowMessages
    BY <2>1, <2>7, ShowKeeps
  <2>8. CASE WriteLogLast
    BY <2>1, <2>8, WriteLastKeeps
  <2>9. CASE UNCHANGED commandVars
    <3> USE <2>1, <2>9 DEF commandVars
    <3>1. CommandTypes' /\ (pc = "parse" => Parsing)' /\ Outputs'
      <4>1. CommandTypes'
        BY DEF CommandInv, CommandTypes, Said, Words
      <4>2. (pc = "parse" => Parsing)'
        BY DEF CommandInv, Parsing, Past, Taken, GoodBy, FrontComplete, Settings, Words
      <4>3. /\ NewLog' <=> NewLog
            /\ LogThere' <=> LogThere
            /\ ToldKept' <=> ToldKept
            /\ \A f : LogKept(f)' <=> LogKept(f)
        BY DEF NewLog, Log, LogKept, LogThere, ToldKept, IsSet
      <4>4. Outputs'
        BY <4>3 DEF CommandInv, Outputs, Log, IsSet
      <4>5. QED
        BY <4>1, <4>2, <4>4
    <3>2. OptionsRight'
      BY DEF CommandInv, OptionsRight, ParseEnded, Complete, FrontComplete, AllGood, HasData, Meant, Settings, Words
    <3>3. QED
      BY <3>1, <3>2 DEF CommandInv
  <2>10. QED
    BY <2>1, <2>2, <2>3, <2>4, <2>5, <2>6, <2>7, <2>8, <2>9 DEF CommandNext, Reads
<1>2. QED
  BY <1>1, CommandBegins, PTL DEF CommandSpec

\* For any command line: it is taken just if all its values will do, every argument is then what the
\* last option for it says, and the log and the messages are kept, also if they go to one file
\* (parse_command_line, the main functions, err_disp).
THEOREM CommandsAreRight == CommandSpec => []CommandsRight
<1>1. CommandInv => CommandsRight
  <2>1. SUFFICES ASSUME CommandInv PROVE CommandsRight
    OBVIOUS
  <2>2. OptionsRight
    BY <2>1 DEF CommandInv
  <2>3. pc = "end" => LogThere /\ ToldKept
    BY <2>1 DEF CommandInv, Outputs
  <2>4. OutputsKept
    BY <2>3 DEF OutputsKept, LogThere, ToldKept, IsPart, Log
  <2>5. QED
    BY <2>2, <2>4 DEF CommandsRight
<1>2. QED
  BY <1>1, CommandInvariant, PTL
=============================================================================
