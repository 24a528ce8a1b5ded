----------------------------- MODULE ReaderProofs -----------------------------
(***************************************************************************)
(* Proofs about Readers, for any config.yaml, settings, workflow.md, task  *)
(* and versions, of any length, and the lemmas about sequences that the    *)
(* proofs about the hooks (HookProofs) need as well.                       *)
(*                                                                         *)
(* A behaviour of Readers stays at its input, so that what holds of every  *)
(* input holds always.  What is proved of an input is what the functions   *)
(* of the scripts, which go through it line by line, return for it.        *)
(***************************************************************************)
EXTENDS Readers, FiniteSetTheorems, SequenceTheorems, TLAPS

-----------------------------------------------------------------------------
(* Induction up to n, functions that are defined by recursion on it, and   *)
(* sequences put together.                                                 *)

\* Of finitely many subsets of a finite set one is minimal.
LEMMA Minimal ==
  ASSUME NEW S, IsFiniteSet(S), NEW F \in SUBSET SUBSET S, F # {}
  PROVE  \E x \in F : \A y \in F : y \subseteq x => y = x
<1>1. F \subseteq FiniteSubsetsOf(S)
  BY FS_FiniteSubsetsOfFinite
<1>2. \E x \in F : \A y \in F : ~(<<y, x>> \in StrictSubsetOrdering(S))
  BY <1>1, FS_StrictSubsetOrderingWellFounded, WFMin
<1> QED
  BY <1>2 DEF StrictSubsetOrdering

\* By a minimal counterexample, as the theorems of the library take predicates.
LEMMA UpTo ==
  ASSUME NEW N \in Nat, NEW S, 0 \in S, \A n \in 0 .. N : n \in S /\ n < N => n + 1 \in S
  PROVE  0 .. N \subseteq S
<1> DEFINE F == {T \in SUBSET (0 .. N) : \E n \in (0 .. N) \ S : T = 0 .. n}
<1> SUFFICES ASSUME NEW b \in (0 .. N) \ S PROVE FALSE
  OBVIOUS
<1>1. 0 .. b \in F
  OBVIOUS
<1>2. IsFiniteSet(0 .. N)
  BY FS_Interval
<1>3. PICK T \in F : \A y \in F : y \subseteq T => y = T
  <2> DEFINE A == 0 .. N
  <2>1. IsFiniteSet(A) /\ F \in SUBSET SUBSET A /\ F # {}
    BY <1>1, <1>2
  <2> HIDE DEF F, A
  <2> QED
    BY <2>1, Minimal
<1>5. PICK n \in (0 .. N) \ S : T = 0 .. n
  BY <1>3
<1>6. n - 1 \in (0 .. N) \ S
  <2>1. n # 0 /\ n - 1 \in 0 .. N /\ n - 1 < N /\ (n - 1) + 1 = n
    BY <1>5
  <2> QED
    BY <1>5, <2>1
<1>7. 0 .. n - 1 \in F /\ 0 .. n - 1 \subseteq T /\ n \in T /\ n \notin 0 .. n - 1
  BY <1>5, <1>6
<1> QED
  BY <1>3, <1>7

\* f starts with base and goes from f[i - 1] to f[i] by a step.
Recursion(f, n, base, step) == f = [i \in 0 .. n |-> IF i = 0 THEN base ELSE step[<<i, f[i - 1]>>]]

\* A function on 0 .. n may be defined by recursion on its argument.
LEMMA RecursionExists ==
  ASSUME NEW n \in Nat, NEW V, NEW base \in V, NEW step \in [(1 .. n) \X V -> V]
  PROVE  \E f \in [0 .. n -> V] : Recursion(f, n, base, step)
<1> DEFINE S == {k \in 0 .. n : \E f \in [0 .. k -> V] : Recursion(f, k, base, step)}
<1>1. 0 \in S
  <2> DEFINE f == [i \in 0 .. 0 |-> base]
  <2>1. f \in [0 .. 0 -> V] /\ Recursion(f, 0, base, step)
    BY DEF Recursion
  <2> HIDE DEF f
  <2> QED
    BY <2>1
<1>2. ASSUME NEW k \in 0 .. n, k \in S, k < n PROVE k + 1 \in S
  <2>1. PICK f \in [0 .. k -> V] : Recursion(f, k, base, step)
    BY <1>2
  <2> DEFINE g == [i \in 0 .. k + 1 |-> IF i <= k THEN f[i] ELSE step[<<i, f[k]>>]]
  <2>2. k + 1 \in 1 .. n /\ f[k] \in V /\ step[<<k + 1, f[k]>>] \in V
    BY <1>2
  <2>3. \A i \in 0 .. k + 1 : (i <= k => i \in 0 .. k) /\ (~(i <= k) => i = k + 1)
    BY <1>2
  <2>4. g \in [0 .. k + 1 -> V]
    BY <2>2, <2>3
  <2>5. \A i \in 0 .. k + 1 : g[i] = IF i = 0 THEN base ELSE step[<<i, g[i - 1]>>]
    <3> SUFFICES ASSUME NEW i \in 0 .. k + 1 PROVE g[i] = IF i = 0 THEN base ELSE step[<<i, g[i - 1]>>]
      OBVIOUS
    <3>1. CASE i = 0
      BY <2>1, <3>1 DEF Recursion
    <3>2. CASE i # 0
      <4>1. i - 1 \in 0 .. k /\ g[i - 1] = f[i - 1]
        BY <3>2
      <4>2. CASE i <= k
        <5>1. i \in 0 .. k /\ g[i] = f[i]
          BY <4>2
        <5>2. f[i] = step[<<i, f[i - 1]>>]
          BY <2>1, <3>2, <5>1 DEF Recursion
        <5> QED
          BY <3>2, <4>1, <5>1, <5>2
      <4>3. CASE ~(i <= k)
        <5>1. i = k + 1 /\ i - 1 = k
          BY <4>3
        <5>2. g[i] = step[<<i, f[k]>>]
          BY <4>3
        <5>3. g[i - 1] = f[k]
          BY <4>1, <5>1
        <5> QED
          BY <3>2, <5>2, <5>3
      <4> QED
        BY <4>2, <4>3
    <3> QED
      BY <3>1, <3>2
  <2>6. Recursion(g, k + 1, base, step)
    BY <2>5 DEF Recursion
  <2>7. k + 1 \in 0 .. n
    BY <1>2
  <2> HIDE DEF g
  <2> QED
    BY <2>4, <2>6, <2>7
<1>3. n \in S
  <2> HIDE DEF S
  <2> QED
    BY <1>1, <1>2, UpTo
<1> QED
  BY <1>3

\* A set of numbers up to n has a last one.
LEMMA LastOf ==
  ASSUME NEW n \in Nat, NEW T \in SUBSET (1 .. n), T # {}
  PROVE  \E m \in T : \A j \in T : j <= m
<1> DEFINE S == {k \in 0 .. n : (\E j \in T : j <= k) => \E m \in T : \A j \in T : j <= k => j <= m}
<1>1. 0 \in S
  OBVIOUS
<1>2. ASSUME NEW k \in 0 .. n, k \in S, k < n PROVE k + 1 \in S
  <2>1. k + 1 \in 0 .. n /\ \A j \in T : j \in Int /\ (j <= k + 1 <=> j <= k \/ j = k + 1)
    BY <1>2
  <2>2. CASE k + 1 \in T
    <3>1. \A j \in T : j <= k + 1 => j <= k + 1
      OBVIOUS
    <3> QED
      BY <2>1, <2>2, <3>1
  <2>3. CASE k + 1 \notin T
    BY <1>2, <2>1, <2>3
  <2> QED
    BY <2>2, <2>3
<1>3. n \in S
  <2>1. n \in 0 .. n
    OBVIOUS
  <2> HIDE DEF S
  <2> QED
    BY <1>1, <1>2, <2>1, UpTo
<1>4. \A j \in T : j <= n
  OBVIOUS
<1> QED
  BY <1>3, <1>4

\* A set of places that is not empty has a first one.
LEMMA FirstOf ==
  ASSUME NEW n \in Nat, NEW T \in SUBSET (1 .. n), T # {}
  PROVE  \E m \in T : \A j \in T : m <= j
<1> DEFINE R == {n + 1 - j : j \in T}
<1>0. \A j \in T : j \in 1 .. n /\ n + 1 - j \in 1 .. n
  OBVIOUS
<1>1. R \in SUBSET (1 .. n) /\ R # {}
  BY <1>0
<1>2. PICK r \in R : \A j \in R : j <= r
  <2> HIDE DEF R
  <2> QED
    BY <1>1, LastOf
<1>3. PICK m \in T : r = n + 1 - m
  BY <1>2
<1>4. ASSUME NEW j \in T PROVE m <= j
  <2>1. n + 1 - j <= n + 1 - m
    BY <1>2, <1>3
  <2>2. j \in Int /\ m \in Int
    BY <1>0
  <2> QED
    BY <2>1, <2>2
<1> QED
  BY <1>4

\* The empty sequence adds nothing.
LEMMA NoneAdded == ASSUME NEW V, NEW a \in Seq(V) PROVE a \o <<>> = a /\ <<>> \o a = a
OBVIOUS

\* Sequences are put together in any grouping.
LEMMA Associate ==
  ASSUME NEW V, NEW a \in Seq(V), NEW b \in Seq(V), NEW c \in Seq(V),
         NEW x, NEW y, x = a \o b, y = b \o c
  PROVE  x \o c = a \o y
BY SMTT(40)

\* c is a, followed by b.
IsCat(a, b, c) ==
  /\ Len(c) = Len(a) + Len(b)
  /\ \A i \in 1 .. Len(a) : c[i] = a[i]
  /\ \A i \in 1 .. Len(b) : c[Len(a) + i] = b[i]

\* A sequence that has the elements of a and then those of b is a \o b.
LEMMA CatIs ==
  ASSUME NEW W, NEW a \in Seq(W), NEW b \in Seq(W), NEW c \in Seq(W), IsCat(a, b, c)
  PROVE  c = a \o b
<1> USE DEF IsCat
<1>1. Len(a) \in Nat /\ Len(b) \in Nat /\ a \o b \in Seq(W) /\ Len(a \o b) = Len(a) + Len(b)
  OBVIOUS
<1>2. ASSUME NEW i \in 1 .. Len(a) + Len(b) PROVE (a \o b)[i] = c[i]
  <2>1. CASE i \in 1 .. Len(a)
    BY <1>1, <2>1
  <2>2. CASE i \notin 1 .. Len(a)
    <3>1. i - Len(a) \in 1 .. Len(b) /\ Len(a) + (i - Len(a)) = i
      BY <1>1, <2>2
    <3>2. c[i] = b[i - Len(a)]
      BY <3>1
    <3> QED
      BY <1>1, <2>2, <3>1, <3>2
  <2> QED
    BY <2>1, <2>2
<1> DEFINE d == a \o b
<1> HIDE DEF d
<1>3. d = c
  BY <1>1, <1>2, SeqEqual DEF d
<1> QED
  BY <1>3 DEF d

Flattens(f, ss) == f = [i \in 1 .. Len(ss) |-> IF i = 1 THEN ss[i] ELSE f[i - 1] \o ss[i]]

\* f[i] is what the first i sequences are put together to.
Joins(f, ss) == f = [i \in 0 .. Len(ss) |-> IF i = 0 THEN <<>> ELSE f[i - 1] \o ss[i]]

Joined(ss)   == CHOOSE f : Joins(f, ss)

\* The first sequences of ss put together, for every number of them.
LEMMA JoinedIs ==
  ASSUME NEW V, NEW ss \in Seq(Seq(V))
  PROVE  Joined(ss) \in [0 .. Len(ss) -> Seq(V)] /\ Joins(Joined(ss), ss)
<1> DEFINE n == Len(ss)
           step == [p \in (1 .. n) \X Seq(V) |-> p[2] \o ss[p[1]]]
<1>1. n \in Nat /\ \A i \in 1 .. n : ss[i] \in Seq(V)
  OBVIOUS
<1>2. step \in [(1 .. n) \X Seq(V) -> Seq(V)]
  BY <1>1
<1>3. <<>> \in Seq(V)
  OBVIOUS
<1>4. PICK f \in [0 .. n -> Seq(V)] : Recursion(f, n, <<>>, step)
  <2> HIDE DEF step, n
  <2> QED
    BY <1>1, <1>2, <1>3, RecursionExists
<1>5. ASSUME NEW i \in 0 .. n, i # 0 PROVE step[<<i, f[i - 1]>>] = f[i - 1] \o ss[i]
  <2>1. i \in 1 .. n /\ i - 1 \in 0 .. n
    BY <1>1, <1>5
  <2>2. <<i, f[i - 1]>> \in (1 .. n) \X Seq(V)
    BY <1>4, <2>1
  <2> QED
    BY <2>2
<1>6. Joins(f, ss)
  BY <1>4, <1>5 DEF Recursion, Joins
<1>7. Joins(Joined(ss), ss)
  BY <1>6 DEF Joined
<1> DEFINE g == Joined(ss)
           S == {i \in 0 .. n : g[i] \in Seq(V)}
<1>8. \A i \in 0 .. n : g[i] = IF i = 0 THEN <<>> ELSE g[i - 1] \o ss[i]
  BY <1>7 DEF Joins
<1>12. g = [i \in 0 .. n |-> g[i]]
  BY <1>7 DEF Joins
<1> HIDE DEF g, n
<1>9. 0 \in S
  <2>1. 0 \in 0 .. n /\ g[0] = <<>>
    BY <1>1, <1>8
  <2> QED
    BY <1>3, <2>1
<1>10. ASSUME NEW i \in 0 .. n, i \in S, i < n PROVE i + 1 \in S
  <2>1. i + 1 \in 0 .. n /\ i + 1 \in 1 .. n /\ i + 1 # 0 /\ (i + 1) - 1 = i
    BY <1>1, <1>10
  <2>2. g[i + 1] = g[i] \o ss[i + 1]
    BY <1>8, <2>1
  <2>3. g[i] \in Seq(V) /\ ss[i + 1] \in Seq(V)
    BY <1>1, <1>10, <2>1
  <2>4. g[i] \o ss[i + 1] \in Seq(V)
    BY <2>3
  <2> QED
    BY <2>1, <2>2, <2>4
<1>11. 0 .. n \subseteq S
  <2> HIDE DEF S
  <2> QED
    BY <1>1, <1>9, <1>10, UpTo
<1> QED
  BY <1>7, <1>11, <1>12 DEF g, n

\* FlattenSeq is what all of them are put together to.
LEMMA FlattenIs ==
  ASSUME NEW V, NEW ss \in Seq(Seq(V))
  PROVE  FlattenSeq(ss) = Joined(ss)[Len(ss)] /\ FlattenSeq(ss) \in Seq(V)
<1> DEFINE n == Len(ss)
           g == Joined(ss)
<1>1. n \in Nat /\ \A i \in 1 .. n : ss[i] \in Seq(V)
  OBVIOUS
<1>2. g \in [0 .. n -> Seq(V)] /\ Joins(g, ss)
  BY JoinedIs
<1>3. \A i \in 0 .. n : g[i] = IF i = 0 THEN <<>> ELSE g[i - 1] \o ss[i]
  BY <1>2 DEF Joins
<1> HIDE DEF g
<1>4. CASE n = 0
  <2>1. ss = <<>> /\ FlattenSeq(ss) = ss
    BY <1>4 DEF FlattenSeq
  <2>2. g[n] = <<>> /\ <<>> \in Seq(V)
    BY <1>1, <1>3, <1>4
  <2> QED
    BY <2>1, <2>2 DEF g
<1>5. CASE n # 0
  <2> DEFINE f == CHOOSE x : Flattens(x, ss)
  <2>1. FlattenSeq(ss) = f[n]
    BY <1>1, <1>5 DEF FlattenSeq, Flattens
  <2>2. Flattens([i \in 1 .. n |-> g[i]], ss)
    <3> DEFINE h == [i \in 1 .. n |-> g[i]]
    <3>1. ASSUME NEW i \in 1 .. n PROVE h[i] = IF i = 1 THEN ss[i] ELSE h[i - 1] \o ss[i]
      <4>0. i \in 0 .. n /\ i # 0
        BY <1>1
      <4>1. h[i] = g[i - 1] \o ss[i]
        BY <1>3, <4>0
      <4>2. CASE i = 1
        <5>1. g[i - 1] = <<>> /\ ss[i] \in Seq(V)
          BY <1>1, <1>3, <4>2, SMTT(40)
        <5> QED
          BY <4>1, <4>2, <5>1
      <4>3. CASE i # 1
        <5>1. i - 1 \in 1 .. n /\ h[i - 1] = g[i - 1]
          BY <4>3
        <5> QED
          BY <4>1, <4>3, <5>1
      <4> QED
        BY <4>2, <4>3
    <3> QED
      BY <3>1 DEF Flattens
  <2>3. Flattens(f, ss)
    BY <2>2
  <2>4. \A i \in 1 .. n : f[i] = IF i = 1 THEN ss[i] ELSE f[i - 1] \o ss[i]
    BY <2>3 DEF Flattens
  <2> DEFINE S == {i \in 0 .. n : i # 0 => f[i] = g[i]}
  <2> HIDE DEF f, n
  <2>5. 0 \in S
    BY <1>1
  <2>6. ASSUME NEW i \in 0 .. n, i \in S, i < n PROVE i + 1 \in S
    <3>1. i + 1 \in 0 .. n /\ i + 1 \in 1 .. n /\ (i + 1) - 1 = i /\ i + 1 # 0
      BY <1>1, <2>6
    <3>2. g[i + 1] = g[i] \o ss[i + 1]
      BY <1>3, <3>1
    <3>3. CASE i = 0
      <4>1. g[0] = <<>> /\ ss[1] \in Seq(V) /\ f[1] = ss[1]
        BY <1>1, <1>3, <2>4, <3>1, <3>3
      <4> QED
        BY <3>1, <3>2, <3>3, <4>1
    <3>4. CASE i # 0
      <4>0. i + 1 # 1
        BY <3>4
      <4>1. f[i + 1] = f[i] \o ss[i + 1]
        <5> HIDE DEF S
        <5> QED
          BY <2>4, <3>1, <4>0
      <4> QED
        BY <2>6, <3>1, <3>2, <3>4, <4>1
    <3> QED
      BY <3>3, <3>4
  <2>7. n \in S
    <3>1. 0 .. n \subseteq S
      <4> HIDE DEF S
      <4> QED
        BY <1>1, <2>5, <2>6, UpTo
    <3>2. n \in 0 .. n
      BY <1>1
    <3> HIDE DEF S
    <3> QED
      BY <3>1, <3>2
  <2>8. g[n] \in Seq(V)
    BY <1>1, <1>2
  <2> QED
    BY <1>5, <2>1, <2>7, <2>8 DEF g, n
<1> QED
  BY <1>4, <1>5

\* One sequence more is put at the end.
LEMMA JoinedStep ==
  ASSUME NEW V, NEW ss \in Seq(Seq(V))
  PROVE  /\ Joined(ss)[0] = <<>> /\ \A i \in 0 .. Len(ss) : Joined(ss)[i] \in Seq(V)
         /\ \A i \in 1 .. Len(ss) : Joined(ss)[i] = Joined(ss)[i - 1] \o ss[i]
<1> DEFINE g == Joined(ss)
<1>1. Len(ss) \in Nat
  OBVIOUS
<1>2. g \in [0 .. Len(ss) -> Seq(V)] /\ Joins(g, ss)
  BY JoinedIs
<1>3. \A i \in 0 .. Len(ss) : g[i] = IF i = 0 THEN <<>> ELSE g[i - 1] \o ss[i]
  BY <1>2 DEF Joins
<1> HIDE DEF g
<1>4. g[0] = <<>>
  BY <1>1, <1>3
<1>5. \A i \in 1 .. Len(ss) : i \in 0 .. Len(ss) /\ i # 0
  BY <1>1
<1>6. \A i \in 1 .. Len(ss) : g[i] = g[i - 1] \o ss[i]
  BY <1>3, <1>5
<1> QED
  BY <1>2, <1>4, <1>6 DEF g

\* The first i elements of a sequence, and the next one.
LEMMA Prefix ==
  ASSUME NEW W, NEW s \in Seq(W)
  PROVE  /\ SubSeq(s, 1, 0) = <<>> /\ SubSeq(s, 1, Len(s)) = s
         /\ \A i \in 0 .. Len(s) : SubSeq(s, 1, i) \in Seq(W) /\ Len(SubSeq(s, 1, i)) = i
         /\ \A i \in 1 .. Len(s) : SubSeq(s, 1, i) = SubSeq(s, 1, i - 1) \o <<s[i]>>
<1>1. Len(s) \in Nat
  OBVIOUS
<1>2. ASSUME NEW i \in 0 .. Len(s) PROVE SubSeq(s, 1, i) \in Seq(W) /\ Len(SubSeq(s, 1, i)) = i
  <2>1. \A j \in 1 .. i : s[j] \in W
    BY <1>1
  <2> QED
    BY <1>1, <2>1, SubSeqProperties
<1>3. SubSeq(s, 1, 0) = <<>>
  BY <1>1, SubSeqProperties
<1>4. SubSeq(s, 1, Len(s)) = s
  BY <1>1, SubSeqProperties
<1>5. ASSUME NEW i \in 1 .. Len(s) PROVE SubSeq(s, 1, i) = SubSeq(s, 1, i - 1) \o <<s[i]>>
  <2>1. i - 1 \in 0 .. Len(s) /\ i \in 0 .. Len(s) /\ s[i] \in W
    BY <1>1
  <2> DEFINE a == SubSeq(s, 1, i - 1)
             b == <<s[i]>>
             c == SubSeq(s, 1, i)
  <2>2. a \in Seq(W) /\ b \in Seq(W) /\ c \in Seq(W) /\ Len(a) = i - 1 /\ Len(b) = 1 /\ Len(c) = i
    BY <1>2, <2>1
  <2>3. (\A j \in 1 .. i - 1 : a[j] = s[j]) /\ b[1] = s[i] /\ \A j \in 1 .. i : c[j] = s[j]
    BY <1>1, <2>1, SubSeqProperties
  <2> HIDE DEF a, b, c
  <2>4. IsCat(a, b, c)
    BY <2>2, <2>3 DEF IsCat
  <2>6. c = a \o b
    BY <2>2, <2>4, CatIs, Zenon
  <2> QED
    BY <2>6 DEF a, b, c
<1> QED
  BY <1>2, <1>3, <1>4, <1>5

\* Where the elements of a and b are in a \o b.
LEMMA CatAt ==
  ASSUME NEW W, NEW a \in Seq(W), NEW b \in Seq(W), NEW c, c = a \o b
  PROVE  c \in Seq(W) /\ Len(c) = Len(a) + Len(b) /\ IsCat(a, b, c)
<1>1. Len(a) \in Nat /\ Len(b) \in Nat /\ a \o b \in Seq(W) /\ Len(a \o b) = Len(a) + Len(b)
  OBVIOUS
<1>2. ASSUME NEW i \in 1 .. Len(a) PROVE (a \o b)[i] = a[i]
  OBVIOUS
<1>3. ASSUME NEW i \in 1 .. Len(b) PROVE (a \o b)[Len(a) + i] = b[i]
  <2>1. Len(a) + i \in 1 .. Len(a) + Len(b) /\ ~(Len(a) + i <= Len(a)) /\ (Len(a) + i) - Len(a) = i
    BY <1>1
  <2> QED
    BY <2>1
<1> QED
  BY <1>1, <1>2, <1>3 DEF IsCat

-----------------------------------------------------------------------------
(* The order of versions.                                                  *)

LEMMA Trichotomy ==
  ASSUME NEW x \in Nat, NEW y \in Nat
  PROVE  (x < y => x # y /\ ~(y < x)) /\ (x # y /\ ~(y < x) => x < y)
OBVIOUS

\* Two keys are compared where they differ first.
LEMMA FirstDecides ==
  ASSUME NEW k \in Seq(Nat \X Nat), NEW l \in Seq(Nat \X Nat), NEW i \in Nat \ {0},
         i <= Len(k), i <= Len(l), k[i] # l[i], \A j \in 1 .. i - 1 : k[j] = l[j]
  PROVE  /\ Precedes(k, l) <=> Before(k[i], l[i])
         /\ Precedes(l, k) <=> ~Before(k[i], l[i])
         /\ Precedes(l, k) <=> Before(l[i], k[i])
<1>0. \A p \in Nat \X Nat : p[1] \in Nat /\ p[2] \in Nat /\ p = <<p[1], p[2]>>
  OBVIOUS
<1>1. \A j \in 1 .. Len(k) : k[j] \in Nat \X Nat
  OBVIOUS
<1>2. \A j \in 1 .. Len(l) : l[j] \in Nat \X Nat
  OBVIOUS
<1>a. ASSUME NEW p \in Nat \X Nat, NEW q \in Nat \X Nat
      PROVE  /\ Before(p, q) => p # q
             /\ p # q => (Before(p, q) <=> ~Before(q, p))
  <2>1. p = q <=> p[1] = q[1] /\ p[2] = q[2]
    BY <1>0
  <2>2. p[1] \in Nat /\ p[2] \in Nat /\ q[1] \in Nat /\ q[2] \in Nat
    BY <1>0
  <2> QED
    <3> DEFINE a == p[1]
               b == p[2]
               c == q[1]
               d == q[2]
    <3>1. a \in Nat /\ b \in Nat /\ c \in Nat /\ d \in Nat
      BY <2>2
    <3>2. /\ Before(p, q) <=> (a < c \/ (a = c /\ b < d))
          /\ Before(q, p) <=> (c < a \/ (c = a /\ d < b))
          /\ p = q <=> (a = c /\ b = d)
      BY <2>1 DEF Before
    <3> HIDE DEF a, b, c, d
    <3> QED
      BY <3>1, <3>2, Trichotomy
<1>3. i \in 1 .. Len(k) /\ i \in 1 .. Len(l) /\ DOMAIN k = 1 .. Len(k) /\ DOMAIN l = 1 .. Len(l)
  OBVIOUS
<1>4. Before(k[i], l[i]) <=> ~Before(l[i], k[i])
  BY <1>1, <1>2, <1>3, <1>a
<1>5. ASSUME NEW m \in (1 .. Len(k)) \cap (1 .. Len(l)), \A j \in 1 .. m - 1 : k[j] = l[j],
             Before(k[m], l[m]) \/ Before(l[m], k[m])
      PROVE  m = i
  <2>1. k[m] # l[m]
    BY <1>1, <1>2, <1>5, <1>a
  <2>2. ~(i < m) /\ ~(m < i)
    <3>1. m \in Nat
      OBVIOUS
    <3>2. ~(m \in 1 .. i - 1) /\ ~(i \in 1 .. m - 1)
      BY <1>5, <2>1
    <3> QED
      BY <1>5, <3>1, <3>2
  <2>3. m \in Nat
    OBVIOUS
  <2> QED
    BY <2>2, <2>3
<1>6. Before(k[i], l[i]) => Precedes(k, l)
  BY <1>3 DEF Precedes
<1>7. Before(l[i], k[i]) => Precedes(l, k)
  BY <1>3 DEF Precedes
<1>8. Precedes(k, l) => Before(k[i], l[i])
  BY <1>3, <1>5 DEF Precedes
<1>9. Precedes(l, k) => Before(l[i], k[i])
  <2> SUFFICES ASSUME NEW m \in (1 .. Len(k)) \cap (1 .. Len(l)), \A j \in 1 .. m - 1 : l[j] = k[j],
                      Before(l[m], k[m])
               PROVE  Before(l[i], k[i])
    BY <1>3 DEF Precedes
  <2>1. m = i
    BY <1>5
  <2> QED
    BY <2>1
<1> QED
  BY <1>4, <1>6, <1>7, <1>8, <1>9

\* Numbers, and the key place by place.
LEMMA KeyIs ==
  ASSUME NEW v \in Version
  PROVE  LET s == v.prerelease  k == Key(v) IN
         /\ \A i \in 1 .. 3 : Numbers(v)[i] \in Nat /\ k[i] = <<0, Numbers(v)[i]>>
         /\ k \in Seq(Nat \X Nat)
         /\ s = <<>> => Len(k) = 4 /\ k[4] = <<3, 0>>
         /\ s # <<>> => /\ Len(k) = 4 + Len(s) /\ k[4 + Len(s)] = <<0, 0>>
                        /\ \A i \in 1 .. Len(s) : k[3 + i] = <<Rank(s[i]), s[i].value>>
<1> DEFINE s == v.prerelease
           n == [i \in 1 .. 3 |-> <<0, Numbers(v)[i]>>]
           p == [i \in DOMAIN s |-> <<Rank(s[i]), s[i].value>>]
           e == Append(p, <<0, 0>>)
<1>1. /\ v.numbers \in Seq(Nat) /\ s \in Seq(Part)
      /\ \A i \in 1 .. Len(s) : Rank(s[i]) \in Nat /\ s[i].value \in Nat
  <2>1. v.numbers \in Seq(Nat) /\ s \in Seq(Part)
    BY DEF Version
  <2>2. \A i \in 1 .. Len(s) : s[i] \in Part
    BY <2>1
  <2> QED
    BY <2>1, <2>2 DEF Part, Rank
<1>2. \A i \in 1 .. 3 : Numbers(v)[i] \in Nat
  <2> SUFFICES ASSUME NEW i \in 1 .. 3 PROVE Numbers(v)[i] \in Nat
    OBVIOUS
  <2> QED
    BY <1>1 DEF Numbers
<1>3. n \in Seq(Nat \X Nat) /\ Len(n) = 3 /\ \A i \in 1 .. 3 : n[i] = <<0, Numbers(v)[i]>>
  BY <1>2
<1>4. p \in Seq(Nat \X Nat) /\ Len(p) = Len(s) /\ \A i \in 1 .. Len(s) : p[i] = <<Rank(s[i]), s[i].value>>
  BY <1>1
<1>5. e \in Seq(Nat \X Nat) /\ Len(e) = Len(s) + 1 /\ e[Len(s) + 1] = <<0, 0>> /\ \A i \in 1 .. Len(s) : e[i] = p[i]
  <2> HIDE DEF p
  <2> QED
    BY <1>1, <1>4
<1>6. Key(v) = n \o IF s = <<>> THEN << <<3, 0>> >> ELSE e
  BY DEF Key
<1> HIDE DEF n, p, e
<1>7. CASE s = <<>>
  <2> DEFINE z == << <<3, 0>> >>
  <2>1. z \in Seq(Nat \X Nat) /\ Len(z) = 1 /\ z[1] = <<3, 0>>
    OBVIOUS
  <2>2. Key(v) = n \o z
    BY <1>6, <1>7
  <2> HIDE DEF z
  <2>3. Key(v) \in Seq(Nat \X Nat) /\ Len(Key(v)) = 4 /\ IsCat(n, z, Key(v))
    <3> DEFINE W == Nat \X Nat
    <3>1. n \in Seq(W) /\ z \in Seq(W)
      BY <1>3, <2>1
    <3> HIDE DEF W
    <3>2. Key(v) \in Seq(W) /\ Len(Key(v)) = Len(n) + Len(z) /\ IsCat(n, z, Key(v))
      BY <2>2, <3>1, CatAt
    <3> QED
      BY <1>3, <2>1, <3>2 DEF W
  <2>4. Key(v)[3 + 1] = z[1] /\ \A i \in 1 .. 3 : Key(v)[i] = n[i]
    BY <1>3, <2>1, <2>3 DEF IsCat
  <2> QED
    BY <1>2, <1>3, <1>7, <2>1, <2>3, <2>4
<1>8. CASE s # <<>>
  <2> DEFINE m == Len(s)
  <2>1. Key(v) = n \o e /\ m \in Nat
    BY <1>1, <1>6, <1>8
  <2>2. Key(v) \in Seq(Nat \X Nat) /\ Len(Key(v)) = 4 + m /\ IsCat(n, e, Key(v))
    <3> DEFINE W == Nat \X Nat
    <3>1. n \in Seq(W) /\ e \in Seq(W)
      BY <1>3, <1>5
    <3> HIDE DEF W
    <3>2. Key(v) \in Seq(W) /\ Len(Key(v)) = Len(n) + Len(e) /\ IsCat(n, e, Key(v))
      BY <2>1, <3>1, CatAt
    <3>3. Len(n) + Len(e) = 4 + m
      BY <1>3, <1>5, <2>1
    <3> QED
      BY <3>2, <3>3 DEF W
  <2>3. /\ \A i \in 1 .. 3 : Key(v)[i] = n[i]
        /\ \A i \in 1 .. m + 1 : Key(v)[3 + i] = e[i]
    BY <1>3, <1>5, <2>2 DEF IsCat
  <2>4. Key(v)[4 + m] = <<0, 0>>
    <3>1. 4 + m = 3 + (m + 1) /\ m + 1 \in 1 .. m + 1
      BY <2>1
    <3> QED
      BY <1>5, <2>3, <3>1
  <2>5. \A i \in 1 .. m : Key(v)[3 + i] = <<Rank(s[i]), s[i].value>>
    <3> SUFFICES ASSUME NEW i \in 1 .. m PROVE Key(v)[3 + i] = <<Rank(s[i]), s[i].value>>
      OBVIOUS
    <3>1. i \in 1 .. m + 1
      BY <2>1
    <3> QED
      BY <1>4, <1>5, <2>3, <3>1
  <2> QED
    BY <1>2, <1>3, <1>8, <2>2, <2>3, <2>4, <2>5
<1> QED
  BY <1>7, <1>8

\* The first difference is one, and there is none only if the one sequence
\* begins with the other.
LEMMA DifferenceIs ==
  ASSUME NEW V, NEW s \in Seq(V), NEW t \in Seq(V)
  PROVE  LET i == FirstDifference(s, t) IN
         \/ /\ i \in Nat \ {0} /\ i <= Len(s) /\ i <= Len(t) /\ s[i] # t[i]
            /\ \A j \in 1 .. i - 1 : s[j] = t[j]
         \/ i = 0 /\ \A j \in 1 .. Len(s) : j <= Len(t) => s[j] = t[j]
<1> DEFINE differ == {i \in DOMAIN s \cap DOMAIN t : s[i] # t[i]}
           i == FirstDifference(s, t)
<1>1. CASE differ = {}
  <2>1. i = 0
    BY <1>1 DEF FirstDifference
  <2> QED
    BY <1>1, <2>1
<1>2. CASE differ # {}
  <2>1. PICK n \in differ : \A j \in differ : n <= j
    <3>1. Len(s) \in Nat /\ differ \in SUBSET (1 .. Len(s))
      OBVIOUS
    <3> HIDE DEF differ
    <3> QED
      BY <1>2, <3>1, FirstOf
  <2>2. i \in differ /\ \A j \in differ : i <= j
    BY <1>2, <2>1 DEF FirstDifference
  <2>3. i \in Nat \ {0} /\ i <= Len(s) /\ i <= Len(t) /\ s[i] # t[i]
    BY <2>2
  <2>4. ASSUME NEW j \in 1 .. i - 1 PROVE s[j] = t[j]
    <3> HIDE DEF i
    <3>1. j \in DOMAIN s \cap DOMAIN t /\ ~(i <= j)
      BY <2>3
    <3> QED
      BY <2>2, <3>1
  <2> QED
    BY <2>3, <2>4
<1> QED
  BY <1>1, <1>2

\* _compare_versions orders versions by precedence: VersionOrder, which goes
\* through the parts of both as the code does, says what Precedes says of their
\* keys, for any numbers and any prerelease parts (session_context.py:379-418).
THEOREM Precedence ==
  ASSUME NEW v \in Version, NEW w \in Version
  PROVE  VersionOrder(v, w) =
           IF Precedes(Key(v), Key(w)) THEN "below"
           ELSE IF Precedes(Key(w), Key(v)) THEN "above" ELSE "same"
<1> DEFINE k == Key(v)
           l == Key(w)
           s == v.prerelease
           t == w.prerelease
           m == Numbers(v)
           n == Numbers(w)
           wanted == IF Precedes(k, l) THEN "below" ELSE IF Precedes(l, k) THEN "above" ELSE "same"
<1>0. s \in Seq(Part) /\ t \in Seq(Part)
  BY DEF Version
<1>1. /\ k \in Seq(Nat \X Nat) /\ l \in Seq(Nat \X Nat)
      /\ Len(k) \in Nat /\ Len(l) \in Nat /\ Len(k) >= 4 /\ Len(l) >= 4
      /\ \A i \in 1 .. 3 : m[i] \in Nat /\ k[i] = <<0, m[i]>> /\ n[i] \in Nat /\ l[i] = <<0, n[i]>>
  <2>1. Len(s) \in Nat /\ Len(t) \in Nat
    BY <1>0
  <2>2. k \in Seq(Nat \X Nat) /\ \A i \in 1 .. 3 : m[i] \in Nat /\ k[i] = <<0, m[i]>>
    BY KeyIs
  <2>3. l \in Seq(Nat \X Nat) /\ \A i \in 1 .. 3 : n[i] \in Nat /\ l[i] = <<0, n[i]>>
    BY KeyIs
  <2>4. (Len(k) = 4 \/ Len(k) = 4 + Len(s)) /\ (Len(l) = 4 \/ Len(l) = 4 + Len(t))
    BY KeyIs
  <2> HIDE DEF k, l, m, n
  <2>a. \A x \in Nat : 4 + x \in Nat /\ 4 + x >= 4 /\ 4 \in Nat /\ 4 >= 4
    OBVIOUS
  <2>5. Len(k) \in Nat /\ Len(k) >= 4
    BY <2>1, <2>4, <2>a
  <2>6. Len(l) \in Nat /\ Len(l) >= 4
    BY <2>1, <2>4, <2>a
  <2> QED
    BY <2>2, <2>3, <2>5, <2>6
<1>2. /\ s = <<>> => Len(k) = 4 /\ k[4] = <<3, 0>>
      /\ s # <<>> => /\ Len(k) = 4 + Len(s) /\ k[4 + Len(s)] = <<0, 0>>
                     /\ \A i \in 1 .. Len(s) : k[3 + i] = <<Rank(s[i]), s[i].value>>
      /\ t = <<>> => Len(l) = 4 /\ l[4] = <<3, 0>>
      /\ t # <<>> => /\ Len(l) = 4 + Len(t) /\ l[4 + Len(t)] = <<0, 0>>
                     /\ \A i \in 1 .. Len(t) : l[3 + i] = <<Rank(t[i]), t[i].value>>
  BY KeyIs
<1>3. m \in Seq(Nat) /\ n \in Seq(Nat) /\ Len(m) = 3 /\ Len(n) = 3
  BY <1>1 DEF Numbers
<1>4. \A p \in Part : p.value \in Nat /\ (p.kind = "number" \/ p.kind = "word")
                      /\ p = [kind |-> p.kind, value |-> p.value]
  BY DEF Part
<1> HIDE DEF k, l, m, n, wanted
\* Where the keys differ first they decide.
<1>5. ASSUME NEW i \in Nat \ {0}, i <= Len(k), i <= Len(l), k[i] # l[i],
             \A j \in 1 .. i - 1 : k[j] = l[j]
      PROVE  wanted = IF Before(k[i], l[i]) THEN "below" ELSE "above"
  BY <1>1, <1>5, FirstDecides DEF wanted
<1>6. CASE FirstDifference(m, n) # 0
  <2> DEFINE i == FirstDifference(m, n)
  <2>1. i \in 1 .. 3 /\ m[i] # n[i] /\ \A j \in 1 .. i - 1 : m[j] = n[j]
    <3>1. /\ i \in Nat \ {0} /\ i <= Len(m) /\ m[i] # n[i]
          /\ \A j \in 1 .. i - 1 : m[j] = n[j]
      <4> HIDE DEF i
      <4>1. \/ /\ i \in Nat \ {0} /\ i <= Len(m) /\ i <= Len(n) /\ m[i] # n[i]
               /\ \A j \in 1 .. i - 1 : m[j] = n[j]
            \/ i = 0
        BY <1>3, DifferenceIs DEF i
      <4> QED
        BY <1>6, <4>1 DEF i
    <3> QED
      BY <1>3, <3>1
  <2>2. VersionOrder(v, w) = Order(m[i], n[i])
    BY <1>6 DEF VersionOrder, m, n
  <2> HIDE DEF i
  <2>3. k[i] = <<0, m[i]>> /\ l[i] = <<0, n[i]>> /\ m[i] \in Nat /\ n[i] \in Nat
    BY <1>1, <2>1
  <2>4. \A j \in 1 .. i - 1 : k[j] = l[j]
    <3> SUFFICES ASSUME NEW j \in 1 .. i - 1 PROVE k[j] = l[j]
      OBVIOUS
    <3>1. j \in 1 .. 3 /\ m[j] = n[j]
      BY <2>1
    <3> QED
      BY <1>1, <3>1
  <2>5. wanted = IF Before(k[i], l[i]) THEN "below" ELSE "above"
    <3>1. i \in Nat \ {0} /\ i <= Len(k) /\ i <= Len(l) /\ k[i] # l[i]
      <4>1. i \in Nat \ {0} /\ i <= 4 /\ k[i] # l[i]
        BY <2>1, <2>3
      <4>2. \A x \in Nat : x >= 4 => i <= x
        BY <4>1
      <4> QED
        BY <1>1, <4>1, <4>2
    <3> QED
      BY <1>5, <2>4, <3>1
  <2>6. Before(k[i], l[i]) <=> m[i] < n[i]
    BY <2>3 DEF Before
  <2>7. wanted = Order(m[i], n[i])
    BY <2>1, <2>3, <2>5, <2>6 DEF Order
  <2> QED
    BY <2>2, <2>7 DEF wanted, k, l
<1>7. CASE FirstDifference(m, n) = 0
  <2>1. \A j \in 1 .. 3 : k[j] = l[j]
    <3>1. \A j \in 1 .. 3 : m[j] = n[j]
      BY <1>3, <1>7, DifferenceIs
    <3> QED
      BY <1>1, <3>1
  <2>2. VersionOrder(v, w) = PrereleaseOrder(s, t)
    BY <1>7 DEF VersionOrder, m, n
  <2>3. \A p, q \in Nat : Before(<<p, q>>, <<p, q>>) = FALSE
    BY DEF Before
  <2>4. ASSUME NEW i \in Nat, 1 <= i, 3 + i <= Len(k), 3 + i <= Len(l), k[3 + i] # l[3 + i],
               \A j \in 1 .. i - 1 : k[3 + j] = l[3 + j]
        PROVE  wanted = IF Before(k[3 + i], l[3 + i]) THEN "below" ELSE "above"
    <3>1. ASSUME NEW j \in 1 .. (3 + i) - 1 PROVE k[j] = l[j]
      <4>1. CASE j \in 1 .. 3
        BY <2>1, <4>1
      <4>2. CASE j \notin 1 .. 3
        <5>1. j - 3 \in 1 .. i - 1 /\ 3 + (j - 3) = j
          BY <2>4, <4>2
        <5> QED
          BY <2>4, <5>1
      <4> QED
        BY <4>1, <4>2
    <3>2. 3 + i \in Nat \ {0}
      OBVIOUS
    <3> QED
      BY <1>5, <2>4, <3>1, <3>2
  <2>5. CASE s = t
    <3>1. k = l
      <4>1. Len(k) = Len(l)
        BY <1>2, <2>5
      <4>2. ASSUME NEW j \in 1 .. Len(k) PROVE k[j] = l[j]
        <5>1. CASE j \in 1 .. 3
          BY <2>1, <5>1
        <5>2. CASE s = <<>> /\ j \notin 1 .. 3
          <6>1. j = 4
            <7>1. Len(k) = 4
              BY <1>2, <5>2
            <7> QED
              BY <5>2, <7>1
          <6> QED
            BY <1>2, <2>5, <5>2, <6>1
        <5>3. CASE s # <<>> /\ j \notin 1 .. 3
          <6>1. Len(s) \in Nat /\ Len(k) = 4 + Len(s)
            BY <1>0, <1>2, <5>3
          <6>2. CASE j = 4 + Len(s)
            BY <1>2, <2>5, <5>3, <6>2
          <6>3. CASE j # 4 + Len(s)
            <7>1. j - 3 \in 1 .. Len(s) /\ 3 + (j - 3) = j
              BY <5>3, <6>1, <6>3
            <7> QED
              BY <1>2, <2>5, <5>3, <7>1
          <6> QED
            BY <6>2, <6>3
        <5> QED
          BY <5>1, <5>2, <5>3
      <4> QED
        BY <1>1, <4>1, <4>2, SeqEqual
    <3>2. ~Precedes(k, k)
      <4>1. \A j \in 1 .. Len(k) : k[j] \in Nat \X Nat
        BY <1>1
      <4>2. \A p \in Nat \X Nat : ~Before(p, p)
        BY DEF Before
      <4>3. DOMAIN k = 1 .. Len(k)
        BY <1>1
      <4> QED
        BY <4>1, <4>2, <4>3 DEF Precedes
    <3>3. wanted = "same"
      BY <3>1, <3>2 DEF wanted
    <3> QED
      BY <2>2, <2>5, <3>3 DEF PrereleaseOrder, wanted, k, l
  <2> DEFINE i == FirstDifference(s, t)
  <2>6. CASE s # t /\ (s = <<>> \/ t = <<>>)
    <3>1. s = <<>> => t # <<>> /\ Len(t) \in Nat /\ Len(t) >= 1 /\ t[1] \in Part
      BY <1>0, <2>6
    <3>2. t = <<>> => s # <<>> /\ Len(s) \in Nat /\ Len(s) >= 1 /\ s[1] \in Part
      BY <1>0, <2>6
    <3>3. s = <<>> => k[3 + 1] = <<3, 0>> /\ l[3 + 1] = <<Rank(t[1]), t[1].value>>
      BY <1>2, <3>1
    <3>4. t = <<>> => l[3 + 1] = <<3, 0>> /\ k[3 + 1] = <<Rank(s[1]), s[1].value>>
      BY <1>2, <3>2
    <3>5. \A p \in Part : Rank(p) \in {1, 2}
      BY DEF Rank
    <3>6. k[3 + 1] # l[3 + 1]
      BY <2>6, <3>1, <3>2, <3>3, <3>4, <3>5
    <3>7. wanted = IF Before(k[3 + 1], l[3 + 1]) THEN "below" ELSE "above"
      <4>1. 3 + 1 <= Len(k) /\ 3 + 1 <= Len(l) /\ \A j \in 1 .. 1 - 1 : k[3 + j] = l[3 + j]
        BY <1>1
      <4> DEFINE e == 1
      <4>2. e \in Nat /\ 1 <= e /\ 3 + e <= Len(k) /\ 3 + e <= Len(l) /\ k[3 + e] # l[3 + e]
            /\ \A j \in 1 .. e - 1 : k[3 + j] = l[3 + j]
        BY <3>6, <4>1
      <4> HIDE DEF e
      <4>3. wanted = IF Before(k[3 + e], l[3 + e]) THEN "below" ELSE "above"
        BY <2>4, <4>2
      <4> QED
        BY <4>3 DEF e
    <3>8. Before(k[3 + 1], l[3 + 1]) <=> t = <<>>
      BY <2>6, <3>1, <3>2, <3>3, <3>4, <3>5 DEF Before
    <3> QED
      BY <2>2, <2>6, <3>7, <3>8 DEF PrereleaseOrder, wanted, k, l
  <2>7. CASE s # t /\ s # <<>> /\ t # <<>> /\ i # 0
    <3>1. i \in Nat \ {0} /\ i <= Len(s) /\ i <= Len(t) /\ s[i] # t[i] /\ \A j \in 1 .. i - 1 : s[j] = t[j]
      BY <1>0, <2>7, DifferenceIs
    <3>2. VersionOrder(v, w) = PartOrder(s[i], t[i])
      BY <2>2, <2>7 DEF PrereleaseOrder
    <3> HIDE DEF i
    <3>3. Len(s) \in Nat /\ Len(t) \in Nat /\ i \in 1 .. Len(s) /\ i \in 1 .. Len(t)
      BY <1>0, <3>1
    <3>4. k[3 + i] = <<Rank(s[i]), s[i].value>> /\ l[3 + i] = <<Rank(t[i]), t[i].value>>
      BY <1>2, <2>7, <3>3
    <3>5. s[i] \in Part /\ t[i] \in Part
      BY <1>0, <3>3
    <3>6. k[3 + i] # l[3 + i]
      BY <1>4, <3>1, <3>4, <3>5 DEF Rank
    <3>7. ASSUME NEW j \in 1 .. i - 1 PROVE k[3 + j] = l[3 + j]
      <4>1. j \in 1 .. Len(s) /\ j \in 1 .. Len(t) /\ s[j] = t[j]
        BY <3>1, <3>3
      <4> QED
        BY <1>2, <2>7, <4>1
    <3>8. 3 + i <= Len(k) /\ 3 + i <= Len(l)
      BY <1>2, <2>7, <3>3
    <3>9. wanted = IF Before(k[3 + i], l[3 + i]) THEN "below" ELSE "above"
      BY <2>4, <3>1, <3>6, <3>7, <3>8
    <3>10. PartOrder(s[i], t[i]) = IF Before(k[3 + i], l[3 + i]) THEN "below" ELSE "above"
      <4>1. \A p, q \in Nat : p # q => Order(p, q) = IF p < q THEN "below" ELSE "above"
        BY DEF Order
      <4> QED
        BY <1>4, <3>1, <3>4, <3>5, <4>1 DEF PartOrder, Rank, Before
    <3> QED
      BY <3>2, <3>9, <3>10 DEF wanted, k, l
  <2>8. CASE s # t /\ s # <<>> /\ t # <<>> /\ i = 0
    <3>0. Len(s) \in Nat /\ Len(t) \in Nat /\ Len(s) >= 1 /\ Len(t) >= 1
      BY <1>0, <2>8
    <3>1. \A j \in 1 .. Len(s) : j <= Len(t) => s[j] = t[j]
      BY <1>0, <2>8, DifferenceIs
    <3>2. Len(s) # Len(t)
      <4>1. ASSUME Len(s) = Len(t) PROVE s = t
        BY <1>0, <3>1, <4>1, SeqEqual
      <4> QED
        BY <2>8, <4>1
    <3>3. VersionOrder(v, w) = Order(Len(s), Len(t))
      BY <2>2, <2>8 DEF PrereleaseOrder
    <3>4. \A p \in Part : Rank(p) \in {1, 2} /\ p.value \in Nat
      BY <1>4 DEF Rank
    <3>5. PICK c \in Nat : c = (IF Len(s) < Len(t) THEN Len(s) ELSE Len(t))
      BY <3>0
    <3>6. ASSUME NEW j \in 1 .. c PROVE k[3 + j] = l[3 + j]
      <4>1. j \in 1 .. Len(s) /\ j \in 1 .. Len(t) /\ s[j] = t[j]
        BY <3>0, <3>1, <3>5
      <4> QED
        BY <1>2, <2>8, <4>1
    <3>7. /\ Len(s) < Len(t) => k[3 + (c + 1)] = <<0, 0>> /\ c + 1 \in 1 .. Len(t)
                                /\ l[3 + (c + 1)] = <<Rank(t[c + 1]), t[c + 1].value>>
          /\ ~(Len(s) < Len(t)) => l[3 + (c + 1)] = <<0, 0>> /\ c + 1 \in 1 .. Len(s)
                                /\ k[3 + (c + 1)] = <<Rank(s[c + 1]), s[c + 1].value>>
      <4>1. 4 + c = 3 + (c + 1)
        OBVIOUS
      <4>2. /\ Len(s) < Len(t) => c = Len(s) /\ c + 1 \in 1 .. Len(t)
            /\ ~(Len(s) < Len(t)) => c = Len(t) /\ c + 1 \in 1 .. Len(s)
        BY <3>0, <3>2, <3>5
      <4> QED
        BY <1>2, <2>8, <4>1, <4>2
    <3>8. /\ Len(s) < Len(t) => Rank(t[c + 1]) \in {1, 2}
          /\ ~(Len(s) < Len(t)) => Rank(s[c + 1]) \in {1, 2}
      BY DEF Rank
    <3>9. k[3 + (c + 1)] # l[3 + (c + 1)]
      BY <3>7, <3>8
    <3>10. 3 + (c + 1) <= Len(k) /\ 3 + (c + 1) <= Len(l)
      BY <1>2, <2>8, <3>0, <3>5
    <3>11. c + 1 \in Nat /\ 1 <= c + 1 /\ (c + 1) - 1 = c
      OBVIOUS
    <3>12. wanted = IF Before(k[3 + (c + 1)], l[3 + (c + 1)]) THEN "below" ELSE "above"
      <4> DEFINE e == c + 1
      <4>1. \A j \in 1 .. e - 1 : k[3 + j] = l[3 + j]
        BY <3>6, <3>11
      <4>2. e \in Nat /\ 1 <= e /\ 3 + e <= Len(k) /\ 3 + e <= Len(l) /\ k[3 + e] # l[3 + e]
        BY <3>9, <3>10, <3>11
      <4> HIDE DEF e
      <4>3. wanted = IF Before(k[3 + e], l[3 + e]) THEN "below" ELSE "above"
        BY <2>4, <4>1, <4>2
      <4> QED
        BY <4>3 DEF e
    <3>13. Before(k[3 + (c + 1)], l[3 + (c + 1)]) <=> Len(s) < Len(t)
      BY <3>7, <3>8 DEF Before
    <3>14. wanted = Order(Len(s), Len(t))
      BY <3>0, <3>2, <3>12, <3>13 DEF Order
    <3> QED
      BY <3>3, <3>14 DEF wanted, k, l
  <2> QED
    BY <2>5, <2>6, <2>7, <2>8
<1> QED
  BY <1>6, <1>7

-----------------------------------------------------------------------------
(* Lines that are picked from a text.                                      *)

Picks(f, ls, places) ==
  f = [i \in 0 .. Len(ls) |->
         IF i = 0 THEN <<>>
         ELSE IF i \in places THEN Append(f[i - 1], ls[i]) ELSE f[i - 1]]
PickOf(ls, places) == CHOOSE f : Picks(f, ls, places)

\* The lines picked from the first lines, for every number of them.
LEMMA PickedIs ==
  ASSUME NEW V, NEW ls \in Seq(V), NEW places
  PROVE  /\ Picks(PickOf(ls, places), ls, places)
         /\ PickOf(ls, places) \in [0 .. Len(ls) -> Seq(V)]
         /\ Picked(ls, places) = PickOf(ls, places)[Len(ls)]
<1> DEFINE n == Len(ls)
           step == [p \in (1 .. n) \X Seq(V) |->
                      IF p[1] \in places THEN Append(p[2], ls[p[1]]) ELSE p[2]]
           g == PickOf(ls, places)
<1>1. n \in Nat /\ \A i \in 1 .. n : ls[i] \in V
  OBVIOUS
<1>2. step \in [(1 .. n) \X Seq(V) -> Seq(V)]
  BY <1>1
<1>3. <<>> \in Seq(V)
  OBVIOUS
<1>4. PICK f \in [0 .. n -> Seq(V)] : Recursion(f, n, <<>>, step)
  <2> HIDE DEF step, n
  <2> QED
    BY <1>1, <1>2, <1>3, RecursionExists
<1>5. ASSUME NEW i \in 0 .. n, i # 0
      PROVE  step[<<i, f[i - 1]>>] = IF i \in places THEN Append(f[i - 1], ls[i]) ELSE f[i - 1]
  <2>1. i \in 1 .. n /\ i - 1 \in 0 .. n
    BY <1>1, <1>5
  <2>2. <<i, f[i - 1]>> \in (1 .. n) \X Seq(V)
    BY <1>4, <2>1
  <2> QED
    BY <2>2
<1>6. Picks(f, ls, places)
  BY <1>4, <1>5 DEF Recursion, Picks
<1>7. Picks(g, ls, places)
  BY <1>6 DEF PickOf
<1>8. \A i \in 0 .. n : g[i] = f[i]
  <2> DEFINE S == {i \in 0 .. n : g[i] = f[i]}
  <2>1. \A i \in 0 .. n : g[i] = IF i = 0 THEN <<>>
                                 ELSE IF i \in places THEN Append(g[i - 1], ls[i]) ELSE g[i - 1]
    BY <1>7 DEF Picks
  <2>2. \A i \in 0 .. n : f[i] = IF i = 0 THEN <<>>
                                 ELSE IF i \in places THEN Append(f[i - 1], ls[i]) ELSE f[i - 1]
    BY <1>6 DEF Picks
  <2> HIDE DEF g, n
  <2>3. 0 \in S
    BY <1>1, <2>1, <2>2
  <2>4. ASSUME NEW i \in 0 .. n, i \in S, i < n PROVE i + 1 \in S
    <3>1. i + 1 \in 0 .. n /\ i + 1 # 0 /\ (i + 1) - 1 = i
      BY <1>1, <2>4
    <3> QED
      BY <2>1, <2>2, <2>4, <3>1
  <2>5. 0 .. n \subseteq S
    <3> HIDE DEF S
    <3> QED
      BY <1>1, <2>3, <2>4, UpTo
  <2> QED
    BY <2>5
<1>9. g \in [0 .. n -> Seq(V)]
  <2>1. g = [i \in 0 .. n |-> g[i]]
    BY <1>7 DEF Picks
  <2>2. \A i \in 0 .. n : g[i] \in Seq(V)
    BY <1>4, <1>8
  <2> QED
    BY <2>1, <2>2
<1>10. Picked(ls, places) = g[n]
  BY DEF Picked, PickOf, Picks
<1> QED
  BY <1>7, <1>9, <1>10

\* Step by step: what is picked of the first lines.
PicksTo(V, ls, places, f) ==
  /\ f[0] = <<>> /\ \A i \in 0 .. Len(ls) : f[i] \in Seq(V)
  /\ \A i \in 1 .. Len(ls) : f[i] = IF i \in places THEN Append(f[i - 1], ls[i]) ELSE f[i - 1]
  /\ Picked(ls, places) = f[Len(ls)] /\ Picked(ls, places) \in Seq(V)

\* A line more is picked, or not.
LEMMA PickStep ==
  ASSUME NEW V, NEW ls \in Seq(V), NEW places
  PROVE  PicksTo(V, ls, places, PickOf(ls, places))
<1> DEFINE f == PickOf(ls, places)
<1>1. /\ Picks(f, ls, places) /\ f \in [0 .. Len(ls) -> Seq(V)] /\ Len(ls) \in Nat
      /\ Picked(ls, places) = f[Len(ls)]
  BY PickedIs
<1>2. \A i \in 0 .. Len(ls) : f[i] = IF i = 0 THEN <<>>
                              ELSE IF i \in places THEN Append(f[i - 1], ls[i]) ELSE f[i - 1]
  BY <1>1 DEF Picks
<1> HIDE DEF f
<1>3. f[0] = <<>>
  BY <1>1, <1>2
<1>4. \A i \in 1 .. Len(ls) : i \in 0 .. Len(ls) /\ i # 0
  BY <1>1
<1>5. Len(ls) \in 0 .. Len(ls)
  BY <1>1
<1> QED
  BY <1>1, <1>2, <1>3, <1>4, <1>5 DEF f, PicksTo

\* What is picked in the same way is the same.
LEMMA PickedBy ==
  ASSUME NEW V, NEW ls \in Seq(V), NEW places, NEW n \in 0 .. Len(ls), NEW g, g[0] = <<>>,
         \A i \in 1 .. n : g[i] = IF i \in places THEN Append(g[i - 1], ls[i]) ELSE g[i - 1]
  PROVE  \A i \in 0 .. n : PickOf(ls, places)[i] = g[i]
<1> DEFINE f == PickOf(ls, places)
           S == {i \in 0 .. n : f[i] = g[i]}
<1>1. /\ n \in Nat /\ f[0] = <<>> /\ \A i \in 1 .. n : i \in 1 .. Len(ls)
      /\ \A i \in 1 .. Len(ls) : f[i] = IF i \in places THEN Append(f[i - 1], ls[i]) ELSE f[i - 1]
  BY PickStep DEF PicksTo
<1> HIDE DEF f
<1>2. 0 \in S
  BY <1>1
<1>3. ASSUME NEW i \in 0 .. n, i \in S, i < n PROVE i + 1 \in S
  <2>1. i + 1 \in 0 .. n /\ i + 1 \in 1 .. n /\ (i + 1) - 1 = i
    BY <1>1, <1>3
  <2> QED
    BY <1>1, <1>3, <2>1
<1>4. 0 .. n \subseteq S
  <2> HIDE DEF S
  <2> QED
    BY <1>1, <1>2, <1>3, UpTo
<1> QED
  BY <1>4 DEF f

\* It does not matter whether a place lies outside of the lines.
LEMMA PickedSame ==
  ASSUME NEW V, NEW ls \in Seq(V), NEW P, NEW Q, \A i \in 1 .. Len(ls) : i \in P <=> i \in Q
  PROVE  Picked(ls, P) = Picked(ls, Q)
<1> DEFINE g == PickOf(ls, Q)
<1>1. /\ Len(ls) \in Nat /\ g[0] = <<>> /\ Picked(ls, P) = PickOf(ls, P)[Len(ls)]
      /\ Picked(ls, Q) = g[Len(ls)]
      /\ \A i \in 1 .. Len(ls) : g[i] = IF i \in Q THEN Append(g[i - 1], ls[i]) ELSE g[i - 1]
  BY PickStep DEF PicksTo
<1> HIDE DEF g
<1>2. \A i \in 1 .. Len(ls) : g[i] = IF i \in P THEN Append(g[i - 1], ls[i]) ELSE g[i - 1]
  BY <1>1
<1>3. Len(ls) \in 0 .. Len(ls)
  BY <1>1
<1>4. \A i \in 0 .. Len(ls) : PickOf(ls, P)[i] = g[i]
  BY <1>1, <1>2, <1>3, PickedBy
<1> QED
  BY <1>1, <1>3, <1>4

\* With all places, all lines are picked.
LEMMA PickedAll == ASSUME NEW V, NEW ls \in Seq(V) PROVE Picked(ls, 1 .. Len(ls)) = ls
<1> DEFINE n == Len(ls)
           g == [i \in 0 .. n |-> SubSeq(ls, 1, i)]
<1>1. n \in Nat /\ \A i \in 1 .. n : i \in 0 .. n /\ i - 1 \in 0 .. n /\ ls[i] \in V
  OBVIOUS
<1>2. /\ g[0] = <<>> /\ g[n] = ls
      /\ \A i \in 1 .. n : g[i] = g[i - 1] \o <<ls[i]>> /\ g[i - 1] \in Seq(V)
  BY <1>1, Prefix
<1> HIDE DEF g, n
<1>3. \A i \in 1 .. n : g[i] = IF i \in 1 .. n THEN Append(g[i - 1], ls[i]) ELSE g[i - 1]
  BY <1>1, <1>2, AppendIsConcat
<1>4. n \in 0 .. Len(ls) /\ n = Len(ls)
  BY <1>1 DEF n
<1> DEFINE P == 1 .. n
<1> HIDE DEF P
<1>5. \A i \in 0 .. n : PickOf(ls, P)[i] = g[i]
  <2>1. \A i \in 1 .. n : g[i] = IF i \in P THEN Append(g[i - 1], ls[i]) ELSE g[i - 1]
    BY <1>3 DEF P
  <2> QED
    BY <1>2, <1>4, <2>1, PickedBy
<1>6. Picked(ls, P) = PickOf(ls, P)[Len(ls)]
  BY PickStep DEF PicksTo
<1>7. n \in 0 .. n
  BY <1>1
<1> QED
  BY <1>2, <1>4, <1>5, <1>6, <1>7 DEF P

\* The lines of a sequence that are in a set.
Of(s, T) == Picked(s, {i \in DOMAIN s : s[i] \in T})

\* Of no lines, none are left.
LEMMA OfNone == ASSUME NEW T PROVE Of(<<>>, T) = <<>>
<1> DEFINE P == {i \in DOMAIN <<>> : <<>>[i] \in T}
<1>1. <<>> \in Seq({}) /\ Len(<<>>) = 0
  OBVIOUS
<1> DEFINE s == <<>>
<1>2. s \in Seq({}) /\ Len(s) = 0
  BY <1>1
<1> HIDE DEF P, s
<1>3. PicksTo({}, s, P, PickOf(s, P))
  BY <1>2, PickStep
<1> QED
  BY <1>2, <1>3 DEF Of, P, s, PicksTo

\* A line at the end is left if it is one of T.
LEMMA OfAppend ==
  ASSUME NEW V, NEW s \in Seq(V), NEW l \in V, NEW T
  PROVE  Of(Append(s, l), T) = IF l \in T THEN Append(Of(s, T), l) ELSE Of(s, T)
<1> DEFINE a == Append(s, l)
           n == Len(s)
           P == {i \in DOMAIN s : s[i] \in T}
           Q == {i \in DOMAIN a : a[i] \in T}
           g == PickOf(a, Q)
<1>1. /\ n \in Nat /\ a \in Seq(V) /\ Len(a) = n + 1 /\ a[n + 1] = l
      /\ \A i \in 1 .. n : a[i] = s[i] /\ i \in 1 .. n + 1
      /\ DOMAIN s = 1 .. n /\ DOMAIN a = 1 .. n + 1
  OBVIOUS
<1>2. /\ g[0] = <<>> /\ Picked(a, Q) = g[n + 1]
      /\ \A i \in 1 .. n + 1 : g[i] = IF i \in Q THEN Append(g[i - 1], a[i]) ELSE g[i - 1]
  <2> HIDE DEF a, Q
  <2>1. /\ g[0] = <<>> /\ Picked(a, Q) = g[Len(a)]
        /\ \A i \in 1 .. Len(a) : g[i] = IF i \in Q THEN Append(g[i - 1], a[i]) ELSE g[i - 1]
    <3>1. PicksTo(V, a, Q, PickOf(a, Q))
      BY <1>1, PickStep
    <3> QED
      BY <3>1 DEF PicksTo
  <2> HIDE DEF g, n
  <2> QED
    BY <1>1, <2>1
<1>3. n + 1 \in Q <=> l \in T
  <2>1. n + 1 \in 1 .. n + 1
    BY <1>1
  <2> HIDE DEF a
  <2> QED
    BY <1>1, <2>1
<1>4. \A i \in 1 .. n : i \in P <=> i \in Q
  <2> HIDE DEF a
  <2> QED
    BY <1>1
<1> HIDE DEF a, P, Q, g
<1>5. \A i \in 1 .. n : g[i] = IF i \in P THEN Append(g[i - 1], s[i]) ELSE g[i - 1]
  BY <1>1, <1>2, <1>4
<1>6. n \in 0 .. Len(s) /\ n \in 0 .. n
  BY <1>1 DEF n
<1>7. \A i \in 0 .. n : PickOf(s, P)[i] = g[i]
  <2> HIDE DEF n
  <2> QED
    BY <1>2, <1>5, <1>6, PickedBy
<1>8. Picked(s, P) = g[n]
  <2>1. Picked(s, P) = PickOf(s, P)[n]
    BY PickStep DEF PicksTo, n
  <2> QED
    BY <1>6, <1>7, <2>1
<1>9. g[n + 1] = IF n + 1 \in Q THEN Append(g[n], a[n + 1]) ELSE g[n]
  <2>1. n + 1 \in 1 .. n + 1 /\ (n + 1) - 1 = n
    BY <1>1
  <2> QED
    BY <1>2, <2>1
<1> QED
  BY <1>1, <1>2, <1>3, <1>8, <1>9 DEF Of, a, P, Q

\* What is picked of what was picked.
LEMMA OfPicked ==
  ASSUME NEW V, NEW ls \in Seq(V), NEW P, NEW T
  PROVE  Of(Picked(ls, P), T) = Picked(ls, {i \in P : i \in DOMAIN ls /\ ls[i] \in T})
<1> DEFINE n == Len(ls)
           f == PickOf(ls, P)
           g == [i \in 0 .. n |-> Of(f[i], T)]
           Q == {i \in P : i \in DOMAIN ls /\ ls[i] \in T}
<1>1. /\ n \in Nat /\ f[0] = <<>> /\ Picked(ls, P) = f[n]
      /\ \A i \in 0 .. n : f[i] \in Seq(V)
      /\ \A i \in 1 .. n : f[i] = IF i \in P THEN Append(f[i - 1], ls[i]) ELSE f[i - 1]
      /\ \A i \in 1 .. n : ls[i] \in V /\ i \in DOMAIN ls
  BY PickStep DEF PicksTo
<1>2. \A i \in 1 .. n : i \in 0 .. n /\ i - 1 \in 0 .. n
  BY <1>1
<1>3. 0 \in 0 .. n /\ n \in 0 .. n /\ n \in 0 .. Len(ls) /\ n = Len(ls)
  BY <1>1
<1> HIDE DEF f, n
<1>4. g[0] = <<>>
  BY <1>1, <1>3, OfNone
<1>5. ASSUME NEW i \in 1 .. n PROVE g[i] = IF i \in Q THEN Append(g[i - 1], ls[i]) ELSE g[i - 1]
  <2>1. g[i] = Of(f[i], T) /\ g[i - 1] = Of(f[i - 1], T) /\ f[i - 1] \in Seq(V) /\ ls[i] \in V
    BY <1>1, <1>2
  <2>2. i \in Q <=> i \in P /\ ls[i] \in T
    BY <1>1
  <2> DEFINE s == f[i - 1]
             l == ls[i]
  <2>3. Of(Append(s, l), T) = IF l \in T THEN Append(Of(s, T), l) ELSE Of(s, T)
    <3>1. s \in Seq(V) /\ l \in V
      BY <2>1
    <3> HIDE DEF s, l
    <3> QED
      BY <3>1, OfAppend
  <2> QED
    BY <1>1, <2>1, <2>2, <2>3
<1> HIDE DEF g, Q
<1>6. \A i \in 0 .. n : PickOf(ls, Q)[i] = g[i]
  BY <1>3, <1>4, <1>5, PickedBy
<1>7. Picked(ls, Q) = PickOf(ls, Q)[n]
  BY <1>3, PickStep DEF PicksTo
<1>8. g[n] = Of(f[n], T)
  BY <1>3 DEF g
<1> QED
  BY <1>1, <1>3, <1>6, <1>7, <1>8 DEF Q

\* What is picked of a part of the lines.
PartOf(V, ls, a, b, s, P, Q) ==
  /\ ls \in Seq(V) /\ a \in 1 .. Len(ls) + 1 /\ b \in a - 1 .. Len(ls) /\ s = SubSeq(ls, a, b)
  /\ \A i \in 1 .. Len(ls) : i \in P <=> i \in a .. b /\ i - a + 1 \in Q

\* What is picked from a part of the lines is what is picked from them there.
LEMMA PickedPart ==
  ASSUME NEW V, NEW ls, NEW a, NEW b, NEW s, NEW P, NEW Q, PartOf(V, ls, a, b, s, P, Q)
  PROVE  Picked(s, Q) = Picked(ls, P)
<1> USE DEF PartOf
<1> DEFINE n == Len(ls)
           m == b - a + 1
           f == PickOf(s, Q)
           g == [i \in 0 .. n |-> IF i < a THEN <<>> ELSE IF i <= b THEN f[i - a + 1] ELSE f[m]]
<1>1. n \in Nat /\ m \in Nat /\ a \in Nat /\ b \in Nat /\ 1 <= a /\ b <= n /\ a <= b + 1 /\ a - 1 \in Nat
  OBVIOUS
<1>2. s \in Seq(V) /\ Len(s) = m /\ \A i \in 1 .. m : s[i] = ls[a + i - 1]
  <2>1. \A i \in a .. b : ls[i] \in V
    BY <1>1
  <2>2. m = IF a <= b THEN b - a + 1 ELSE 0
    BY <1>1
  <2> QED
    BY <1>1, <2>1, <2>2, SubSeqProperties
<1>3. /\ f[0] = <<>> /\ Picked(s, Q) = f[m]
      /\ \A i \in 1 .. m : f[i] = IF i \in Q THEN Append(f[i - 1], s[i]) ELSE f[i - 1]
  <2>1. /\ f[0] = <<>> /\ Picked(s, Q) = f[Len(s)]
        /\ \A i \in 1 .. Len(s) : f[i] = IF i \in Q THEN Append(f[i - 1], s[i]) ELSE f[i - 1]
    <3>1. PicksTo(V, s, Q, PickOf(s, Q))
      BY <1>2, PickStep
    <3> QED
      BY <3>1 DEF PicksTo
  <2> HIDE DEF f, m
  <2> QED
    BY <1>2, <2>1
<1>0. \A i \in 1 .. n : i \in P <=> i \in a .. b /\ i - a + 1 \in Q
  OBVIOUS
<1> HIDE DEF f, n
<1>4. g[0] = <<>>
  BY <1>1
<1>5. ASSUME NEW i \in 1 .. n PROVE g[i] = IF i \in P THEN Append(g[i - 1], ls[i]) ELSE g[i - 1]
  <2>1. i \in 0 .. n /\ i - 1 \in 0 .. n
    BY <1>1
  <2>2. CASE i < a
    <3>1. i - 1 < a /\ i \notin P
      BY <1>0, <1>1, <2>2
    <3> QED
      BY <2>1, <2>2, <3>1
  <2>3. CASE i > b /\ ~(i < a)
    <3>1. i \notin P /\ ~(i <= b)
      BY <1>0, <1>1, <2>3
    <3>2. g[i] = f[m]
      BY <2>1, <2>3, <3>1
    <3>3. g[i - 1] = f[m]
      <4>1. CASE i - 1 < a
        <5>1. i = a /\ m = 0
          BY <1>1, <2>3, <4>1
        <5> QED
          BY <1>3, <2>1, <4>1, <5>1
      <4>2. CASE ~(i - 1 < a) /\ i - 1 <= b
        <5>1. (i - 1) - a + 1 = m
          BY <1>1, <2>3, <4>2
        <5> QED
          BY <2>1, <4>2, <5>1
      <4>3. CASE ~(i - 1 < a) /\ ~(i - 1 <= b)
        BY <2>1, <4>3
      <4> QED
        BY <4>1, <4>2, <4>3
    <3> QED
      BY <3>1, <3>2, <3>3
  <2>4. CASE a <= i /\ i <= b
    <3> DEFINE k == i - a + 1
    <3>1. k \in 1 .. m /\ k - 1 = (i - 1) - a + 1 /\ a + k - 1 = i /\ ~(i < a) /\ (i \in P <=> k \in Q)
      BY <1>0, <1>1, <2>4
    <3>2. g[i] = f[k]
      BY <2>1, <2>4, <3>1
    <3>3. g[i - 1] = f[k - 1]
      <4>1. CASE i = a
        <5>1. i - 1 < a /\ k - 1 = 0
          BY <1>1, <4>1
        <5> QED
          BY <1>3, <2>1, <5>1
      <4>2. CASE i # a
        <5>1. ~(i - 1 < a) /\ i - 1 <= b
          BY <1>1, <2>4, <4>2
        <5> QED
          BY <2>1, <3>1, <5>1
      <4> QED
        BY <4>1, <4>2
    <3>4. s[k] = ls[i]
      BY <1>2, <3>1
    <3>5. f[k] = IF k \in Q THEN Append(f[k - 1], s[k]) ELSE f[k - 1]
      BY <1>3, <3>1
    <3> HIDE DEF k
    <3> QED
      BY <3>1, <3>2, <3>3, <3>4, <3>5
  <2> QED
    BY <1>1, <2>2, <2>3, <2>4
<1>6. g[n] = f[m]
  <2>0. n \in 0 .. n
    BY <1>1
  <2>1. CASE n < a
    <3>1. m = 0
      BY <1>1, <2>1
    <3> QED
      BY <1>3, <2>0, <2>1, <3>1
  <2>2. CASE ~(n < a) /\ n <= b
    <3>1. n - a + 1 = m
      BY <1>1, <2>2
    <3> QED
      BY <2>0, <2>2, <3>1
  <2>3. CASE ~(n < a) /\ ~(n <= b)
    BY <2>0, <2>3
  <2> QED
    BY <2>1, <2>2, <2>3
<1> HIDE DEF g, m
<1>7. n \in 0 .. Len(ls) /\ n \in 0 .. n /\ n = Len(ls)
  BY <1>1 DEF n
<1>8. \A i \in 0 .. n : PickOf(ls, P)[i] = g[i]
  <2>1. \A i \in 1 .. n : g[i] = IF i \in P THEN Append(g[i - 1], ls[i]) ELSE g[i - 1]
    BY <1>5
  <2>2. ls \in Seq(V) /\ n \in 0 .. Len(ls)
    BY <1>7
  <2> QED
    BY <1>4, <2>1, <2>2, PickedBy, SMTT(60)
<1>9. Picked(ls, P) = PickOf(ls, P)[n]
  BY <1>7, PickStep DEF PicksTo
<1> QED
  BY <1>3, <1>6, <1>7, <1>8, <1>9

-----------------------------------------------------------------------------
(* filter_platform: the lines that Scan keeps.                             *)

Scanned(V) == [out : Seq(V), inBlock : BOOLEAN, keep : BOOLEAN]
Scans(f, ls, platform) ==
  f = [i \in 0 .. Len(ls) |->
         IF i = 0 THEN [out |-> <<>>, inBlock |-> FALSE, keep |-> FALSE]
         ELSE Scan(f[i - 1], ls[i], platform)]
ScanOf(ls, platform) == CHOOSE f : Scans(f, ls, platform)

\* r is what one line makes of s.
IsScan(V, s, l, platform, r) ==
  /\ r \in Scanned(V)
  /\ l.kind = "open" =>
       r.out = s.out /\ r.inBlock = TRUE /\ r.keep = (platform \in l.names)
  /\ l.kind = "close" => r.out = s.out /\ r.inBlock = FALSE
  /\ l.kind \notin {"open", "close"} =>
       /\ r.inBlock = s.inBlock /\ r.keep = s.keep
       /\ r.out = IF s.inBlock /\ ~s.keep THEN s.out ELSE Append(s.out, l)

\* Scan, by the kinds of lines.
LEMMA ScanIs ==
  ASSUME NEW V, NEW s \in Scanned(V), NEW l \in V, NEW platform
  PROVE  IsScan(V, s, l, platform, Scan(s, l, platform))
<1> USE DEF IsScan
<1>1. PICK out \in Seq(V), a \in BOOLEAN, b \in BOOLEAN :
        s = [out |-> out, inBlock |-> a, keep |-> b]
  BY DEF Scanned
<1>2. s.out = out /\ s.inBlock = a /\ s.keep = b
  BY <1>1
<1> DEFINE c == platform \in l.names
<1>3. CASE l.kind = "open"
  <2>1. Scan(s, l, platform) = [out |-> out, inBlock |-> TRUE, keep |-> c]
    BY <1>1, <1>3 DEF Scan
  <2> QED
    BY <1>2, <1>3, <2>1 DEF Scanned
<1>4. CASE l.kind = "close"
  <2>1. Scan(s, l, platform) = [out |-> out, inBlock |-> FALSE, keep |-> FALSE]
    BY <1>1, <1>4 DEF Scan
  <2> QED
    BY <1>2, <1>4, <2>1 DEF Scanned
<1>5. CASE l.kind \notin {"open", "close"} /\ a /\ ~b
  <2>1. Scan(s, l, platform) = s
    BY <1>2, <1>5 DEF Scan
  <2> QED
    BY <1>2, <1>5, <2>1
<1>6. CASE l.kind \notin {"open", "close"} /\ ~(a /\ ~b)
  <2>1. Scan(s, l, platform) = [out |-> Append(out, l), inBlock |-> a, keep |-> b]
    BY <1>1, <1>2, <1>6 DEF Scan
  <2>2. Append(out, l) \in Seq(V)
    OBVIOUS
  <2> QED
    BY <1>2, <1>6, <2>1, <2>2 DEF Scanned
<1> QED
  BY <1>3, <1>4, <1>5, <1>6

ScansTo(V, ls, platform, f) ==
  /\ \A i \in 0 .. Len(ls) : f[i] \in Scanned(V)
  /\ f[0] = [out |-> <<>>, inBlock |-> FALSE, keep |-> FALSE]
  /\ \A i \in 1 .. Len(ls) : f[i] = Scan(f[i - 1], ls[i], platform)
  /\ Kept(ls, platform) = f[Len(ls)].out

\* The scan of one line more.
LEMMA ScanStep ==
  ASSUME NEW V, NEW ls \in Seq(V), NEW platform
  PROVE  ScansTo(V, ls, platform, ScanOf(ls, platform))
<1> DEFINE n == Len(ls)
           base == [out |-> <<>>, inBlock |-> FALSE, keep |-> FALSE]
           step == [p \in (1 .. n) \X Scanned(V) |-> Scan(p[2], ls[p[1]], platform)]
           g == ScanOf(ls, platform)
<1>1. n \in Nat /\ \A i \in 1 .. n : ls[i] \in V
  OBVIOUS
<1>2. step \in [(1 .. n) \X Scanned(V) -> Scanned(V)]
  BY <1>1, ScanIs DEF IsScan
<1>3. base \in Scanned(V)
  BY DEF Scanned
<1>4. PICK f \in [0 .. n -> Scanned(V)] : Recursion(f, n, base, step)
  <2> HIDE DEF step, n, base
  <2> QED
    BY <1>1, <1>2, <1>3, RecursionExists
<1>5. ASSUME NEW i \in 0 .. n, i # 0 PROVE step[<<i, f[i - 1]>>] = Scan(f[i - 1], ls[i], platform)
  <2>1. i \in 1 .. n /\ i - 1 \in 0 .. n
    BY <1>1, <1>5
  <2>2. <<i, f[i - 1]>> \in (1 .. n) \X Scanned(V)
    BY <1>4, <2>1
  <2> QED
    BY <2>2
<1> HIDE DEF base
<1>6. Scans(f, ls, platform)
  BY <1>4, <1>5 DEF Recursion, Scans, base
<1>7. Scans(g, ls, platform)
  BY <1>6 DEF ScanOf
<1>8. \A i \in 0 .. n : g[i] = IF i = 0 THEN base ELSE Scan(g[i - 1], ls[i], platform)
  BY <1>7 DEF Scans, base
<1>9. Kept(ls, platform) = g[n].out
  BY DEF Kept, ScanOf, Scans
<1> HIDE DEF g, n
<1> DEFINE S == {i \in 0 .. n : g[i] \in Scanned(V)}
<1>10. 0 \in S
  BY <1>1, <1>3, <1>8
<1>11. ASSUME NEW i \in 0 .. n, i \in S, i < n PROVE i + 1 \in S
  <2>1. i + 1 \in 0 .. n /\ i + 1 \in 1 .. n /\ i + 1 # 0 /\ (i + 1) - 1 = i
    BY <1>1, <1>11
  <2>2. g[i + 1] = Scan(g[i], ls[i + 1], platform) /\ ls[i + 1] \in V /\ g[i] \in Scanned(V)
    BY <1>1, <1>8, <1>11, <2>1
  <2>3. IsScan(V, g[i], ls[i + 1], platform, g[i + 1])
    BY <2>2, ScanIs
  <2>4. g[i + 1] \in Scanned(V)
    BY <2>3 DEF IsScan
  <2> QED
    BY <2>1, <2>4
<1>12. 0 .. n \subseteq S
  <2> HIDE DEF S
  <2> QED
    BY <1>1, <1>10, <1>11, UpTo
<1>13. g[0] = base
  BY <1>1, <1>8
<1>14. \A i \in 1 .. n : g[i] = Scan(g[i - 1], ls[i], platform)
  BY <1>1, <1>8
<1>15. /\ \A i \in 0 .. n : g[i] \in Scanned(V)
       /\ g[0] = base /\ \A i \in 1 .. n : g[i] = Scan(g[i - 1], ls[i], platform)
       /\ Kept(ls, platform) = g[n].out
  BY <1>9, <1>12, <1>13, <1>14
<1> QED
  BY <1>15 DEF ScansTo, g, n, base

\* The lines above a place that are markers, and whether the last one lets the
\* text after it be shown.
Above(ls, i) == {j \in 1 .. i - 1 : ls[j].kind \in {"open", "close"}}
Shows(ls, i, platform) ==
  \/ Above(ls, i) = {}
  \/ \E last \in Above(ls, i) :
       /\ \A k \in Above(ls, i) : k <= last
       /\ ls[last].kind = "close" \/ platform \in ls[last].names

\* The scan shows a line just where the marker that governs it says so.
LEMMA GovernedIs ==
  ASSUME NEW V, NEW ls \in Seq(V), NEW i \in 1 .. Len(ls) + 1, NEW platform
  PROVE  Governed(ls, i, platform) <=> Shows(ls, i, platform)
<1> DEFINE A == Above(ls, i)
<1>1. Governed(ls, i, platform) <=>
        \/ A = {}
        \/ LET last == CHOOSE j \in A : \A k \in A : k <= j
           IN  ls[last].kind = "close" \/ platform \in ls[last].names
  BY DEF Governed, Above
<1>2. CASE A = {}
  BY <1>1, <1>2 DEF Shows
<1>3. CASE A # {}
  <2>1. i - 1 \in Nat /\ A \in SUBSET (1 .. i - 1)
    BY DEF Above
  <2> DEFINE last == CHOOSE j \in A : \A k \in A : k <= j
  <2> HIDE DEF A
  <2>2. \E j \in A : \A k \in A : k <= j
    <3> DEFINE n == i - 1
    <3>1. n \in Nat /\ A \in SUBSET (1 .. n)
      BY <2>1
    <3> HIDE DEF n
    <3> QED
      BY <1>3, <3>1, LastOf
  <2>3. last \in A /\ \A k \in A : k <= last
    BY <2>2
  <2>4. ASSUME NEW x \in A, \A k \in A : k <= x PROVE x = last
    <3> HIDE DEF last
    <3>1. x <= last /\ last <= x
      BY <2>3, <2>4
    <3>2. x \in Int /\ last \in Int
      BY <2>1, <2>3
    <3> QED
      BY <3>1, <3>2
  <2> HIDE DEF last
  <2>5. Governed(ls, i, platform) <=> (ls[last].kind = "close" \/ platform \in ls[last].names)
    BY <1>1, <1>3 DEF last
  <2>6. Shows(ls, i, platform) <=> (ls[last].kind = "close" \/ platform \in ls[last].names)
    BY <1>3, <2>3, <2>4 DEF Shows, A
  <2> QED
    BY <2>5, <2>6
<1> QED
  BY <1>2, <1>3

\* A marker decides for the lines after it, another line changes nothing.
LEMMA ShowsStep ==
  ASSUME NEW V, NEW ls \in Seq(V), NEW platform
  PROVE  /\ Shows(ls, 1, platform)
         /\ \A i \in 1 .. Len(ls) :
              /\ ls[i].kind \notin {"open", "close"} =>
                   (Shows(ls, i + 1, platform) <=> Shows(ls, i, platform))
              /\ ls[i].kind \in {"open", "close"} =>
                   (Shows(ls, i + 1, platform) <=>
                      (ls[i].kind = "close" \/ platform \in ls[i].names))
<1>1. Shows(ls, 1, platform)
  BY DEF Shows, Above
<1>2. ASSUME NEW i \in 1 .. Len(ls)
      PROVE  /\ ls[i].kind \notin {"open", "close"} =>
                  (Shows(ls, i + 1, platform) <=> Shows(ls, i, platform))
             /\ ls[i].kind \in {"open", "close"} =>
                  (Shows(ls, i + 1, platform) <=>
                     (ls[i].kind = "close" \/ platform \in ls[i].names))
  <2>1. /\ \A j : j \in 1 .. (i + 1) - 1 <=> (j \in 1 .. i - 1 \/ j = i)
        /\ \A j \in 1 .. i - 1 : j <= i /\ ~(i <= j)
        /\ i <= i
    OBVIOUS
  <2>2. CASE ls[i].kind \notin {"open", "close"}
    <3>1. Above(ls, i + 1) = Above(ls, i)
      BY <2>1, <2>2 DEF Above
    <3> QED
      BY <2>2, <3>1 DEF Shows
  <2>3. CASE ls[i].kind \in {"open", "close"}
    <3>1. /\ i \in Above(ls, i + 1)
          /\ \A k \in Above(ls, i + 1) : k <= i /\ (i <= k => k = i)
      BY <2>1, <2>3 DEF Above
    <3>2. Shows(ls, i + 1, platform) <=> (ls[i].kind = "close" \/ platform \in ls[i].names)
      BY <3>1 DEF Shows
    <3> QED
      BY <2>3, <3>2
  <2> QED
    BY <2>2, <2>3
<1> QED
  BY <1>1, <1>2

\* What is kept has the text that the last marker above it lets through.
LEMMA TextKept ==
  ASSUME NEW V, NEW ls \in Seq(V), NEW platform, NEW T,
         \A l \in V : l \in T <=> l.kind = "text"
  PROVE  /\ Kept(ls, platform) \in Seq(V)
         /\ Of(Kept(ls, platform), T) = TextFor(ls, platform)
<1> DEFINE n == Len(ls)
           f == ScanOf(ls, platform)
           P == {i \in DOMAIN ls : ls[i].kind = "text" /\ Governed(ls, i, platform)}
           g == [i \in 0 .. n |-> Of(f[i].out, T)]
           S == {i \in 0 .. n : (f[i].inBlock /\ ~f[i].keep) <=> ~Shows(ls, i + 1, platform)}
<1>0. n \in Nat /\ \A i \in 1 .. n : ls[i] \in V
  OBVIOUS
<1>1. ScansTo(V, ls, platform, f)
  BY ScanStep
<1>2. /\ \A i \in 0 .. n : f[i] \in Scanned(V)
      /\ f[0] = [out |-> <<>>, inBlock |-> FALSE, keep |-> FALSE]
      /\ \A i \in 1 .. n : f[i] = Scan(f[i - 1], ls[i], platform)
      /\ Kept(ls, platform) = f[n].out
  BY <1>1 DEF ScansTo
<1> HIDE DEF f
<1>3. \A i \in 1 .. n : i \in 0 .. n /\ i - 1 \in 0 .. n
  BY <1>0
<1>4. 0 .. n \subseteq S
  <2>1. 0 \in S
    <3>1. Shows(ls, 0 + 1, platform) /\ 0 \in 0 .. n
      BY <1>0, ShowsStep
    <3>2. f[0].inBlock = FALSE
      BY <1>2
    <3> QED
      BY <3>1, <3>2
  <2>2. ASSUME NEW i \in 0 .. n, i \in S, i < n PROVE i + 1 \in S
    <3> DEFINE k == i + 1
    <3>1. k \in 0 .. n /\ k \in 1 .. n /\ k - 1 = i
      BY <1>0, <2>2
    <3>2. /\ f[k] = Scan(f[i], ls[k], platform) /\ f[i] \in Scanned(V) /\ ls[k] \in V
          /\ (f[i].inBlock /\ ~f[i].keep) <=> ~Shows(ls, k, platform)
      BY <1>0, <1>2, <2>2, <3>1
    <3> HIDE DEF k
    <3>3. /\ ls[k].kind \notin {"open", "close"} =>
               (Shows(ls, k + 1, platform) <=> Shows(ls, k, platform))
          /\ ls[k].kind \in {"open", "close"} =>
               (Shows(ls, k + 1, platform) <=> (ls[k].kind = "close" \/ platform \in ls[k].names))
      BY <3>1, ShowsStep
    <3>6. IsScan(V, f[i], ls[k], platform, f[k])
      BY <3>2, ScanIs
    <3>4. (f[k].inBlock /\ ~f[k].keep) <=> ~Shows(ls, k + 1, platform)
      <4>1. CASE ls[k].kind = "open"
        <5>1. f[k].inBlock = TRUE /\ f[k].keep = (platform \in ls[k].names)
          BY <4>1, <3>6 DEF IsScan
        <5> QED
          BY <3>3, <4>1, <5>1
      <4>2. CASE ls[k].kind = "close"
        <5>1. f[k].inBlock = FALSE
          BY <4>2, <3>6 DEF IsScan
        <5> QED
          BY <3>3, <4>2, <5>1
      <4>3. CASE ls[k].kind \notin {"open", "close"}
        <5>1. f[k].inBlock = f[i].inBlock /\ f[k].keep = f[i].keep
          BY <4>3, <3>6 DEF IsScan
        <5> QED
          BY <3>2, <3>3, <4>3, <5>1
      <4> QED
        BY <4>1, <4>2, <4>3
    <3>5. k \in S
      BY <3>1, <3>4
    <3> QED
      BY <3>5 DEF k
  <2> HIDE DEF S
  <2> QED
    BY <1>0, <2>1, <2>2, UpTo
<1>5. \A i \in 0 .. n : f[i].out \in Seq(V)
  BY <1>2 DEF Scanned
<1>6. g[0] = <<>>
  <2>1. 0 \in 0 .. n /\ f[0].out = <<>>
    BY <1>0, <1>2
  <2> QED
    BY <2>1, OfNone
<1>7. ASSUME NEW i \in 1 .. n PROVE g[i] = IF i \in P THEN Append(g[i - 1], ls[i]) ELSE g[i - 1]
  <2>1. /\ f[i] = Scan(f[i - 1], ls[i], platform) /\ f[i - 1] \in Scanned(V) /\ ls[i] \in V
        /\ i - 1 \in 0 .. n /\ i \in 0 .. n
    BY <1>0, <1>2, <1>3
  <2>2. i \in P <=> ls[i].kind = "text" /\ Shows(ls, i, platform)
    <3>1. i \in 1 .. Len(ls) + 1 /\ i \in DOMAIN ls
      BY <1>0
    <3> QED
      BY <3>1, GovernedIs
  <2>3. (f[i - 1].inBlock /\ ~f[i - 1].keep) <=> ~Shows(ls, i, platform)
    <3>1. (i - 1) + 1 = i
      BY <1>0
    <3> QED
      BY <1>4, <2>1, <3>1
  <2>4. g[i] = Of(f[i].out, T) /\ g[i - 1] = Of(f[i - 1].out, T)
    BY <2>1
  <2> DEFINE s == f[i - 1].out
             l == ls[i]
  <2>5. Of(Append(s, l), T) = IF l \in T THEN Append(Of(s, T), l) ELSE Of(s, T)
    <3>1. s \in Seq(V) /\ l \in V
      BY <1>5, <2>1
    <3> HIDE DEF s, l
    <3> QED
      BY <3>1, OfAppend
  <2>8. IsScan(V, f[i - 1], ls[i], platform, f[i])
    BY <2>1, ScanIs
  <2>6. CASE l.kind \in {"open", "close"}
    <3>1. f[i].out = s
      BY <2>6, <2>8 DEF IsScan
    <3>2. i \notin P
      BY <2>2, <2>6
    <3> QED
      BY <2>4, <3>1, <3>2
  <2>7. CASE l.kind \notin {"open", "close"}
    <3>1. f[i].out = IF f[i - 1].inBlock /\ ~f[i - 1].keep THEN s ELSE Append(s, l)
      BY <2>7, <2>8 DEF IsScan
    <3>2. f[i].out = IF Shows(ls, i, platform) THEN Append(s, l) ELSE s
      BY <2>3, <3>1
    <3>3. l \in T <=> l.kind = "text"
      BY <2>1
    <3> HIDE DEF s, l, P, g
    <3>4. i \in P <=> l \in T /\ Shows(ls, i, platform)
      BY <2>2, <3>3 DEF l
    <3>5. Of(f[i].out, T) = IF i \in P THEN Append(Of(s, T), l) ELSE Of(s, T)
      BY <2>5, <3>2, <3>4
    <3> QED
      BY <2>4, <3>5 DEF s, l
  <2> QED
    BY <2>6, <2>7
<1>8. n \in 0 .. Len(ls) /\ n \in 0 .. n /\ n = Len(ls)
  BY <1>0
<1> HIDE DEF g, P, n
<1>9. \A i \in 0 .. n : PickOf(ls, P)[i] = g[i]
  BY <1>6, <1>7, <1>8, PickedBy
<1>10. Picked(ls, P) = PickOf(ls, P)[n]
  BY <1>8, PickStep DEF PicksTo
<1>11. g[n] = Of(f[n].out, T)
  BY <1>8 DEF g
<1> QED
  BY <1>2, <1>5, <1>8, <1>9, <1>10, <1>11 DEF TextFor, P

-----------------------------------------------------------------------------
(* The text of one mode.                                                   *)

Cuts(f, ls) ==
  f = [i \in 0 .. Len(ls) |->
         IF i = 0 THEN <<>>
         ELSE LET s == f[i - 1] IN
              IF Blank(ls[i]) /\ Len(s) > 1 /\ Blank(s[Len(s)]) /\ Blank(s[Len(s) - 1])
              THEN s ELSE Append(s, ls[i])]
CutOf(ls) == CHOOSE f : Cuts(f, ls)

\* A line is added, but for a third blank one.
Third(s, l) == Blank(l) /\ Len(s) > 1 /\ Blank(s[Len(s)]) /\ Blank(s[Len(s) - 1])
CutsTo(V, ls, f) ==
  /\ f[0] = <<>> /\ \A i \in 0 .. Len(ls) : f[i] \in Seq(V)
  /\ \A i \in 1 .. Len(ls) : f[i] = IF Third(f[i - 1], ls[i]) THEN f[i - 1] ELSE Append(f[i - 1], ls[i])
  /\ Collapsed(ls) = f[Len(ls)]

\* Collapsed goes through one line more.
LEMMA CutStep ==
  ASSUME NEW V, NEW ls \in Seq(V)
  PROVE  CutsTo(V, ls, CutOf(ls))
<1> DEFINE n == Len(ls)
           step == [p \in (1 .. n) \X Seq(V) |->
                      IF Third(p[2], ls[p[1]]) THEN p[2] ELSE Append(p[2], ls[p[1]])]
           g == CutOf(ls)
<1>1. n \in Nat /\ \A i \in 1 .. n : ls[i] \in V
  OBVIOUS
<1>2. step \in [(1 .. n) \X Seq(V) -> Seq(V)]
  BY <1>1
<1>3. <<>> \in Seq(V)
  OBVIOUS
<1>4. PICK f \in [0 .. n -> Seq(V)] : Recursion(f, n, <<>>, step)
  <2> HIDE DEF step, n
  <2> QED
    BY <1>1, <1>2, <1>3, RecursionExists
<1>5. ASSUME NEW i \in 0 .. n, i # 0
      PROVE  step[<<i, f[i - 1]>>] = IF Third(f[i - 1], ls[i]) THEN f[i - 1] ELSE Append(f[i - 1], ls[i])
  <2>1. i \in 1 .. n /\ i - 1 \in 0 .. n
    BY <1>1, <1>5
  <2>2. <<i, f[i - 1]>> \in (1 .. n) \X Seq(V)
    BY <1>4, <2>1
  <2> QED
    BY <2>2
<1>6. Cuts(f, ls)
  <2> HIDE DEF step, n
  <2>1. f = [i \in 0 .. n |-> IF i = 0 THEN <<>>
                      ELSE IF Third(f[i - 1], ls[i]) THEN f[i - 1] ELSE Append(f[i - 1], ls[i])]
    BY <1>4, <1>5 DEF Recursion
  <2> QED
    BY <2>1 DEF Cuts, Third, n
<1>7. Cuts(g, ls)
  BY <1>6 DEF CutOf
<1>8. \A i \in 0 .. n : g[i] = IF i = 0 THEN <<>>
                          ELSE IF Third(g[i - 1], ls[i]) THEN g[i - 1] ELSE Append(g[i - 1], ls[i])
  BY <1>7 DEF Cuts, Third
<1>9. Collapsed(ls) = g[n]
  BY DEF Collapsed, CutOf, Cuts
<1> HIDE DEF g, n
<1> DEFINE S == {i \in 0 .. n : g[i] \in Seq(V)}
<1>10. 0 \in S
  <2>1. 0 \in 0 .. n
    BY <1>1
  <2>2. g[0] = <<>>
    BY <1>8, <2>1
  <2> QED
    BY <1>3, <2>1, <2>2
<1>11. ASSUME NEW i \in 0 .. n, i \in S, i < n PROVE i + 1 \in S
  <2>1. i + 1 \in 0 .. n /\ i + 1 \in 1 .. n /\ i + 1 # 0 /\ (i + 1) - 1 = i
    BY <1>1, <1>11
  <2>2. /\ g[i + 1] = IF Third(g[i], ls[i + 1]) THEN g[i] ELSE Append(g[i], ls[i + 1])
        /\ ls[i + 1] \in V /\ g[i] \in Seq(V)
    BY <1>1, <1>8, <1>11, <2>1
  <2>3. Append(g[i], ls[i + 1]) \in Seq(V)
    BY <2>2, AppendProperties
  <2> QED
    BY <2>1, <2>2, <2>3
<1>12. 0 .. n \subseteq S
  <2> HIDE DEF S
  <2> QED
    BY <1>1, <1>10, <1>11, UpTo
<1>13. g[0] = <<>>
  BY <1>1, <1>8
<1>14. \A i \in 1 .. n : g[i] = IF Third(g[i - 1], ls[i]) THEN g[i - 1] ELSE Append(g[i - 1], ls[i])
  BY <1>1, <1>8
<1> QED
  BY <1>9, <1>12, <1>13, <1>14 DEF CutsTo, g, n

\* No three blank lines in a row.
Spaced(s) == \A i \in 1 .. Len(s) - 2 : \E j \in i .. i + 2 : ~Blank(s[j])

\* A line that is not a third blank one keeps the lines spaced.
LEMMA SpacedStep ==
  ASSUME NEW V, NEW s \in Seq(V), NEW l \in V, Spaced(s), ~Third(s, l)
  PROVE  Spaced(Append(s, l))
<1> DEFINE a == Append(s, l)
           n == Len(s)
<1>1. /\ n \in Nat /\ a \in Seq(V) /\ Len(a) = n + 1 /\ a[n + 1] = l
      /\ \A i \in 1 .. n : a[i] = s[i]
  BY AppendProperties
<1> HIDE DEF a
<1>2. ASSUME NEW i \in 1 .. (n + 1) - 2 PROVE \E j \in i .. i + 2 : ~Blank(a[j])
  <2>1. CASE i <= n - 2
    <3>1. i \in 1 .. Len(s) - 2 /\ \A j \in i .. i + 2 : j \in 1 .. n
      BY <1>1, <2>1
    <3>2. PICK j \in i .. i + 2 : ~Blank(s[j])
      BY <3>1 DEF Spaced
    <3> QED
      BY <1>1, <3>1, <3>2
  <2>2. CASE ~(i <= n - 2)
    <3>1. /\ i = n - 1 /\ n > 1 /\ n \in i .. i + 2 /\ n - 1 \in i .. i + 2 /\ n + 1 \in i .. i + 2
          /\ n \in 1 .. n /\ n - 1 \in 1 .. n
      BY <1>1, <2>2
    <3>2. ~Blank(l) \/ ~Blank(s[n]) \/ ~Blank(s[n - 1])
      BY <3>1 DEF Third
    <3>3. a[n] = s[n] /\ a[n - 1] = s[n - 1] /\ a[n + 1] = l
      BY <1>1, <3>1
    <3> HIDE DEF n
    <3> QED
      BY <3>1, <3>2, <3>3
  <2> QED
    BY <2>1, <2>2
<1> QED
  BY <1>1, <1>2 DEF Spaced, a

\* Collapsed drops blank lines only, and leaves no three of them in a row.
LEMMA CollapsedIs ==
  ASSUME NEW V, NEW ls \in Seq(V), NEW T, \A l \in V : Blank(l) => l \notin T
  PROVE  /\ Collapsed(ls) \in Seq(V) /\ Of(Collapsed(ls), T) = Of(ls, T)
         /\ Spaced(Collapsed(ls))
<1> DEFINE n == Len(ls)
           f == CutOf(ls)
           P == {i \in DOMAIN ls : ls[i] \in T}
           g == [i \in 0 .. n |-> Of(f[i], T)]
           S == {i \in 0 .. n : Spaced(f[i])}
<1>0. n \in Nat /\ \A i \in 1 .. n : ls[i] \in V
  OBVIOUS
<1>1. CutsTo(V, ls, f)
  BY CutStep
<1>2. /\ f[0] = <<>> /\ \A i \in 0 .. n : f[i] \in Seq(V)
      /\ \A i \in 1 .. n : f[i] = IF Third(f[i - 1], ls[i]) THEN f[i - 1] ELSE Append(f[i - 1], ls[i])
      /\ Collapsed(ls) = f[n]
  BY <1>1 DEF CutsTo
<1> HIDE DEF f
<1>3. 0 \in S
  <2>1. Spaced(<<>>)
    BY DEF Spaced
  <2> QED
    BY <1>0, <1>2, <2>1
<1>4. ASSUME NEW i \in 0 .. n, i \in S, i < n PROVE i + 1 \in S
  <2>1. i + 1 \in 0 .. n /\ i + 1 \in 1 .. n /\ (i + 1) - 1 = i
    BY <1>0, <1>4
  <2>2. /\ f[i + 1] = IF Third(f[i], ls[i + 1]) THEN f[i] ELSE Append(f[i], ls[i + 1])
        /\ f[i] \in Seq(V) /\ ls[i + 1] \in V /\ Spaced(f[i])
    BY <1>0, <1>2, <1>4, <2>1
  <2>3. ~Third(f[i], ls[i + 1]) => Spaced(Append(f[i], ls[i + 1]))
    BY <2>2, SpacedStep
  <2> QED
    BY <2>1, <2>2, <2>3
<1>5. 0 .. n \subseteq S
  <2> HIDE DEF S
  <2> QED
    BY <1>0, <1>3, <1>4, UpTo
<1>6. n \in 0 .. Len(ls) /\ n \in 0 .. n /\ n = Len(ls)
  BY <1>0
<1>7. g[0] = <<>>
  <2>1. 0 \in 0 .. n
    BY <1>0
  <2> QED
    BY <1>2, <2>1, OfNone
<1>8. ASSUME NEW i \in 1 .. n PROVE g[i] = IF i \in P THEN Append(g[i - 1], ls[i]) ELSE g[i - 1]
  <2>1. i \in 0 .. n /\ i - 1 \in 0 .. n /\ i \in DOMAIN ls
    BY <1>0
  <2> DEFINE s == f[i - 1]
             l == ls[i]
  <2>2. /\ s \in Seq(V) /\ l \in V /\ g[i] = Of(f[i], T) /\ g[i - 1] = Of(s, T)
        /\ f[i] = IF Third(s, l) THEN s ELSE Append(s, l)
    BY <1>0, <1>2, <2>1
  <2>3. i \in P <=> l \in T
    BY <2>1
  <2> HIDE DEF s, l, g, P
  <2>4. Of(Append(s, l), T) = IF l \in T THEN Append(Of(s, T), l) ELSE Of(s, T)
    BY <2>2, OfAppend
  <2>5. Third(s, l) => l \notin T
    BY <2>2 DEF Third
  <2>6. g[i] = IF i \in P THEN Append(g[i - 1], l) ELSE g[i - 1]
    BY <2>2, <2>3, <2>4, <2>5
  <2> QED
    BY <2>6 DEF l
<1>9. g[n] = Of(f[n], T)
  BY <1>6
<1>10. Spaced(f[n]) /\ f[n] \in Seq(V)
  BY <1>2, <1>5, <1>6
<1> HIDE DEF g, P, n
<1>11. \A i \in 0 .. n : PickOf(ls, P)[i] = g[i]
  BY <1>6, <1>7, <1>8, PickedBy
<1>12. Picked(ls, P) = PickOf(ls, P)[n]
  BY <1>6, PickStep DEF PicksTo
<1> QED
  BY <1>2, <1>6, <1>9, <1>10, <1>11, <1>12 DEF Of, P

\* Trimmed drops blank lines only, at the ends.
LEMMA TrimmedIs ==
  ASSUME NEW V, NEW ls \in Seq(V), NEW T, \A l \in V : Blank(l) => l \notin T, Spaced(ls)
  PROVE  Trimmed(ls) \in Seq(V) /\ Of(Trimmed(ls), T) = Of(ls, T) /\ Spaced(Trimmed(ls))
<1> DEFINE n == Len(ls)
           full == {i \in DOMAIN ls : ~Blank(ls[i])}
           m == IF full = {} THEN 0 ELSE CHOOSE i \in full : \A j \in full : j <= i
           s == SubSeq(ls, 1, m)
<1>0. n \in Nat /\ DOMAIN ls = 1 .. n /\ \A i \in 1 .. n : ls[i] \in V
  OBVIOUS
<1>1. m \in 0 .. n /\ \A i \in 1 .. n : i > m => Blank(ls[i])
  <2>1. CASE full = {}
    BY <1>0, <2>1
  <2>2. CASE full # {}
    <3>1. full \in SUBSET (1 .. n)
      BY <1>0
    <3>2. \E i \in full : \A j \in full : j <= i
      <4> HIDE DEF full, n
      <4> QED
        BY <1>0, <2>2, <3>1, LastOf
    <3>3. m \in full /\ \A j \in full : j <= m
      BY <2>2, <3>2
    <3> HIDE DEF m
    <3>4. m \in 1 .. n
      BY <1>0, <3>1, <3>3
    <3> QED
      BY <1>0, <3>3, <3>4
  <2> QED
    BY <2>1, <2>2
<1>2. Trimmed(ls) = s
  BY DEF Trimmed
<1> HIDE DEF m, full
<1>3. s \in Seq(V) /\ Len(s) = m /\ \A i \in 1 .. m : s[i] = ls[i]
  <2>1. \A i \in 1 .. m : ls[i] \in V
    BY <1>0, <1>1
  <2>2. /\ s \in Seq(V) /\ Len(s) = IF 1 <= m THEN m - 1 + 1 ELSE 0
        /\ \A i \in 1 .. m - 1 + 1 : s[i] = ls[1 + i - 1]
    BY <1>1, <2>1, SubSeqProperties
  <2> HIDE DEF s
  <2>3. \A i \in 1 .. m : i \in 1 .. m - 1 + 1 /\ 1 + i - 1 = i
    BY <1>1
  <2> QED
    BY <1>1, <2>2, <2>3
<1>4. Spaced(s)
  <2> HIDE DEF s
  <2> SUFFICES ASSUME NEW i \in 1 .. m - 2 PROVE \E j \in i .. i + 2 : ~Blank(s[j])
    BY <1>3 DEF Spaced
  <2>1. i \in 1 .. Len(ls) - 2 /\ \A j \in i .. i + 2 : j \in 1 .. m
    BY <1>0, <1>1
  <2>2. PICK j \in i .. i + 2 : ~Blank(ls[j])
    BY <2>1 DEF Spaced
  <2> QED
    BY <1>3, <2>1, <2>2
<1>5. Of(s, T) = Of(ls, T)
  <2> DEFINE Q == {i \in DOMAIN s : s[i] \in T}
             P == {i \in DOMAIN ls : ls[i] \in T}
             a == 1
  <2>1. DOMAIN s = 1 .. m /\ \A i \in 1 .. n : i - a + 1 = i
    BY <1>0, <1>3
  <2>2. ASSUME NEW i \in 1 .. n PROVE i \in P <=> i \in a .. m /\ i - a + 1 \in Q
    <3> HIDE DEF s
    <3>1. i \in Q <=> i \in 1 .. m /\ s[i] \in T
      BY <2>1
    <3>2. i \in 1 .. m => s[i] = ls[i]
      BY <1>3
    <3>3. i \notin 1 .. m => Blank(ls[i])
      BY <1>0, <1>1
    <3>4. i - a + 1 = i
      BY <2>1
    <3>5. i \in P <=> ls[i] \in T
      BY <1>0
    <3> HIDE DEF P, Q
    <3> QED
      BY <1>0, <3>1, <3>2, <3>3, <3>4, <3>5
  <2>3. a \in 1 .. Len(ls) + 1 /\ m \in a - 1 .. Len(ls) /\ s = SubSeq(ls, a, m)
    BY <1>0, <1>1
  <2>4. Picked(s, Q) = Picked(ls, P)
    <3>1. \A i \in 1 .. Len(ls) : i \in P <=> i \in a .. m /\ i - a + 1 \in Q
      BY <2>2
    <3>2. PartOf(V, ls, a, m, s, P, Q)
      BY <2>3, <3>1 DEF PartOf
    <3> HIDE DEF P, Q, a, s, m
    <3> QED
      BY <3>2, PickedPart
  <2> QED
    BY <2>4 DEF Of
<1> QED
  BY <1>2, <1>3, <1>4, <1>5

\* TextOfOneMode for one text.
LEMMA ShownText ==
  ASSUME NEW V, NEW ls \in Seq(V), NEW platform
  PROVE  LET shown == FilterPlatform(ls, platform) IN
         /\ Picked(shown, {i \in DOMAIN shown : shown[i].kind = "text"}) = TextFor(ls, platform)
         /\ Spaced(shown)
<1> DEFINE T == {l \in V : l.kind = "text"}
           kept == Kept(ls, platform)
           cut == Collapsed(kept)
           shown == Trimmed(cut)
<1>1. \A l \in V : (l \in T <=> l.kind = "text") /\ (Blank(l) => l \notin T)
  BY DEF Blank
<1> HIDE DEF T
<1>2. kept \in Seq(V) /\ Of(kept, T) = TextFor(ls, platform)
  BY <1>1, TextKept
<1> HIDE DEF kept
<1>3. cut \in Seq(V) /\ Of(cut, T) = Of(kept, T) /\ Spaced(cut)
  BY <1>1, <1>2, CollapsedIs
<1> HIDE DEF cut
<1>4. shown \in Seq(V) /\ Of(shown, T) = Of(cut, T) /\ Spaced(shown)
  BY <1>1, <1>3, TrimmedIs
<1> HIDE DEF shown
<1>5. {i \in DOMAIN shown : shown[i].kind = "text"} = {i \in DOMAIN shown : shown[i] \in T}
  <2>1. \A i \in DOMAIN shown : shown[i] \in V
    BY <1>4
  <2> QED
    BY <1>1, <2>1
<1>6. FilterPlatform(ls, platform) = shown
  BY DEF FilterPlatform, kept, cut, shown
<1> QED
  BY <1>2, <1>3, <1>4, <1>5, <1>6 DEF Of

-----------------------------------------------------------------------------
(* The lines of a step.                                                    *)

LEMMA FirstIs ==
  ASSUME NEW n \in Nat, NEW T \in SUBSET (1 .. n), NEW else
  PROVE  /\ T = {} => First(T, else) = else
         /\ T # {} => First(T, else) \in T /\ \A j \in T : First(T, else) <= j
<1>1. CASE T = {}
  BY <1>1 DEF First
<1>2. CASE T # {}
  <2>1. \E m \in T : \A j \in T : m <= j
    BY <1>2, FirstOf
  <2>2. First(T, else) = CHOOSE m \in T : \A j \in T : m <= j
    BY <1>2 DEF First
  <2> QED
    BY <1>2, <2>1, <2>2
<1> QED
  BY <1>1, <1>2

\* What is picked of a range of lines.
LEMMA PickedRange ==
  ASSUME NEW V, NEW ls \in Seq(V), NEW a \in 1 .. Len(ls) + 1, NEW b \in a - 1 .. Len(ls)
  PROVE  Picked(ls, a .. b) = SubSeq(ls, a, b) /\ SubSeq(ls, a, b) \in Seq(V)
<1> DEFINE s == SubSeq(ls, a, b)
           m == b - a + 1
           P == a .. b
           Q == 1 .. Len(s)
<1>1. Len(ls) \in Nat /\ m \in Nat /\ a \in Nat /\ b \in Nat /\ 1 <= a /\ b <= Len(ls)
  OBVIOUS
<1>2. s \in Seq(V) /\ Len(s) = m
  <2>1. \A i \in a .. b : ls[i] \in V
    BY <1>1
  <2>2. m = IF a <= b THEN b - a + 1 ELSE 0
    BY <1>1
  <2> QED
    BY <1>1, <2>1, <2>2, SubSeqProperties
<1>3. PartOf(V, ls, a, b, s, P, Q)
  <2>1. ASSUME NEW i \in 1 .. Len(ls) PROVE i \in P <=> i \in a .. b /\ i - a + 1 \in Q
    <3>1. Q = 1 .. m
      BY <1>2
    <3> HIDE DEF Q, s
    <3> QED
      BY <1>1, <3>1
  <2> HIDE DEF P, Q
  <2> QED
    BY <2>1 DEF PartOf
<1>4. Picked(s, Q) = Picked(ls, P)
  <2> HIDE DEF s, P, Q
  <2> QED
    BY <1>3, PickedPart
<1>5. Picked(s, Q) = s
  <2> HIDE DEF s
  <2> QED
    BY <1>2, PickedAll
<1> QED
  BY <1>2, <1>4, <1>5

\* StepsApart for one step.
LEMMA StepAlone ==
  ASSUME NEW V, NEW ls \in Seq(V), NEW id
  PROVE  LET Over(k) == {i \in 1 .. k : ls[i].kind \in {"step", "heading", "rule"}}
             IsHead(i) == ls[i].kind = "step" /\ ls[i].tag = id
             Owned(k) ==
               \E i \in Over(k) :
                 /\ IsHead(i)
                 /\ \A j \in Over(k) : j <= i
                 /\ \A j \in 1 .. i - 1 : ~IsHead(j)
         IN  (\A i \in DOMAIN ls : ls[i].kind \notin {"index", "phase"}) =>
               Step(ls, id) = Strip(Picked(ls, {k \in DOMAIN ls : Owned(k)}))
<1> DEFINE n == Len(ls)
           Over(k) == {i \in 1 .. k : ls[i].kind \in {"step", "heading", "rule"}}
           IsHead(i) == ls[i].kind = "step" /\ ls[i].tag = id
           Owned(k) ==
             \E i \in Over(k) :
               /\ IsHead(i)
               /\ \A j \in Over(k) : j <= i
               /\ \A j \in 1 .. i - 1 : ~IsHead(j)
           P == {k \in DOMAIN ls : Owned(k)}
           starts == {i \in DOMAIN ls : ls[i].kind = "step" /\ ls[i].tag = id}
           start == First(starts, 0)
           ends == {i \in start + 1 .. Len(ls) : ls[i].kind \in Heads}
           end == First(ends, n + 1)
<1> SUFFICES ASSUME \A i \in DOMAIN ls : ls[i].kind \notin {"index", "phase"}
             PROVE  Step(ls, id) = Strip(Picked(ls, P))
  OBVIOUS
<1>1. n \in Nat /\ DOMAIN ls = 1 .. n
  OBVIOUS
<1>2. Step(ls, id) = IF start = 0 THEN <<>> ELSE Strip(SubSeq(ls, start, end - 1))
  BY DEF Step
<1>3. starts \in SUBSET (1 .. n) /\ \A i \in 1 .. n : i \in starts <=> IsHead(i)
  BY <1>1
<1>4. /\ starts = {} => start = 0
      /\ starts # {} => start \in starts /\ \A j \in starts : start <= j
  <2> HIDE DEF starts, n
  <2> QED
    BY <1>1, <1>3, FirstIs
<1> HIDE DEF start
<1>5. CASE starts = {}
  <2>1. P = {}
    BY <1>1, <1>5
  <2>2. Picked(ls, P) = <<>>
    <3>1. Picked(ls, {}) = Picked(ls, 1 .. 0)
      BY PickedSame
    <3>2. Picked(ls, 1 .. 0) = SubSeq(ls, 1, 0)
      BY PickedRange
    <3>3. SubSeq(ls, 1, 0) = <<>>
      OBVIOUS
    <3> QED
      BY <2>1, <3>1, <3>2, <3>3
  <2>3. Strip(<<>>) = <<>>
    BY DEF Strip
  <2> QED
    BY <1>2, <1>4, <1>5, <2>2, <2>3
<1>6. CASE starts # {}
  <2>1. start \in 1 .. n /\ IsHead(start) /\ (\A j \in 1 .. start - 1 : ~IsHead(j)) /\ start # 0
    <3>1. start \in 1 .. n /\ IsHead(start)
      BY <1>3, <1>4, <1>6
    <3>2. ASSUME NEW j \in 1 .. start - 1 PROVE ~IsHead(j)
      <4>1. j \in 1 .. n /\ ~(start <= j)
        BY <1>1, <3>1
      <4> QED
        BY <1>3, <1>4, <1>6, <4>1
    <3> QED
      BY <3>1, <3>2
  <2>2. ends \in SUBSET (1 .. n)
    BY <1>1, <2>1
  <2>3. /\ ends = {} => end = n + 1
        /\ ends # {} => end \in ends /\ \A j \in ends : end <= j
    <3> HIDE DEF ends, n
    <3> QED
      BY <1>1, <2>2, FirstIs
  <2>4. \A i \in 1 .. n : ls[i].kind \in Heads <=> ls[i].kind \in {"step", "heading", "rule"}
    BY <1>1 DEF Heads
  <2> HIDE DEF end
  <2>5. /\ end \in start + 1 .. n + 1 /\ (end <= n => ls[end].kind \in Heads)
        /\ \A j \in start + 1 .. end - 1 : ls[j].kind \notin Heads
    BY <1>1, <2>1, <2>2, <2>3
  <2>6. ASSUME NEW k \in 1 .. n PROVE Owned(k) <=> k \in start .. end - 1
    <3>1. ASSUME k \in start .. end - 1 PROVE Owned(k)
      <4>1. start \in Over(k)
        BY <1>1, <2>1, <3>1
      <4>2. ASSUME NEW j \in Over(k), j > start PROVE FALSE
        <5>1. j \in start + 1 .. end - 1 /\ j \in 1 .. n
          BY <1>1, <2>1, <2>5, <3>1, <4>2
        <5> QED
          BY <2>4, <2>5, <4>2, <5>1
      <4>3. \A j \in Over(k) : j <= start
        BY <1>1, <2>1, <4>2
      <4> HIDE DEF Over
      <4> QED
        BY <2>1, <4>1, <4>3
    <3>2. ASSUME Owned(k) PROVE k \in start .. end - 1
      <4>1. PICK i \in Over(k) : /\ IsHead(i)
                                 /\ \A j \in Over(k) : j <= i
                                 /\ \A j \in 1 .. i - 1 : ~IsHead(j)
        BY <3>2
      <4>2. i \in 1 .. n /\ i <= k
        BY <1>1, <4>1
      <4>3. i = start
        <5>1. ~(i < start)
          BY <1>1, <2>1, <4>1, <4>2
        <5>2. ~(start < i)
          BY <1>1, <2>1, <4>1, <4>2
        <5> QED
          BY <1>1, <2>1, <4>2, <5>1, <5>2
      <4>4. k < end
        <5> SUFFICES ASSUME ~(k < end) PROVE FALSE
          OBVIOUS
        <5>1. end \in 1 .. k /\ end <= n /\ end > start /\ end \in 1 .. n
          BY <1>1, <2>1, <2>5
        <5>2. end \in Over(k)
          BY <2>4, <2>5, <5>1
        <5> QED
          BY <1>1, <2>1, <2>5, <4>1, <4>3, <5>1, <5>2
      <4> QED
        BY <1>1, <2>1, <2>5, <4>2, <4>3, <4>4
    <3> QED
      BY <3>1, <3>2
  <2>7. Picked(ls, P) = Picked(ls, start .. end - 1)
    <3>1. \A k \in 1 .. Len(ls) : k \in P <=> k \in start .. end - 1
      BY <1>1, <2>6
    <3> HIDE DEF P
    <3> QED
      BY <3>1, PickedSame
  <2>8. Picked(ls, start .. end - 1) = SubSeq(ls, start, end - 1)
    <3>1. start \in 1 .. Len(ls) + 1 /\ end - 1 \in start - 1 .. Len(ls)
      BY <1>1, <2>1, <2>5
    <3> QED
      BY <3>1, PickedRange
  <2> QED
    BY <1>2, <2>1, <2>7, <2>8
<1> QED
  BY <1>5, <1>6

-----------------------------------------------------------------------------
(* Blocks of states, which are closed and named once.                      *)

Closes(ls, i) == {j \in i + 2 .. Len(ls) : ls[j].kind = "close" /\ ls[j].tag = ls[i].tag}
Solid(ls, i)  == {j \in i + 1 .. Len(ls) : ls[j].kind # "blank"}
Filled(ls, i) == {c \in Closes(ls, i) : \E b \in Solid(ls, i) : b < c}

\* What End is: the first marker with something before it, or else the first.
IsEnd(ls, i, e) ==
  /\ Closes(ls, i) = {} => e = 0
  /\ Closes(ls, i) # {} => e \in Closes(ls, i)
  /\ Filled(ls, i) # {} => e \in Filled(ls, i) /\ \A c \in Filled(ls, i) : e <= c
  /\ Filled(ls, i) = {} => \A c \in Closes(ls, i) : e <= c

\* End is the first closing line of the same tag behind an opening one, with
\* nothing but text between them, or 0.
LEMMA EndIs ==
  ASSUME NEW V, NEW ls \in Seq(V), NEW i \in 1 .. Len(ls)
  PROVE  IsEnd(ls, i, End(ls, i))
<1> DEFINE n == Len(ls)
           closes == Closes(ls, i)
           solid == Solid(ls, i)
           body == First(solid, n + 1)
           first == First(closes, 0)
           T == {j \in closes : j > body}
<1>1. n \in Nat /\ closes \in SUBSET (1 .. n) /\ solid \in SUBSET (1 .. n)
  BY DEF Closes, Solid
<1>2. End(ls, i) = First(T, first)
  BY DEF End, Closes, Solid
<1>3. /\ solid = {} => body = n + 1
      /\ solid # {} => body \in solid /\ \A j \in solid : body <= j
  <2> HIDE DEF solid, n
  <2> QED
    BY <1>1, FirstIs
<1>4. /\ closes = {} => first = 0
      /\ closes # {} => first \in closes /\ \A j \in closes : first <= j
  <2> HIDE DEF closes, n
  <2> QED
    BY <1>1, FirstIs
<1>5. T = Filled(ls, i)
  <2> HIDE DEF closes, solid, n, body
  <2>1. ASSUME NEW c \in closes PROVE c > body <=> \E b \in solid : b < c
    <3>1. c \in 1 .. n
      BY <1>1
    <3>2. CASE solid = {}
      BY <1>1, <1>3, <3>1, <3>2
    <3>3. CASE solid # {}
      <4>1. body \in 1 .. n /\ body \in solid /\ \A b \in solid : b \in 1 .. n /\ body <= b
        BY <1>1, <1>3, <3>3
      <4> QED
        BY <1>1, <3>1, <4>1
    <3> QED
      BY <3>2, <3>3
  <2> QED
    BY <2>1 DEF Filled, closes, solid
<1>6. /\ T = {} => First(T, first) = first
      /\ T # {} => First(T, first) \in T /\ \A j \in T : First(T, first) <= j
  <2>1. T \in SUBSET (1 .. n)
    BY <1>1
  <2> HIDE DEF T, first, n
  <2> QED
    BY <1>1, <2>1, FirstIs
<1>7. Filled(ls, i) \subseteq closes
  BY DEF Filled
<1> HIDE DEF T, first, closes
<1> QED
  BY <1>2, <1>4, <1>5, <1>6, <1>7 DEF IsEnd, closes

-----------------------------------------------------------------------------
(* How _TAG_RE goes on from block to block.                                *)

Opens(ls, i) == ls[i].kind = "open" /\ End(ls, i) # 0
Nexts(f, ls) ==
  f = [i \in 0 .. Len(ls) |->
         IF i = 0 THEN 1
         ELSE IF i >= f[i - 1] /\ Opens(ls, i) THEN End(ls, i) + 1 ELSE f[i - 1]]
NextOf(ls) == CHOOSE f : Nexts(f, ls)

BeginsAt(ls, f, i) == i >= f[i - 1] /\ Opens(ls, i)
Passes(ls, f) ==
  /\ f[0] = 1 /\ \A i \in 0 .. Len(ls) : f[i] \in Nat
  /\ \A i \in 1 .. Len(ls) : f[i] = IF BeginsAt(ls, f, i) THEN End(ls, i) + 1 ELSE f[i - 1]
  /\ Blocks(ls) = {<<i, End(ls, i)>> : i \in {j \in DOMAIN ls : BeginsAt(ls, f, j)}}

\* _TAG_RE goes on behind each block that it finds.
LEMMA NextIs ==
  ASSUME NEW V, NEW ls \in Seq(V)
  PROVE  Passes(ls, NextOf(ls))
<1> DEFINE n == Len(ls)
           step == [p \in (1 .. n) \X Nat |->
                      IF p[1] >= p[2] /\ Opens(ls, p[1]) THEN End(ls, p[1]) + 1 ELSE p[2]]
           g == NextOf(ls)
<1>1. n \in Nat /\ DOMAIN ls = 1 .. n
  OBVIOUS
<1>2. \A i \in 1 .. n : End(ls, i) \in Nat
  <2> SUFFICES ASSUME NEW i \in 1 .. n PROVE End(ls, i) \in Nat
    OBVIOUS
  <2>1. IsEnd(ls, i, End(ls, i))
    BY EndIs
  <2> QED
    BY <2>1 DEF IsEnd, Closes
<1>3. step \in [(1 .. n) \X Nat -> Nat]
  BY <1>2
<1>4. PICK f \in [0 .. n -> Nat] : Recursion(f, n, 1, step)
  <2> HIDE DEF step, n
  <2> QED
    BY <1>1, <1>3, RecursionExists
<1>5. ASSUME NEW i \in 0 .. n, i # 0
      PROVE  step[<<i, f[i - 1]>>] = IF i >= f[i - 1] /\ Opens(ls, i) THEN End(ls, i) + 1 ELSE f[i - 1]
  <2>1. i \in 1 .. n /\ i - 1 \in 0 .. n
    BY <1>1, <1>5
  <2>2. <<i, f[i - 1]>> \in (1 .. n) \X Nat
    BY <1>4, <2>1
  <2> QED
    BY <2>2
<1>6. Nexts(f, ls)
  BY <1>4, <1>5 DEF Recursion, Nexts
<1>7. Nexts(g, ls)
  BY <1>6 DEF NextOf
<1>8. \A i \in 0 .. n : g[i] = IF i = 0 THEN 1
                               ELSE IF i >= g[i - 1] /\ Opens(ls, i) THEN End(ls, i) + 1 ELSE g[i - 1]
  BY <1>7 DEF Nexts
<1>9. g[0] = 1 /\ \A i \in 1 .. n : g[i] = IF BeginsAt(ls, g, i) THEN End(ls, i) + 1 ELSE g[i - 1]
  <2> HIDE DEF g
  <2> QED
    BY <1>1, <1>8 DEF BeginsAt
<1>10. \A i \in 0 .. n : g[i] \in Nat
  <2> DEFINE S == {i \in 0 .. n : g[i] \in Nat}
  <2> HIDE DEF g, n
  <2>1. 0 \in S
    BY <1>1, <1>9
  <2>2. ASSUME NEW i \in 0 .. n, i \in S, i < n PROVE i + 1 \in S
    <3>1. i + 1 \in 1 .. n /\ (i + 1) - 1 = i /\ i + 1 \in 0 .. n
      BY <1>1, <2>2
    <3>2. g[i + 1] = IF BeginsAt(ls, g, i + 1) THEN End(ls, i + 1) + 1 ELSE g[i]
      BY <1>9, <3>1
    <3> QED
      BY <1>2, <2>2, <3>1, <3>2
  <2>3. 0 .. n \subseteq S
    <3> HIDE DEF S
    <3> QED
      BY <1>1, <2>1, <2>2, UpTo
  <2> QED
    BY <2>3
<1>11. Blocks(ls) = {<<i, End(ls, i)>> : i \in {j \in DOMAIN ls : BeginsAt(ls, g, j)}}
  BY DEF Blocks, Opens, Nexts, NextOf, BeginsAt
<1> HIDE DEF g
<1>12. Passes(ls, g)
  BY <1>9, <1>10, <1>11 DEF Passes
<1> QED
  BY <1>12 DEF g

\* What is passed is the start or the last block.
LEMMA NextPlace ==
  ASSUME NEW V, NEW ls \in Seq(V), NEW k \in 0 .. Len(ls)
  PROVE  LET f == NextOf(ls) IN
         f[k] = 1 \/ \E b \in 1 .. k : BeginsAt(ls, f, b) /\ f[k] = End(ls, b) + 1
<1> DEFINE n == Len(ls)
           f == NextOf(ls)
           S == {i \in 0 .. n : f[i] = 1 \/ \E b \in 1 .. i : BeginsAt(ls, f, b) /\ f[i] = End(ls, b) + 1}
<1>1. /\ n \in Nat /\ f[0] = 1
      /\ \A i \in 1 .. n : f[i] = IF BeginsAt(ls, f, i) THEN End(ls, i) + 1 ELSE f[i - 1]
  BY NextIs DEF Passes
<1> HIDE DEF f, n
<1>2. 0 \in S
  BY <1>1
<1>3. ASSUME NEW i \in 0 .. n, i \in S, i < n PROVE i + 1 \in S
  <2>1. i + 1 \in 1 .. n /\ (i + 1) - 1 = i /\ i + 1 \in 0 .. n /\ i + 1 \in 1 .. i + 1
        /\ \A b \in 1 .. i : b \in 1 .. i + 1
    BY <1>1, <1>3
  <2>2. f[i + 1] = IF BeginsAt(ls, f, i + 1) THEN End(ls, i + 1) + 1 ELSE f[i]
    BY <1>1, <2>1
  <2> QED
    BY <1>3, <2>1, <2>2
<1>4. 0 .. n \subseteq S
  <2> HIDE DEF S
  <2> QED
    BY <1>1, <1>2, <1>3, UpTo
<1> QED
  BY <1>4 DEF n, f

-----------------------------------------------------------------------------
(* A tag whose block is proper.                                            *)

MarkerOf(ls, kind, tag) == {i \in DOMAIN ls : ls[i].kind = kind /\ ls[i].tag = tag}
BetweenOf(ls, i, j, tag) ==
  /\ i < j /\ MarkerOf(ls, "open", tag) = {i} /\ MarkerOf(ls, "close", tag) = {j}
  /\ \A k \in i + 1 .. j - 1 : ls[k].kind \in {"text", "blank"}
  /\ \E k \in i + 1 .. j - 1 : ls[k].kind = "text"

\* Its end is the marker.
LEMMA ProperEnd ==
  ASSUME NEW V, NEW ls \in Seq(V), NEW tag, NEW i \in DOMAIN ls, NEW j \in DOMAIN ls,
         BetweenOf(ls, i, j, tag)
  PROVE  End(ls, i) = j /\ Opens(ls, i) /\ ls[i].tag = tag
<1> DEFINE n == Len(ls)
<1>1. /\ n \in Nat /\ i \in 1 .. n /\ j \in 1 .. n /\ i < j
      /\ ls[i].kind = "open" /\ ls[i].tag = tag /\ ls[j].kind = "close" /\ ls[j].tag = tag
  <2>1. i \in MarkerOf(ls, "open", tag) /\ j \in MarkerOf(ls, "close", tag)
    BY DEF BetweenOf
  <2> QED
    BY <2>1 DEF BetweenOf, MarkerOf
<1>2. PICK k \in i + 1 .. j - 1 : ls[k].kind = "text"
  BY DEF BetweenOf
<1>3. j \in i + 2 .. n /\ k \in i + 1 .. n /\ k < j
  BY <1>1, <1>2
<1>4. Closes(ls, i) = {j}
  <2>1. j \in Closes(ls, i)
    BY <1>1, <1>3 DEF Closes
  <2>2. ASSUME NEW c \in Closes(ls, i) PROVE c = j
    <3>1. c \in 1 .. n /\ ls[c].kind = "close" /\ ls[c].tag = tag
      BY <1>1 DEF Closes
    <3>2. c \in MarkerOf(ls, "close", tag)
      BY <3>1 DEF MarkerOf
    <3> QED
      BY <3>2 DEF BetweenOf
  <2> QED
    BY <2>1, <2>2
<1>5. k \in Solid(ls, i)
  BY <1>2, <1>3 DEF Solid
<1>6. Filled(ls, i) = {j}
  BY <1>3, <1>4, <1>5 DEF Filled
<1>7. IsEnd(ls, i, End(ls, i))
  BY <1>1, EndIs
<1>8. End(ls, i) = j
  BY <1>6, <1>7 DEF IsEnd
<1> QED
  BY <1>1, <1>8 DEF Opens

\* It is the block of its tag.
ProperOf(ls, tag) ==
  \/ MarkerOf(ls, "open", tag) = {} /\ MarkerOf(ls, "close", tag) = {}
  \/ \E i, j \in DOMAIN ls : BetweenOf(ls, i, j, tag)
AllProper(ls, S) ==
  /\ \A i \in DOMAIN ls : ls[i].kind = "open" => ls[i].tag \in S
  /\ \A tag \in S : ProperOf(ls, tag)

\* A tag that is closed and named once has just the one block.
LEMMA ProperBlock ==
  ASSUME NEW V, NEW ls \in Seq(V), NEW S, AllProper(ls, S), NEW tag \in S,
         NEW i \in DOMAIN ls, NEW j \in DOMAIN ls, BetweenOf(ls, i, j, tag)
  PROVE  {b \in Blocks(ls) : ls[b[1]].tag = tag} = {<<i, j>>}
<1> DEFINE n == Len(ls)
           f == NextOf(ls)
<1>0. n \in Nat /\ DOMAIN ls = 1 .. n /\ i \in 1 .. n /\ j \in 1 .. n
  OBVIOUS
<1>1. /\ f[0] = 1 /\ \A k \in 0 .. n : f[k] \in Nat
      /\ \A k \in 1 .. n : f[k] = IF BeginsAt(ls, f, k) THEN End(ls, k) + 1 ELSE f[k - 1]
      /\ Blocks(ls) = {<<k, End(ls, k)>> : k \in {m \in DOMAIN ls : BeginsAt(ls, f, m)}}
  BY NextIs DEF Passes
<1>2. ASSUME NEW k \in 1 .. n, Opens(ls, k)
      PROVE  \E m \in 1 .. n : BetweenOf(ls, k, m, ls[k].tag) /\ End(ls, k) = m
  <2>1. ls[k].kind = "open" /\ ls[k].tag \in S
    BY <1>0, <1>2 DEF Opens, AllProper
  <2>2. k \in MarkerOf(ls, "open", ls[k].tag)
    BY <1>0, <2>1 DEF MarkerOf
  <2>3. PICK a \in DOMAIN ls, m \in DOMAIN ls : BetweenOf(ls, a, m, ls[k].tag)
    BY <2>1, <2>2 DEF AllProper, ProperOf
  <2>4. a = k
    BY <2>2, <2>3 DEF BetweenOf
  <2>5. End(ls, k) = m
    BY <2>3, <2>4, ProperEnd
  <2> QED
    BY <1>0, <2>3, <2>4, <2>5
<1>3. Opens(ls, i) /\ End(ls, i) = j /\ ls[i].tag = tag
  BY ProperEnd
<1>4. i >= f[i - 1]
  <2>1. i - 1 \in 0 .. n
    BY <1>0
  <2>2. f[i - 1] = 1 \/ \E b \in 1 .. i - 1 : BeginsAt(ls, f, b) /\ f[i - 1] = End(ls, b) + 1
    BY <2>1, NextPlace
  <2>3. CASE f[i - 1] = 1
    BY <1>0, <2>3
  <2>4. ASSUME NEW b \in 1 .. i - 1, BeginsAt(ls, f, b), f[i - 1] = End(ls, b) + 1 PROVE i >= f[i - 1]
    <3>1. b \in 1 .. n /\ Opens(ls, b) /\ b < i
      BY <1>0, <2>4 DEF BeginsAt
    <3>2. PICK m \in 1 .. n : BetweenOf(ls, b, m, ls[b].tag) /\ End(ls, b) = m
      BY <1>2, <3>1
    <3>3. m # i
      <4>1. m \in MarkerOf(ls, "close", ls[b].tag)
        BY <3>2 DEF BetweenOf
      <4>2. ls[m].kind = "close" /\ ls[i].kind = "open"
        BY <1>3, <4>1 DEF MarkerOf, Opens
      <4> QED
        BY <4>2
    <3>4. i \notin b + 1 .. m - 1
      <4>1. ls[i].kind = "open"
        BY <1>3 DEF Opens
      <4>2. \A k \in b + 1 .. m - 1 : ls[k].kind \in {"text", "blank"}
        BY <3>2 DEF BetweenOf
      <4> QED
        BY <4>1, <4>2
    <3> QED
      BY <1>0, <2>4, <3>1, <3>2, <3>3, <3>4
  <2> QED
    BY <2>2, <2>3, <2>4
<1> HIDE DEF f
<1>5. BeginsAt(ls, f, i)
  BY <1>3, <1>4 DEF BeginsAt
<1>6. <<i, j>> \in Blocks(ls) /\ <<i, j>>[1] = i
  BY <1>1, <1>3, <1>5
<1>7. ASSUME NEW b \in Blocks(ls), ls[b[1]].tag = tag PROVE b = <<i, j>>
  <2>1. PICK k \in 1 .. n : BeginsAt(ls, f, k) /\ b = <<k, End(ls, k)>>
    BY <1>0, <1>1
  <2>2. Opens(ls, k) /\ ls[k].tag = tag
    BY <1>7, <2>1 DEF BeginsAt
  <2>3. k \in MarkerOf(ls, "open", tag)
    BY <1>0, <2>2 DEF MarkerOf, Opens
  <2>4. k = i
    BY <2>3 DEF BetweenOf
  <2> QED
    BY <1>3, <2>1, <2>4
<1> QED
  BY <1>3, <1>6, <1>7

\* The body of a block is what is between its markers, and not empty.
LEMMA ProperBody ==
  ASSUME NEW V, NEW ls \in Seq(V), NEW i \in DOMAIN ls, NEW j \in DOMAIN ls, NEW tag,
         BetweenOf(ls, i, j, tag)
  PROVE  Body(ls, <<i, j>>) = Strip(SubSeq(ls, i + 1, j - 1)) /\ Body(ls, <<i, j>>) # <<>>
<1> DEFINE n == Len(ls)
           s == SubSeq(ls, i + 1, j - 1)
           m == j - 1 - i
           full == {k \in DOMAIN s : ~Blank(s[k])}
           a == First(full, 0)
           b == CHOOSE k \in full : \A l \in full : l <= k
<1>0. n \in Nat /\ i \in 1 .. n /\ j \in 1 .. n /\ i < j /\ m \in Nat
  BY DEF BetweenOf
<1>1. s \in Seq(V) /\ Len(s) = m /\ \A k \in 1 .. m : s[k] = ls[i + 1 + k - 1]
  <2>1. \A k \in i + 1 .. j - 1 : ls[k] \in V
    BY <1>0
  <2>2. m = IF i + 1 <= j - 1 THEN j - 1 - (i + 1) + 1 ELSE 0
    BY <1>0
  <2>3. i + 1 \in Int /\ j - 1 \in Int /\ \A k \in 1 .. m : k \in 1 .. j - 1 - (i + 1) + 1
    BY <1>0
  <2> QED
    BY <2>1, <2>2, <2>3, SubSeqProperties
<1>2. PICK k \in i + 1 .. j - 1 : ls[k].kind = "text"
  BY DEF BetweenOf
<1> HIDE DEF s, m
<1>3. k - i \in full
  <2>0. i \in Int /\ j \in Int /\ k \in Int /\ i + 1 <= k /\ k <= j - 1 /\ m = j - 1 - i
    BY <1>0 DEF m
  <2>4. k - i \in Int /\ 1 <= k - i /\ k - i <= m /\ m \in Int
    BY <2>0
  <2>5. i + 1 + (k - i) - 1 = k
    BY <2>0
  <2>1. k - i \in 1 .. m /\ i + 1 + (k - i) - 1 = k
    BY <2>4, <2>5
  <2>2. s[k - i] = ls[k]
    BY <1>1, <2>1
  <2>3. DOMAIN s = 1 .. m
    BY <1>1
  <2> QED
    BY <1>2, <2>1, <2>2, <2>3 DEF Blank
<1>4. full \in SUBSET (1 .. m) /\ full # {}
  BY <1>1, <1>3
<1>5. a \in full /\ \A k2 \in full : a <= k2
  <2> HIDE DEF full
  <2> QED
    BY <1>0, <1>4, FirstIs
<1>6. b \in full /\ \A k2 \in full : k2 <= b
  <2>1. \E k2 \in full : \A l \in full : l <= k2
    <3> HIDE DEF full
    <3> QED
      BY <1>0, <1>4, LastOf
  <2> HIDE DEF full
  <2> QED
    BY <2>1
<1>7. Strip(s) = SubSeq(s, a, b)
  BY <1>4 DEF Strip
<1> HIDE DEF a, b
<1>8. a \in 1 .. m /\ b \in 1 .. m /\ a <= b
  BY <1>4, <1>5, <1>6
<1>9. Len(SubSeq(s, a, b)) = b - a + 1
  <2>1. \A k2 \in a .. b : s[k2] \in V
    BY <1>0, <1>1, <1>8
  <2> QED
    BY <1>8, <2>1, SubSeqProperties
<1>10. SubSeq(s, a, b) # <<>>
  <2>1. b - a + 1 # 0
    BY <1>8
  <2> QED
    BY <1>9, <2>1
<1>11. Body(ls, <<i, j>>) = Strip(s)
  BY DEF Body, s
<1> QED
  BY <1>7, <1>10, <1>11 DEF s

-----------------------------------------------------------------------------
(* What the prompts show of the states.                                    *)

\* A tag that is proper is shown with its content; one that is missing is not.
LEMMA Shown ==
  ASSUME input \in Seq(StateLine), \A t \in Tags : Proper(t), NEW tag \in Tags
  PROVE  /\ Marker("open", tag) # {} =>
              tag \in DOMAIN Breadcrumbs(input) /\ Breadcrumbs(input)[tag] = ContentOf(tag)
         /\ Marker("open", tag) = {} => tag \notin DOMAIN Breadcrumbs(input)
<1> DEFINE ls == input
           T == Breadcrumbs(input)
           full == {b \in Blocks(ls) : Body(ls, b) # <<>>}
           Under_(t) == {b \in full : ls[b[1]].tag = t}
<1>0. AllProper(input, Tags)
  <2>1. \A i \in DOMAIN input : input[i].kind = "open" => input[i].tag \in Tags
    <3> SUFFICES ASSUME NEW i \in DOMAIN input, input[i].kind = "open" PROVE input[i].tag \in Tags
      OBVIOUS
    <3>1. input[i] \in StateLine
      OBVIOUS
    <3>2. \A l \in PlainLine : l.kind # "open"
      BY DEF PlainLine
    <3> QED
      BY <3>1, <3>2 DEF StateLine
  <2>2. \A t \in Tags : ProperOf(input, t)
    BY DEF Proper, ProperOf, Marker, MarkerOf, Between, BetweenOf
  <2> QED
    BY <2>1, <2>2 DEF AllProper
<1>1. /\ DOMAIN T = {ls[b[1]].tag : b \in full}
      /\ \A t \in DOMAIN T :
           T[t] = Body(ls, CHOOSE b \in Under_(t) : \A c \in Under_(t) : c[1] <= b[1])
  BY DEF Breadcrumbs
<1>2. Marker("open", tag) = MarkerOf(input, "open", tag) /\ Marker("close", tag) = MarkerOf(input, "close", tag)
  BY DEF Marker, MarkerOf
<1>3. ASSUME Marker("open", tag) # {} PROVE tag \in DOMAIN T /\ T[tag] = ContentOf(tag)
  <2>1. PICK i \in DOMAIN input, j \in DOMAIN input : BetweenOf(input, i, j, tag)
    BY <1>0, <1>2, <1>3 DEF AllProper, ProperOf
  <2>2. {b \in Blocks(input) : input[b[1]].tag = tag} = {<<i, j>>}
    BY <1>0, <2>1, ProperBlock
  <2>3. Body(input, <<i, j>>) = Strip(SubSeq(input, i + 1, j - 1)) /\ Body(input, <<i, j>>) # <<>>
    BY <2>1, ProperBody
  <2>4. Under_(tag) = {<<i, j>>}
    <3>1. Under_(tag) = {b \in {c \in Blocks(input) : input[c[1]].tag = tag} : Body(input, b) # <<>>}
      OBVIOUS
    <3> QED
      BY <2>2, <2>3, <3>1
  <2>5. <<i, j>> \in full /\ ls[<<i, j>>[1]].tag = tag
    BY <2>4
  <2>6. tag \in DOMAIN T
    BY <1>1, <2>5
  <2>7. \E b \in {<<i, j>>} : \A c \in {<<i, j>>} : c[1] <= b[1]
    <3>1. i \in Nat /\ <<i, j>>[1] = i
      OBVIOUS
    <3> QED
      BY <3>1
  <2>8. (CHOOSE b \in Under_(tag) : \A c \in Under_(tag) : c[1] <= b[1]) = <<i, j>>
    BY <2>4, <2>7
  <2> HIDE DEF T, Under_, full
  <2>9. T[tag] = Body(input, <<i, j>>)
    BY <1>1, <2>6, <2>8
  <2>10. ContentOf(tag) = Strip(SubSeq(input, i + 1, j - 1))
    <3>1. Marker("open", tag) = {i} /\ Marker("close", tag) = {j}
      BY <1>2, <2>1 DEF BetweenOf
    <3>2. (CHOOSE x \in {i} : TRUE) = i /\ (CHOOSE x \in {j} : TRUE) = j
      OBVIOUS
    <3> QED
      BY <3>1, <3>2 DEF ContentOf
  <2> QED
    BY <2>3, <2>6, <2>9, <2>10
<1>4. ASSUME tag \in DOMAIN T PROVE Marker("open", tag) # {}
  <2>1. PICK b \in full : ls[b[1]].tag = tag
    BY <1>1, <1>4
  <2>2. Blocks(ls) = {<<k, End(ls, k)>> : k \in {m \in DOMAIN ls : BeginsAt(ls, NextOf(ls), m)}}
    BY NextIs DEF Passes
  <2>3. PICK k \in DOMAIN ls : BeginsAt(ls, NextOf(ls), k) /\ b = <<k, End(ls, k)>>
    BY <2>1, <2>2
  <2>4. k \in MarkerOf(input, "open", tag)
    BY <2>1, <2>3 DEF MarkerOf, BeginsAt, Opens
  <2> QED
    BY <1>2, <2>4
<1> QED
  BY <1>3, <1>4

\* The prompt shows the block of its mode, or that of the status, or the generic
\* line (inject-workflow-state.py:196-219, 346-367).
LEMMA StatesRead ==
  ASSUME input \in Seq(StateLine), \A t \in Tags : Proper(t),
         NEW status \in Status, NEW key \in {<<status>>, <<status, "inline">>}
  PROVE  Breadcrumb(Breadcrumbs(input), status, key) =
           IF Marker("open", key) # {} THEN ContentOf(key)
           ELSE IF Marker("open", <<status>>) # {} THEN ContentOf(<<status>>)
           ELSE Generic
<1>1. key \in Tags /\ <<status>> \in Tags
  BY DEF Tags
<1>2. /\ Marker("open", key) # {} =>
           key \in DOMAIN Breadcrumbs(input) /\ Breadcrumbs(input)[key] = ContentOf(key)
      /\ Marker("open", key) = {} => key \notin DOMAIN Breadcrumbs(input)
  BY <1>1, Shown
<1> DEFINE tag == <<status>>
<1>3. /\ Marker("open", tag) # {} =>
           tag \in DOMAIN Breadcrumbs(input) /\ Breadcrumbs(input)[tag] = ContentOf(tag)
      /\ Marker("open", tag) = {} => tag \notin DOMAIN Breadcrumbs(input)
  <2>1. tag \in Tags
    BY <1>1
  <2> HIDE DEF tag
  <2> QED
    BY <2>1, Shown
<1> QED
  BY <1>2, <1>3 DEF Breadcrumb

-----------------------------------------------------------------------------
(* Blocks within the section of the index.                                 *)

\* The lines of a section, d lines further down in the whole.
IsPart(V, ls, d, m, sec) ==
  /\ ls \in Seq(V) /\ d \in Nat /\ m \in Nat /\ d + m <= Len(ls)
  /\ sec \in Seq(V) /\ Len(sec) = m
  /\ \A i \in 1 .. m : sec[i] = ls[i + d]

\* Within a part of the lines, a block ends where it ends in all of them.
LEMMA EndWithin ==
  ASSUME NEW V, NEW ls, NEW d, NEW m, NEW sec, IsPart(V, ls, d, m, sec), NEW i \in 1 .. m
  PROVE  /\ End(ls, i + d) = 0 => End(sec, i) = 0
         /\ End(ls, i + d) # 0 /\ End(ls, i + d) <= m + d => End(ls, i + d) = End(sec, i) + d /\ End(sec, i) # 0
<1> DEFINE n == Len(ls)
           e == End(ls, i + d)
           x == End(sec, i)
           C == Closes(ls, i + d)
           D == Closes(sec, i)
           F == Filled(ls, i + d)
           G == Filled(sec, i)
<1>1. /\ ls \in Seq(V) /\ d \in Nat /\ m \in Nat /\ n \in Nat /\ d + m <= n
      /\ sec \in Seq(V) /\ Len(sec) = m /\ \A k \in 1 .. m : sec[k] = ls[k + d]
  BY DEF IsPart
<1>2. IsEnd(ls, i + d, e) /\ IsEnd(sec, i, x)
  <2>1. i + d \in 1 .. Len(ls) /\ i \in 1 .. Len(sec)
    BY <1>1
  <2> QED
    BY <1>1, <2>1, EndIs
<1>3. /\ C = {} => e = 0
      /\ C # {} => e \in C
      /\ F # {} => e \in F /\ \A c \in F : e <= c
      /\ F = {} => \A c \in C : e <= c
      /\ D = {} => x = 0
      /\ D # {} => x \in D
      /\ G # {} => x \in G /\ \A c \in G : x <= c
      /\ G = {} => \A c \in D : x <= c
  BY <1>2 DEF IsEnd
<1>4. C \subseteq i + d + 2 .. n /\ D \subseteq i + 2 .. m /\ F \subseteq C /\ G \subseteq D
  BY <1>1 DEF Closes, Filled
<1>5. ASSUME NEW c \in Nat PROVE c \in D <=> c + d \in C /\ c + d <= m + d
  <2>1. c \in i + 2 .. m <=> c + d \in i + d + 2 .. n /\ c + d <= m + d
    BY <1>1
  <2>2. c \in i + 2 .. m => sec[c] = ls[c + d] /\ sec[i] = ls[i + d]
    BY <1>1
  <2> QED
    BY <1>1, <2>1, <2>2 DEF Closes
<1>6. ASSUME NEW c \in Nat PROVE c \in G <=> c + d \in F /\ c + d <= m + d
  <2>1. ASSUME NEW b \in Nat PROVE b \in Solid(sec, i) <=> b + d \in Solid(ls, i + d) /\ b + d <= m + d
    <3>1. b \in i + 1 .. m <=> b + d \in i + d + 1 .. n /\ b + d <= m + d
      BY <1>1
    <3>2. b \in i + 1 .. m => sec[b] = ls[b + d]
      BY <1>1
    <3> QED
      BY <1>1, <3>1, <3>2 DEF Solid
  <2>2. ASSUME c \in D, NEW b \in Solid(sec, i), b < c PROVE c + d \in F
    <3>1. b \in Nat
      BY <1>1 DEF Solid
    <3>2. b + d \in Solid(ls, i + d) /\ b + d < c + d /\ c + d \in C
      BY <1>1, <1>5, <2>1, <2>2, <3>1
    <3> QED
      BY <3>2 DEF Filled
  <2>3. ASSUME c + d \in F, c + d <= m + d PROVE c \in G
    <3>1. PICK b \in Solid(ls, i + d) : b < c + d
      BY <2>3 DEF Filled
    <3>2. c \in D
      BY <1>5, <2>3 DEF Filled
    <3>3. b \in i + d + 1 .. n
      BY DEF Solid
    <3>4. b - d \in Nat /\ (b - d) + d = b /\ b <= m + d /\ b - d < c
      BY <1>1, <2>3, <3>1, <3>3
    <3>5. b - d \in Solid(sec, i)
      BY <2>1, <3>4
    <3> QED
      BY <3>2, <3>4, <3>5 DEF Filled
  <2> QED
    BY <1>1, <1>4, <1>5, <2>2, <2>3 DEF Filled
<1> HIDE DEF e, x, C, D, F, G, n
<1>7. ASSUME NEW c \in C, c <= m + d PROVE c - d \in Nat /\ (c - d) + d = c /\ c - d \in D
  <2>1. c - d \in Nat /\ (c - d) + d = c
    BY <1>1, <1>4
  <2> QED
    BY <1>5, <1>7, <2>1
<1>8. ASSUME e = 0 PROVE x = 0
  <2>1. C = {}
    BY <1>1, <1>3, <1>4, <1>8
  <2>2. D = {}
    BY <1>1, <1>4, <1>5, <2>1
  <2> QED
    BY <1>3, <2>2
<1>9. ASSUME e # 0, e <= m + d PROVE e = x + d /\ x # 0
  <2>1. e \in C
    BY <1>3, <1>9
  <2>2. e - d \in Nat /\ (e - d) + d = e /\ e - d \in D
    BY <1>7, <1>9, <2>1
  <2>3. x \in D /\ x \in Nat /\ x # 0 /\ x + d \in C /\ x + d <= m + d
    <3>1. x \in D
      BY <1>3, <2>2
    <3>2. x \in i + 2 .. m
      BY <1>4, <3>1
    <3>3. x \in Nat /\ x # 0
      BY <1>1, <3>2
    <3> QED
      BY <1>5, <3>1, <3>3
  <2>4. e \in Nat
    BY <1>1, <1>4, <2>1
  <2>5. CASE F # {}
    <3>1. e \in F /\ \A c \in F : e <= c
      BY <1>3, <2>5
    <3>2. e - d \in G
      BY <1>6, <1>9, <2>2, <3>1
    <3>3. x \in G /\ x <= e - d
      BY <1>3, <3>2
    <3>4. x + d \in F
      BY <1>6, <2>3, <3>3
    <3>5. e <= x + d
      BY <3>1, <3>4
    <3> QED
      BY <1>1, <2>2, <2>3, <2>4, <3>3, <3>5
  <2>6. CASE F = {}
    <3>1. G = {}
      BY <1>1, <1>4, <1>6, <2>6
    <3>2. x <= e - d
      BY <1>3, <2>2, <3>1
    <3>3. e <= x + d
      BY <1>3, <2>3, <2>6
    <3> QED
      BY <1>1, <2>2, <2>3, <2>4, <3>2, <3>3
  <2> QED
    BY <2>5, <2>6
<1> QED
  BY <1>8, <1>9 DEF e, x

-----------------------------------------------------------------------------
(* A section that no block crosses has its own blocks.                     *)

\* No block of the whole crosses the ends of the section.
Closed(ls, d, m) ==
  \A k \in 1 .. Len(ls) : BeginsAt(ls, NextOf(ls), k) =>
    /\ ~(k < d + 1 /\ d + 1 <= End(ls, k))
    /\ ~(k < d + m + 1 /\ d + m + 1 <= End(ls, k))

\* A part that no block crosses has the blocks that begin in it.
LEMMA BeginsWithin ==
  ASSUME NEW V, NEW ls, NEW d, NEW m, NEW sec, IsPart(V, ls, d, m, sec), Closed(ls, d, m),
         NEW i \in 1 .. m
  PROVE  /\ BeginsAt(sec, NextOf(sec), i) <=> BeginsAt(ls, NextOf(ls), i + d)
         /\ BeginsAt(ls, NextOf(ls), i + d) => End(ls, i + d) = End(sec, i) + d
<1> DEFINE n == Len(ls)
           f == NextOf(ls)
           g == NextOf(sec)
           Same(k) == (g[k] = 1 /\ f[k + d] <= d + 1) \/ f[k + d] = g[k] + d
           S == {k \in 0 .. m : Same(k)}
<1>1. /\ ls \in Seq(V) /\ d \in Nat /\ m \in Nat /\ n \in Nat /\ d + m <= n
      /\ sec \in Seq(V) /\ Len(sec) = m /\ \A k \in 1 .. m : sec[k] = ls[k + d]
  BY DEF IsPart
<1>2. /\ f[0] = 1 /\ \A k \in 0 .. n : f[k] \in Nat
      /\ \A k \in 1 .. n : f[k] = IF BeginsAt(ls, f, k) THEN End(ls, k) + 1 ELSE f[k - 1]
  BY <1>1, NextIs DEF Passes
<1>3. /\ g[0] = 1 /\ \A k \in 0 .. m : g[k] \in Nat
      /\ \A k \in 1 .. m : g[k] = IF BeginsAt(sec, g, k) THEN End(sec, k) + 1 ELSE g[k - 1]
  BY <1>1, NextIs DEF Passes
<1>4. ASSUME NEW k \in 1 .. n, BeginsAt(ls, f, k)
      PROVE  ~(k < d + 1 /\ d + 1 <= End(ls, k)) /\ ~(k < d + m + 1 /\ d + m + 1 <= End(ls, k))
  BY <1>4 DEF Closed
<1>5. f[d] = 1 \/ \E b \in 1 .. d : BeginsAt(ls, f, b) /\ f[d] = End(ls, b) + 1
  <2>1. d \in 0 .. n
    BY <1>1
  <2> QED
    BY <1>1, <2>1, NextPlace
<1>6. ASSUME NEW k \in 1 .. n PROVE End(ls, k) \in Nat
  <2>1. IsEnd(ls, k, End(ls, k))
    BY <1>1, EndIs
  <2> QED
    BY <1>1, <2>1 DEF IsEnd, Closes
<1>7. ASSUME NEW k \in 1 .. m
      PROVE  /\ End(ls, k + d) = 0 => End(sec, k) = 0
             /\ End(ls, k + d) # 0 /\ End(ls, k + d) <= m + d =>
                  End(ls, k + d) = End(sec, k) + d /\ End(sec, k) # 0
  BY EndWithin
<1> HIDE DEF f, g, n
<1>8. f[d] <= d + 1
  <2>1. ASSUME NEW b \in 1 .. d, BeginsAt(ls, f, b), f[d] = End(ls, b) + 1 PROVE f[d] <= d + 1
    <3>1. b \in 1 .. n /\ b < d + 1
      BY <1>1
    <3> QED
      BY <1>1, <1>4, <1>6, <2>1, <3>1
  <2> QED
    BY <1>1, <1>5, <2>1
\* One line.
<1>9. ASSUME NEW k \in 1 .. m, Same(k - 1)
      PROVE  /\ BeginsAt(sec, g, k) <=> BeginsAt(ls, f, k + d)
             /\ BeginsAt(ls, f, k + d) => End(ls, k + d) = End(sec, k) + d
             /\ Same(k)
  <2>1. /\ k - 1 \in 0 .. m /\ k \in 0 .. m /\ k + d \in 1 .. n /\ (k + d) - 1 \in 0 .. n /\ (k - 1) + d = (k + d) - 1
        /\ g[k - 1] \in Nat /\ f[(k + d) - 1] \in Nat /\ k + d \in Nat /\ k + d < d + m + 1
    BY <1>1, <1>2, <1>3
  <2>2. k >= g[k - 1] <=> k + d >= f[(k + d) - 1]
    <3>1. (g[k - 1] = 1 /\ f[(k + d) - 1] <= d + 1) \/ f[(k + d) - 1] = g[k - 1] + d
      BY <1>9, <2>1
    <3> DEFINE a == g[k - 1]
               b == f[(k + d) - 1]
    <3>2. a \in Nat /\ b \in Nat /\ ((a = 1 /\ b <= d + 1) \/ b = a + d)
      BY <2>1, <3>1
    <3>3. k \in Nat /\ 1 <= k
      BY <1>1
    <3> HIDE DEF a, b
    <3>4. k >= a <=> k + d >= b
      BY <1>1, <3>2, <3>3
    <3> QED
      BY <3>4 DEF a, b
  <2>3. sec[k].kind = ls[k + d].kind
    BY <1>1
  <2>4. ASSUME BeginsAt(ls, f, k + d)
        PROVE  BeginsAt(sec, g, k) /\ End(ls, k + d) = End(sec, k) + d
    <3>1. End(ls, k + d) # 0 /\ ls[k + d].kind = "open" /\ k + d >= f[(k + d) - 1]
      BY <2>4 DEF BeginsAt, Opens
    <3>2. End(ls, k + d) <= m + d
      <4>1. ~(d + m + 1 <= End(ls, k + d))
        BY <1>4, <2>1, <2>4
      <4>2. End(ls, k + d) \in Nat
        BY <1>6, <2>1
      <4> QED
        BY <1>1, <4>1, <4>2
    <3>3. End(ls, k + d) = End(sec, k) + d /\ End(sec, k) # 0
      BY <1>7, <3>1, <3>2
    <3> QED
      BY <2>2, <2>3, <3>1, <3>3 DEF BeginsAt, Opens
  <2>5. ASSUME BeginsAt(sec, g, k) PROVE BeginsAt(ls, f, k + d)
    <3>1. End(sec, k) # 0 /\ sec[k].kind = "open" /\ k >= g[k - 1]
      BY <2>5 DEF BeginsAt, Opens
    <3>2. End(ls, k + d) # 0
      BY <1>7, <3>1
    <3> QED
      BY <2>2, <2>3, <3>1, <3>2 DEF BeginsAt, Opens
  <2>6. /\ f[k + d] = IF BeginsAt(ls, f, k + d) THEN End(ls, k + d) + 1 ELSE f[(k + d) - 1]
        /\ g[k] = IF BeginsAt(sec, g, k) THEN End(sec, k) + 1 ELSE g[k - 1]
    BY <1>2, <1>3, <2>1
  <2>7. Same(k)
    <3>1. CASE BeginsAt(ls, f, k + d)
      <4>1. f[k + d] = End(ls, k + d) + 1 /\ g[k] = End(sec, k) + 1 /\ End(ls, k + d) = End(sec, k) + d
        BY <2>4, <2>6, <3>1
      <4>2. g[k] \in Nat /\ f[k + d] \in Nat /\ End(ls, k + d) \in Nat
        BY <1>1, <1>2, <1>3, <1>6, <2>1
      <4>3. End(sec, k) \in Int
        <5>1. IsEnd(sec, k, End(sec, k))
          BY <1>1, EndIs
        <5> QED
          BY <1>1, <5>1 DEF IsEnd, Closes
      <4> QED
        BY <1>1, <4>1, <4>2, <4>3
    <3>2. CASE ~BeginsAt(ls, f, k + d)
      <4>1. f[k + d] = f[(k + d) - 1] /\ g[k] = g[k - 1]
        BY <2>5, <2>6, <3>2
      <4> QED
        BY <1>9, <2>1, <4>1
    <3> QED
      BY <3>1, <3>2
  <2> QED
    BY <2>4, <2>5, <2>7
<1>10. 0 \in S
  <2>1. 0 + d = d /\ 0 \in 0 .. m
    BY <1>1
  <2> QED
    BY <1>3, <1>8, <2>1
<1>11. ASSUME NEW k \in 0 .. m, k \in S, k < m PROVE k + 1 \in S
  <2>1. k + 1 \in 1 .. m /\ (k + 1) - 1 = k /\ k + 1 \in 0 .. m
    BY <1>1, <1>11
  <2>2. Same((k + 1) - 1)
    BY <1>11, <2>1
  <2>3. Same(k + 1)
    <3> HIDE DEF Same
    <3> QED
      BY <1>9, <2>1, <2>2
  <2> QED
    BY <2>1, <2>3
<1>12. 0 .. m \subseteq S
  <2> HIDE DEF S
  <2> QED
    BY <1>1, <1>10, <1>11, UpTo
<1>13. Same(i - 1)
  <2>1. i - 1 \in 0 .. m
    BY <1>1
  <2> QED
    BY <1>12, <2>1
<1>14. /\ BeginsAt(sec, g, i) <=> BeginsAt(ls, f, i + d)
       /\ BeginsAt(ls, f, i + d) => End(ls, i + d) = End(sec, i) + d
  <2> HIDE DEF Same
  <2> QED
    BY <1>9, <1>13
<1> QED
  BY <1>14 DEF f, g

-----------------------------------------------------------------------------
(* The lines of the index.                                                 *)

LEMMA StripAll ==
  ASSUME NEW V, NEW s \in Seq(V), \A i \in DOMAIN s : ~Blank(s[i])
  PROVE  Strip(s) = s
<1> DEFINE n == Len(s)
           full == {i \in DOMAIN s : ~Blank(s[i])}
           a == First(full, 0)
           b == CHOOSE i \in full : \A j \in full : j <= i
<1>1. n \in Nat /\ full = 1 .. n
  OBVIOUS
<1>2. CASE n = 0
  <2>1. full = {} /\ s = <<>>
    BY <1>1, <1>2
  <2> QED
    BY <2>1 DEF Strip
<1>3. CASE n # 0
  <2>1. 1 \in full /\ n \in full /\ \A j \in full : 1 <= j /\ j <= n /\ j \in Nat
    BY <1>1, <1>3
  <2>2. a \in full /\ \A j \in full : a <= j
    <3>1. full \in SUBSET (1 .. n) /\ full # {}
      BY <1>1, <2>1
    <3> HIDE DEF full, n
    <3> QED
      BY <1>1, <3>1, FirstIs
  <2>3. b \in full /\ \A j \in full : j <= b
    <3> HIDE DEF full, n
    <3> QED
      BY <2>1
  <2>4. Strip(s) = SubSeq(s, a, b)
    BY <2>1 DEF Strip
  <2>5. a = 1 /\ b = n
    <3> HIDE DEF a, b, full, n
    <3> QED
      BY <1>1, <2>1, <2>2, <2>3
  <2>6. SubSeq(s, 1, n) = s
    BY <1>1
  <2> QED
    BY <2>4, <2>5, <2>6
<1> QED
  BY <1>2, <1>3

HiddenOf(ls) == UNION {b[1] .. b[2] : b \in Blocks(ls)}

\* The lines that are hidden are those from the beginning of a block to its end.
LEMMA HiddenIs ==
  ASSUME NEW V, NEW ls \in Seq(V), NEW i
  PROVE  i \in HiddenOf(ls) <=>
           \E k \in 1 .. Len(ls) : BeginsAt(ls, NextOf(ls), k) /\ i \in k .. End(ls, k)
<1> DEFINE f == NextOf(ls)
<1>1. Blocks(ls) = {<<k, End(ls, k)>> : k \in {m \in DOMAIN ls : BeginsAt(ls, f, m)}}
  BY NextIs DEF Passes
<1>2. DOMAIN ls = 1 .. Len(ls)
  OBVIOUS
<1> HIDE DEF f
<1>3. ASSUME i \in HiddenOf(ls) PROVE \E k \in 1 .. Len(ls) : BeginsAt(ls, f, k) /\ i \in k .. End(ls, k)
  <2>1. PICK b \in Blocks(ls) : i \in b[1] .. b[2]
    BY <1>3 DEF HiddenOf
  <2>2. PICK k \in 1 .. Len(ls) : BeginsAt(ls, f, k) /\ b = <<k, End(ls, k)>>
    BY <1>1, <1>2
  <2> QED
    BY <2>1, <2>2
<1>4. ASSUME NEW k \in 1 .. Len(ls), BeginsAt(ls, f, k), i \in k .. End(ls, k) PROVE i \in HiddenOf(ls)
  <2>1. <<k, End(ls, k)>> \in Blocks(ls)
    BY <1>1, <1>2, <1>4
  <2>2. k .. End(ls, k) \in {b[1] .. b[2] : b \in Blocks(ls)}
    BY <2>1
  <2> QED
    BY <1>4, <2>2 DEF HiddenOf
<1> QED
  BY <1>3, <1>4 DEF f

\* A line of the section is hidden in it as it is in the whole.
LEMMA HiddenWithin ==
  ASSUME NEW V, NEW ls, NEW d, NEW m, NEW sec, IsPart(V, ls, d, m, sec), Closed(ls, d, m),
         NEW i \in 1 .. m
  PROVE  i \in HiddenOf(sec) <=> i + d \in HiddenOf(ls)
<1> DEFINE f == NextOf(ls)
           g == NextOf(sec)
           n == Len(ls)
<1>1. /\ ls \in Seq(V) /\ d \in Nat /\ m \in Nat /\ n \in Nat /\ d + m <= n
      /\ sec \in Seq(V) /\ Len(sec) = m
  BY DEF IsPart
<1>2. i \in HiddenOf(sec) <=> \E k \in 1 .. m : BeginsAt(sec, g, k) /\ i \in k .. End(sec, k)
  BY <1>1, HiddenIs
<1>3. i + d \in HiddenOf(ls) <=> \E k \in 1 .. n : BeginsAt(ls, f, k) /\ i + d \in k .. End(ls, k)
  BY <1>1, HiddenIs
<1>4. \A k \in 1 .. m : /\ BeginsAt(sec, g, k) <=> BeginsAt(ls, f, k + d)
                        /\ BeginsAt(ls, f, k + d) => End(ls, k + d) = End(sec, k) + d
  BY BeginsWithin
<1>5. \A k \in 1 .. m : End(sec, k) \in Nat
  <2> SUFFICES ASSUME NEW k \in 1 .. m PROVE End(sec, k) \in Nat
    OBVIOUS
  <2>1. IsEnd(sec, k, End(sec, k))
    BY <1>1, EndIs
  <2> QED
    BY <1>1, <2>1 DEF IsEnd, Closes
<1>6. \A k \in 1 .. n : BeginsAt(ls, f, k) =>
        /\ ~(k < d + 1 /\ d + 1 <= End(ls, k))
        /\ ~(k < d + m + 1 /\ d + m + 1 <= End(ls, k))
  BY DEF Closed
<1> HIDE DEF f, g, n
<1>7. ASSUME NEW k \in 1 .. m, BeginsAt(sec, g, k), i \in k .. End(sec, k)
      PROVE  \E j \in 1 .. n : BeginsAt(ls, f, j) /\ i + d \in j .. End(ls, j)
  <2>1. k + d \in 1 .. n
    BY <1>1
  <2>2. BeginsAt(ls, f, k + d) /\ End(ls, k + d) = End(sec, k) + d /\ End(sec, k) \in Nat
    BY <1>4, <1>5, <1>7
  <2>3. i + d \in k + d .. End(ls, k + d)
    BY <1>1, <1>7, <2>2
  <2> QED
    BY <2>1, <2>2, <2>3
<1>8. ASSUME NEW k \in 1 .. n, BeginsAt(ls, f, k), i + d \in k .. End(ls, k)
      PROVE  \E j \in 1 .. m : BeginsAt(sec, g, j) /\ i \in j .. End(sec, j)
  <2>0. End(ls, k) \in Nat
    <3>1. IsEnd(ls, k, End(ls, k))
      BY <1>1, EndIs DEF n
    <3> QED
      BY <1>1, <3>1 DEF IsEnd, Closes
  <2>1. d + 1 <= End(ls, k) /\ k <= i + d /\ k < d + m + 1
    BY <1>1, <1>8, <2>0
  <2>2. k >= d + 1
    BY <1>1, <1>6, <1>8, <2>1
  <2>3. k - d \in 1 .. m /\ (k - d) + d = k
    BY <1>1, <2>1, <2>2
  <2>4. BeginsAt(sec, g, k - d) /\ End(ls, k) = End(sec, k - d) + d /\ End(sec, k - d) \in Nat
    BY <1>4, <1>5, <1>8, <2>3
  <2>5. i \in k - d .. End(sec, k - d)
    BY <1>1, <1>8, <2>3, <2>4
  <2> QED
    BY <2>3, <2>4, <2>5
<1> QED
  BY <1>2, <1>3, <1>7, <1>8

\* What is left of a section.
IsSection(V, ls, d, m, sec) ==
  /\ IsPart(V, ls, d, m, sec) /\ Closed(ls, d, m)
  /\ sec = SubSeq(ls, d + 1, d + m) /\ \A l \in V : ~Blank(l)

\* Both ways to leave out the blocks leave the lines of the section that are not
\* hidden (workflow_phase.py:90-97, session-start.py:422-475).
LEMMA SectionLeft ==
  ASSUME NEW V, NEW ls, NEW d, NEW m, NEW sec, IsSection(V, ls, d, m, sec)
  PROVE  LET own == Picked(ls, {i \in d + 1 .. d + m : i \notin HiddenOf(ls) /\ ls[i].kind # "marker"})
         IN  /\ Without(Outside(sec), {"marker"}) = own
             /\ Without(Strip(Outside(Strip(sec))), {"marker"}) = own
<1> DEFINE n == Len(ls)
           T == {l \in V : l.kind # "marker"}
           rest == DOMAIN sec \ HiddenOf(sec)
           out == Picked(sec, rest)
           Q == {i \in rest : i \in DOMAIN sec /\ sec[i] \in T}
           P == {i \in d + 1 .. d + m : i \notin HiddenOf(ls) /\ ls[i].kind # "marker"}
           a == d + 1
           b == d + m
<1>0. IsPart(V, ls, d, m, sec) /\ Closed(ls, d, m)
  BY DEF IsSection
<1>1. /\ ls \in Seq(V) /\ d \in Nat /\ m \in Nat /\ n \in Nat /\ d + m <= n
      /\ sec \in Seq(V) /\ Len(sec) = m /\ DOMAIN sec = 1 .. m /\ \A k \in 1 .. m : sec[k] = ls[k + d]
  BY <1>0 DEF IsPart
<1>2. Strip(sec) = sec
  <2>1. \A i \in DOMAIN sec : ~Blank(sec[i])
    BY <1>1 DEF IsSection
  <2> QED
    BY <1>1, <2>1, StripAll
<1>3. Outside(sec) = out
  BY DEF Outside, HiddenOf
<1>4. out \in Seq(V)
  <2>1. PicksTo(V, sec, rest, PickOf(sec, rest))
    BY <1>1, PickStep
  <2>2. m \in 0 .. m
    BY <1>1
  <2> HIDE DEF rest
  <2> QED
    BY <1>1, <2>1, <2>2 DEF PicksTo
<1>5. Strip(out) = out
  <2> HIDE DEF out
  <2>1. \A i \in DOMAIN out : ~Blank(out[i])
    BY <1>4 DEF IsSection
  <2> QED
    BY <1>4, <2>1, StripAll
<1>6. Without(out, {"marker"}) = Of(out, T)
  <2>1. {i \in DOMAIN out : out[i].kind \notin {"marker"}} = {i \in DOMAIN out : out[i] \in T}
    <3>1. \A i \in DOMAIN out : out[i] \in V
      BY <1>4
    <3> HIDE DEF out
    <3> QED
      BY <3>1
  <2> QED
    BY <2>1 DEF Without, Of
<1>7. Of(out, T) = Picked(sec, Q)
  <2> HIDE DEF rest, T
  <2>1. sec \in Seq(V)
    BY <1>1
  <2> QED
    BY <2>1, OfPicked
<1>8. PartOf(V, ls, a, b, sec, P, Q)
  <2>1. ASSUME NEW i \in 1 .. n PROVE i \in P <=> i \in a .. b /\ i - a + 1 \in Q
    <3>1. CASE i \in a .. b
      <4>1. i - a + 1 \in 1 .. m /\ (i - a + 1) + d = i
        <5>1. i \in Int /\ d \in Nat /\ m \in Nat /\ d + 1 <= i /\ i <= d + m
          BY <1>1, <3>1
        <5> QED
          BY <5>1
      <4> DEFINE k == i - a + 1
      <4>2. k \in 1 .. m /\ k + d = i
        BY <4>1
      <4> HIDE DEF k
      <4>3. k \in HiddenOf(sec) <=> i \in HiddenOf(ls)
        BY <1>0, <4>2, HiddenWithin
      <4>4. sec[k] = ls[i] /\ sec[k] \in V
        BY <1>1, <4>2
      <4>5. k \in Q <=> i \in P
        BY <1>1, <3>1, <4>2, <4>3, <4>4
      <4> QED
        BY <3>1, <4>5 DEF k
    <3>2. CASE i \notin a .. b
      BY <3>2
    <3> QED
      BY <3>1, <3>2
  <2>2. a \in 1 .. n + 1 /\ b \in a - 1 .. n
    BY <1>1
  <2> HIDE DEF P, Q
  <2> QED
    BY <1>1, <2>1, <2>2 DEF PartOf, IsSection
<1>9. Picked(sec, Q) = Picked(ls, P)
  <2> HIDE DEF P, Q, a, b
  <2> QED
    BY <1>8, PickedPart
<1> QED
  BY <1>2, <1>3, <1>5, <1>6, <1>7, <1>9

\* IndexHidesStates for one workflow.md.
LEMMA IndexAlone ==
  ASSUME NEW V, NEW ls \in Seq(V), \A l \in V : ~Blank(l)
  PROVE  LET s == Section(ls)
             hidden == UNION {b[1] .. b[2] : b \in Blocks(ls)}
             Crossed(at) == \E b \in Blocks(ls) : b[1] < at /\ at <= b[2]
             own == Picked(ls, {i \in s.start .. s.end - 1 : i \notin hidden /\ ls[i].kind # "marker"})
         IN  (s.start # 0 /\ ~Crossed(s.start) /\ ~Crossed(s.end)) =>
               Without(PhaseIndex(ls), {"marker"}) = own /\ SessionIndex(ls) = own
<1> DEFINE n == Len(ls)
           s == Section(ls)
           starts == {i \in DOMAIN ls : ls[i].kind = "index"}
           start == First(starts, 0)
           ends == {i \in start + 1 .. n : ls[i].kind = "phase"}
           end == First(ends, n + 1)
           Crossed(at) == \E b \in Blocks(ls) : b[1] < at /\ at <= b[2]
           d == start - 1
           m == end - start
           sec == SubSeq(ls, start, end - 1)
           f == NextOf(ls)
<1>1. n \in Nat /\ DOMAIN ls = 1 .. n /\ s.start = start /\ s.end = end
  BY DEF Section
<1>2. SUFFICES ASSUME start # 0, ~Crossed(start), ~Crossed(end)
      PROVE  LET own == Picked(ls, {i \in start .. end - 1 : i \notin HiddenOf(ls) /\ ls[i].kind # "marker"})
             IN  Without(PhaseIndex(ls), {"marker"}) = own /\ SessionIndex(ls) = own
  <2> HIDE DEF s, start, end, Crossed
  <2> QED
    BY <1>1 DEF HiddenOf, s, Crossed
<1>3. start \in 1 .. n
  <2>1. starts \in SUBSET (1 .. n)
    BY <1>1
  <2>2. /\ starts = {} => start = 0
        /\ starts # {} => start \in starts
    <3> HIDE DEF starts, n
    <3> QED
      BY <1>1, <2>1, FirstIs
  <2> QED
    BY <1>2, <2>1, <2>2
<1> HIDE DEF start
<1>4. end \in start + 1 .. n + 1
  <2>1. ends \in SUBSET (1 .. n) /\ ends \subseteq start + 1 .. n
    BY <1>1, <1>3
  <2>2. /\ ends = {} => end = n + 1
        /\ ends # {} => end \in ends
    <3> HIDE DEF ends, n
    <3> QED
      BY <1>1, <2>1, FirstIs
  <2> QED
    BY <1>1, <1>3, <2>1, <2>2
<1> HIDE DEF end
<1>5. d \in Nat /\ m \in Nat /\ d + m <= n /\ d + 1 = start /\ d + m = end - 1 /\ d + m + 1 = end
  BY <1>1, <1>3, <1>4
<1>6. IsPart(V, ls, d, m, sec)
  <2>1. sec \in Seq(V) /\ Len(sec) = m /\ \A i \in 1 .. m : sec[i] = ls[start + i - 1]
    <3>1. \A k \in start .. end - 1 : ls[k] \in V
      BY <1>1, <1>3, <1>4
    <3>2. start \in Int /\ end - 1 \in Int /\ m = IF start <= end - 1 THEN end - 1 - start + 1 ELSE 0
      BY <1>1, <1>3, <1>4
    <3>3. \A k \in 1 .. m : k \in 1 .. end - 1 - start + 1
      BY <1>1, <1>3, <1>4
    <3> HIDE DEF m
    <3> QED
      BY <3>1, <3>2, <3>3, SubSeqProperties
  <2>2. \A i \in 1 .. m : start + i - 1 = i + d
    BY <1>1, <1>3, <1>4
  <2> HIDE DEF d, m, sec
  <2> QED
    BY <1>5, <2>1, <2>2 DEF IsPart
<1>7. Closed(ls, d, m)
  <2> SUFFICES ASSUME NEW k \in 1 .. n, BeginsAt(ls, f, k)
               PROVE  ~(k < start /\ start <= End(ls, k)) /\ ~(k < end /\ end <= End(ls, k))
    BY <1>5 DEF Closed
  <2>1. Blocks(ls) = {<<j, End(ls, j)>> : j \in {i \in DOMAIN ls : BeginsAt(ls, f, i)}}
    BY NextIs DEF Passes
  <2> HIDE DEF f
  <2>2. <<k, End(ls, k)>> \in Blocks(ls)
    BY <1>1, <2>1
  <2> QED
    BY <1>2, <2>2
<1>8. sec = SubSeq(ls, d + 1, d + m) /\ start .. end - 1 = d + 1 .. d + m
  BY <1>5
<1>9. LET own == Picked(ls, {i \in d + 1 .. d + m : i \notin HiddenOf(ls) /\ ls[i].kind # "marker"})
      IN  /\ Without(Outside(sec), {"marker"}) = own
          /\ Without(Strip(Outside(Strip(sec))), {"marker"}) = own
  <2>1. IsSection(V, ls, d, m, sec)
    BY <1>6, <1>7, <1>8 DEF IsSection
  <2> HIDE DEF d, m, sec
  <2> QED
    BY <2>1, SectionLeft
<1>10. PhaseIndex(ls) = Strip(Outside(Strip(sec))) /\ SessionIndex(ls) = Without(Outside(sec), {"marker"})
  <2>1. s.start = start /\ s.end = end
    BY <1>1
  <2> QED
    BY <1>2, <2>1 DEF PhaseIndex, SessionIndex
<1> QED
  BY <1>8, <1>9, <1>10

-----------------------------------------------------------------------------
(* The readers of config.yaml and of the task, and the theorems about      *)
(* workflow.md.                                                            *)

LEMMA ModeTwo == ASSUME NEW w PROVE ModeOf(w) \in {"auto", "inline"}
BY DEF ModeOf

\* The readers of dispatch_mode agree for any mapping in which codex is a
\* section.
LEMMA DispatchOfOne ==
  ASSUME NEW c, "codex" \in DOMAIN c => IsMap(c.codex)
  PROVE  LET inline == DispatchMode(c) = "inline"
         IN  /\ (EffectivePlatform("codex", c) = "codex-inline") = inline
             /\ (BreadcrumbKey("planning", "codex", c) = <<"planning", "inline">>) = inline
<1> DEFINE word == Setting(c.codex.map, "dispatch_mode", "auto")
<1>1. CASE "codex" \notin DOMAIN c
  <2>1. DispatchMode(c) = "auto" /\ HookMode(c) = "auto"
    BY <1>1 DEF DispatchMode, HookMode
  <2>2. EffectivePlatform("codex", c) = "codex-sub-agent"
    BY <1>1 DEF EffectivePlatform
  <2>3. BreadcrumbKey("planning", "codex", c) = <<"planning">>
    BY <2>1 DEF BreadcrumbKey
  <2>4. <<"planning">> # <<"planning", "inline">>
    OBVIOUS
  <2> QED
    BY <2>1, <2>2, <2>3, <2>4
<1>2. CASE "codex" \in DOMAIN c
  <2>1. IsMap(c.codex)
    BY <1>2
  <2>2. DispatchMode(c) = ModeOf(word) /\ HookMode(c) = ModeOf(word)
    BY <1>2, <2>1 DEF DispatchMode, HookMode
  <2>3. EffectivePlatform("codex", c) = IF ModeOf(word) = "inline" THEN "codex-inline" ELSE "codex-sub-agent"
    BY <1>2, <2>1 DEF EffectivePlatform
  <2>4. BreadcrumbKey("planning", "codex", c) =
          IF ModeOf(word) = "inline" THEN <<"planning", "inline">> ELSE <<"planning">>
    BY <2>2 DEF BreadcrumbKey
  <2>5. <<"planning">> # <<"planning", "inline">>
    OBVIOUS
  <2>6. ModeOf(word) \in {"auto", "inline"}
    BY ModeTwo
  <2> HIDE DEF word
  <2> QED
    BY <2>2, <2>3, <2>4, <2>5, <2>6
<1> QED
  BY <1>1, <1>2

\* The same of the mapping that is read from config.yaml.
LEMMA DispatchIs == DispatchAgrees
<1> DEFINE c == Parse(config)
<1> SUFFICES ASSUME "codex" \in DOMAIN c => IsMap(c.codex)
             PROVE  LET inline == DispatchMode(c) = "inline"
                    IN  /\ (EffectivePlatform("codex", c) = "codex-inline") = inline
                        /\ (BreadcrumbKey("planning", "codex", c) = <<"planning", "inline">>) = inline
  BY DEF DispatchAgrees
<1> HIDE DEF c
<1> QED
  BY DispatchOfOne

\* Both hooks show one state, by the cases of the task.
LEMMA SessionIs == RInit => SessionAgreesWithPrompt
<1> SUFFICES ASSUME RInit, topic = "status",
                    \/ input.pointer # "set"
                    \/ /\ input.task.json = "read" /\ input.task.status # ""
                       /\ input.task.prd \/ input.task.status = "completed"
             PROVE  SessionStatus(input.pointer, input.task) = PromptStatus(input.pointer, input.task)
  BY DEF SessionAgreesWithPrompt
<1>1. input \in [pointer : {"none", "stale", "set"}, task : Tasks]
  BY DEF RInit
<1>2. input.pointer \in {"none", "stale", "set"}
  BY <1>1
<1> QED
  BY <1>2 DEF SessionStatus, PromptStatus

\* The input of a behaviour stays what it is.
LEMMA InputStays == RSpec => []RInit
<1>1. RInit /\ [RNext]_rvars => RInit'
  BY DEF RInit, RNext, rvars
<1> QED
  BY <1>1, PTL DEF RSpec

\* For any config.yaml, the scripts, the steps of workflow.md and the hook of
\* every prompt take the same side on whether Codex dispatches sub-agents, and
\* for any task, a session starts with the state that its prompts show.
THEOREM HooksAndScriptsAgree == RSpec => []ReadersAgree
<1>1. RInit => ReadersAgree
  BY DispatchIs, SessionIs DEF ReadersAgree
<1> QED
  BY <1>1, InputStays, PTL

\* filter_platform shows the text of one mode, and no three blank lines in a
\* row.
LEMMA TextIs == RInit => TextOfOneMode
<1> SUFFICES ASSUME RInit, topic = "text", NEW platform \in Platform
             PROVE  LET shown == FilterPlatform(input, platform) IN
               /\ Picked(shown, {i \in DOMAIN shown : shown[i].kind = "text"}) = TextFor(input, platform)
               /\ \A i \in 1 .. Len(shown) - 2 : \E j \in i .. i + 2 : ~Blank(shown[j])
  BY DEF TextOfOneMode
<1>1. input \in Seq(TextLine)
  BY DEF RInit
<1> QED
  BY <1>1, ShownText DEF Spaced

\* The prompts show each state that is closed and named once.
LEMMA StatesAre == RInit => StatesReadBack
<1> SUFFICES ASSUME RInit, topic = "states", \A tag \in Tags : Proper(tag),
                    NEW status \in Status, NEW key \in {<<status>>, <<status, "inline">>}
             PROVE  Breadcrumb(Breadcrumbs(input), status, key) =
                      IF Marker("open", key) # {} THEN ContentOf(key)
                      ELSE IF Marker("open", <<status>>) # {} THEN ContentOf(<<status>>)
                      ELSE Generic
  BY DEF StatesReadBack
<1>1. input \in Seq(StateLine)
  BY DEF RInit
<1> QED
  BY <1>1, StatesRead

\* The two indexes hide the blocks that the prompts show.
LEMMA IndexIs == RInit => IndexHidesStates
<1> SUFFICES ASSUME RInit, topic = "index" PROVE IndexHidesStates
  BY DEF IndexHidesStates
<1>1. input \in Seq(IndexLine)
  BY DEF RInit
<1>2. \A l \in IndexLine : ~Blank(l)
  BY DEF IndexLine, Blank
<1> DEFINE ls == input
<1> HIDE DEF ls
<1>3. ls \in Seq(IndexLine)
  BY <1>1 DEF ls
<1>4. LET s == Section(ls)
          hidden == UNION {b[1] .. b[2] : b \in Blocks(ls)}
          Crossed(at) == \E b \in Blocks(ls) : b[1] < at /\ at <= b[2]
          own == Picked(ls, {i \in s.start .. s.end - 1 : i \notin hidden /\ ls[i].kind # "marker"})
      IN  (s.start # 0 /\ ~Crossed(s.start) /\ ~Crossed(s.end)) =>
            Without(PhaseIndex(ls), {"marker"}) = own /\ SessionIndex(ls) = own
  BY <1>2, <1>3, IndexAlone
<1> QED
  BY <1>4 DEF IndexHidesStates, ls

\* get_step shows the lines of its step.
LEMMA StepsAre == RInit => StepsApart
<1> SUFFICES ASSUME RInit, topic = "steps", NEW id \in StepId
             PROVE  LET Over(k) == {i \in 1 .. k : input[i].kind \in {"step", "heading", "rule"}}
                        IsHead(i) == input[i].kind = "step" /\ input[i].tag = id
                        Owned(k) ==
                          \E i \in Over(k) :
                            /\ IsHead(i)
                            /\ \A j \in Over(k) : j <= i
                            /\ \A j \in 1 .. i - 1 : ~IsHead(j)
                    IN  Step(input, id) = Strip(Picked(input, {k \in DOMAIN input : Owned(k)}))
  BY DEF StepsApart
<1>1. input \in Seq(StepLine)
  BY DEF RInit
<1>2. \A l \in StepLine : l.kind \notin {"index", "phase"}
  BY DEF StepLine, PlainLine
<1>3. \A i \in DOMAIN input : input[i].kind \notin {"index", "phase"}
  <2> SUFFICES ASSUME NEW i \in DOMAIN input PROVE input[i].kind \notin {"index", "phase"}
    OBVIOUS
  <2>1. input[i] \in StepLine
    BY <1>1
  <2> QED
    BY <1>2, <2>1
<1> DEFINE ls == input
<1> HIDE DEF ls
<1>4. ls \in Seq(StepLine) /\ \A i \in DOMAIN ls : ls[i].kind \notin {"index", "phase"}
  BY <1>1, <1>3 DEF ls
<1>5. LET Over(k) == {i \in 1 .. k : ls[i].kind \in {"step", "heading", "rule"}}
          IsHead(i) == ls[i].kind = "step" /\ ls[i].tag = id
          Owned(k) ==
            \E i \in Over(k) :
              /\ IsHead(i)
              /\ \A j \in Over(k) : j <= i
              /\ \A j \in 1 .. i - 1 : ~IsHead(j)
      IN  (\A i \in DOMAIN ls : ls[i].kind \notin {"index", "phase"}) =>
            Step(ls, id) = Strip(Picked(ls, {k \in DOMAIN ls : Owned(k)}))
  BY <1>4, StepAlone
<1> QED
  BY <1>4, <1>5 DEF ls

\* For any workflow.md, of any length and with any markers, every reader takes
\* exactly its part of it: the prompts the states, the indexes all but the
\* states, a step its section, and Codex the text of its mode.
THEOREM WorkflowIsPartitioned == RSpec => []WorkflowPartitioned
<1>1. RInit => WorkflowPartitioned
  BY TextIs, StatesAre, IndexIs, StepsAre DEF WorkflowPartitioned
<1> QED
  BY <1>1, InputStays, PTL

-----------------------------------------------------------------------------
(* The parser of config.yaml: what is read from a line on depends on later *)
(* lines only.                                                             *)

At(ls) == (1 .. Len(ls) + 1) \X Indents(ls)
Reads(f, ls) == f = [p \in At(ls) |-> Block(ls, p[1], p[2], f)]
ReadOf(ls) == CHOOSE f : Reads(f, ls)

\* _next_content_line stops at the first line with content.
LEMMA NextContentIs ==
  ASSUME NEW V, NEW ls \in Seq(V), NEW i \in 1 .. Len(ls) + 1
  PROVE  /\ NextContent(ls, i) \in i .. Len(ls) + 1
         /\ NextContent(ls, i) <= Len(ls) => ls[NextContent(ls, i)].kind # "none"
         /\ \A j \in i .. NextContent(ls, i) - 1 : ls[j].kind = "none"
<1> DEFINE n == Len(ls)
           later == {j \in i .. n : ls[j].kind # "none"}
           m == NextContent(ls, i)
<1>1. n \in Nat /\ later \in SUBSET (1 .. n) /\ i \in Nat /\ 1 <= i /\ i <= n + 1
  OBVIOUS
<1>2. CASE later = {}
  <2>1. m = n + 1
    BY <1>2 DEF NextContent
  <2> QED
    BY <1>1, <1>2, <2>1
<1>3. CASE later # {}
  <2>1. \E k \in later : \A j \in later : k <= j
    <3> HIDE DEF later, n
    <3> QED
      BY <1>1, <1>3, FirstOf
  <2>2. m = CHOOSE k \in later : \A j \in later : k <= j
    BY <1>3 DEF NextContent
  <2>3. m \in later /\ \A j \in later : m <= j
    BY <2>1, <2>2
  <2> HIDE DEF m
  <2>4. m \in i .. n /\ ls[m].kind # "none"
    BY <2>3
  <2>5. ASSUME NEW j \in i .. m - 1 PROVE ls[j].kind = "none"
    <3>1. j \in i .. n /\ ~(m <= j)
      BY <1>1, <2>4
    <3> QED
      BY <2>3, <3>1
  <2> QED
    BY <1>1, <2>4, <2>5 DEF m
<1> QED
  BY <1>2, <1>3

\* What a line l reads, case by case; k is the next one with content.
On(ls, i, min) == i <= Len(ls) /\ (ls[i].kind = "none" \/ ~(ls[i].indent < min))
Deep(ls, i) == NextContent(ls, i + 1)
Opened(ls, i, min) == On(ls, i, min) /\ ls[i].kind = "open"
BlockFrom(ls, i, min, block, r) ==
  /\ ~On(ls, i, min) => r = Nothing(i)
  /\ On(ls, i, min) /\ ls[i].kind \in {"none", "text"} => r = block[<<i + 1, min>>]
  /\ On(ls, i, min) /\ ls[i].kind = "item" => r = Listed(ls[i].value, block[<<i + 1, min>>])
  /\ On(ls, i, min) /\ ls[i].kind = "pair" => r = Under(ls[i].key, Str(ls[i].value), block[<<i + 1, min>>])
  /\ Opened(ls, i, min) /\ Deep(ls, i) > Len(ls) => r = Under(ls[i].key, Map(Empty), Nothing(Deep(ls, i)))
  /\ Opened(ls, i, min) /\ Deep(ls, i) <= Len(ls) /\ ls[Deep(ls, i)].kind = "item" =>
       r = Under(ls[i].key, List(block[<<i + 1, min>>].items), block[<<i + 1, min>>])
  /\ Opened(ls, i, min) /\ Deep(ls, i) <= Len(ls) /\ ls[Deep(ls, i)].kind # "item"
     /\ ls[Deep(ls, i)].indent > ls[i].indent =>
       r = Within(ls[i].key, block[<<i + 1, ls[Deep(ls, i)].indent>>], min, block)
  /\ Opened(ls, i, min) /\ Deep(ls, i) <= Len(ls) /\ ls[Deep(ls, i)].kind # "item"
     /\ ~(ls[Deep(ls, i)].indent > ls[i].indent) =>
       r = Under(ls[i].key, Map(Empty), block[<<i + 1, min>>])

LineKinds == {"none", "text", "item", "pair", "open"}

\* _parse_yaml_block, by the kinds of lines.
LEMMA BlockIs ==
  ASSUME NEW ls, Len(ls) \in Nat, NEW i \in 1 .. Len(ls) + 1, NEW min, NEW block,
         Deep(ls, i) \in Nat
  PROVE  BlockFrom(ls, i, min, block, Block(ls, i, min, block))
<1> DEFINE r == Block(ls, i, min, block)
<1>0. /\ On(ls, i, min) <=> ~(i > Len(ls) \/ (ls[i].kind # "none" /\ ls[i].indent < min))
      /\ ~(Deep(ls, i) > Len(ls) /\ Deep(ls, i) <= Len(ls))
  BY DEF On
<1>1. ~On(ls, i, min) => r = Nothing(i)
  BY <1>0 DEF Block
<1>2. On(ls, i, min) /\ ls[i].kind \in {"none", "text"} => r = block[<<i + 1, min>>]
  BY <1>0 DEF Block
<1>3. On(ls, i, min) /\ ls[i].kind = "item" => r = Listed(ls[i].value, block[<<i + 1, min>>])
  BY <1>0 DEF Block
<1>4. On(ls, i, min) /\ ls[i].kind = "pair" => r = Under(ls[i].key, Str(ls[i].value), block[<<i + 1, min>>])
  BY <1>0 DEF Block
<1>5. ASSUME Opened(ls, i, min), Deep(ls, i) > Len(ls)
      PROVE  r = Under(ls[i].key, Map(Empty), Nothing(Deep(ls, i)))
  BY <1>0, <1>5 DEF Block, Opened, Deep
<1>6. Opened(ls, i, min) /\ Deep(ls, i) <= Len(ls) /\ ls[Deep(ls, i)].kind = "item" =>
       r = Under(ls[i].key, List(block[<<i + 1, min>>].items), block[<<i + 1, min>>])
  BY <1>0 DEF Block, Opened, Deep
<1>7. Opened(ls, i, min) /\ Deep(ls, i) <= Len(ls) /\ ls[Deep(ls, i)].kind # "item"
      /\ ls[Deep(ls, i)].indent > ls[i].indent =>
        r = Within(ls[i].key, block[<<i + 1, ls[Deep(ls, i)].indent>>], min, block)
  BY <1>0 DEF Block, Opened, Deep
<1>8. Opened(ls, i, min) /\ Deep(ls, i) <= Len(ls) /\ ls[Deep(ls, i)].kind # "item"
      /\ ~(ls[Deep(ls, i)].indent > ls[i].indent) =>
        r = Under(ls[i].key, Map(Empty), block[<<i + 1, min>>])
  BY <1>0 DEF Block, Opened, Deep
<1> QED
  BY <1>1, <1>2, <1>3, <1>4, <1>5, <1>6, <1>7, <1>8 DEF BlockFrom

-----------------------------------------------------------------------------
(* Lines of config.yaml of any kind.                                       *)

IsLines(V, ls) == ls \in Seq(V) /\ \A l \in V : l.kind \in LineKinds /\ l.indent \in Nat

\* Lines, their kinds and indents.
LEMMA LinesAre ==
  ASSUME NEW V, NEW ls, IsLines(V, ls)
  PROVE  /\ ls \in Seq(V) /\ Len(ls) \in Nat /\ DOMAIN ls = 1 .. Len(ls)
         /\ \A i \in 1 .. Len(ls) : ls[i].kind \in LineKinds /\ ls[i].indent \in Nat /\ ls[i].indent \in Indents(ls)
         /\ 0 \in Indents(ls) /\ Indents(ls) \subseteq Nat
<1>1. ls \in Seq(V) /\ Len(ls) \in Nat /\ DOMAIN ls = 1 .. Len(ls)
  BY DEF IsLines
<1>2. \A i \in 1 .. Len(ls) : ls[i] \in V
  BY <1>1
<1>3. \A i \in 1 .. Len(ls) : ls[i].kind \in LineKinds /\ ls[i].indent \in Nat
  BY <1>2 DEF IsLines
<1> QED
  BY <1>1, <1>3 DEF Indents

\* Where the next line with content is.
LEMMA DeepIs ==
  ASSUME NEW V, NEW ls, IsLines(V, ls), NEW i \in 1 .. Len(ls)
  PROVE  Deep(ls, i) \in i + 1 .. Len(ls) + 1 /\ Deep(ls, i) \in Nat
<1>1. ls \in Seq(V) /\ Len(ls) \in Nat
  BY LinesAre
<1>2. i + 1 \in 1 .. Len(ls) + 1
  BY <1>1
<1>3. NextContent(ls, i + 1) \in i + 1 .. Len(ls) + 1
  BY <1>1, <1>2, NextContentIs
<1> QED
  BY <1>1, <1>2, <1>3 DEF Deep

\* A line reads what the later ones have read, and ends after them.
Later(ls, i, f, g) ==
  \A k \in i + 1 .. Len(ls) + 1 : \A m \in Indents(ls) :
    f[<<k, m>>] = g[<<k, m>>] /\ f[<<k, m>>].next \in k .. Len(ls) + 1

\* What is read from a line on depends on what is read from later lines only.
LEMMA BlockSame ==
  ASSUME NEW V, NEW ls, IsLines(V, ls), NEW i \in 1 .. Len(ls) + 1, NEW min \in Indents(ls), NEW f, NEW g,
         Later(ls, i, f, g)
  PROVE  Block(ls, i, min, f) = Block(ls, i, min, g) /\ Block(ls, i, min, f).next \in i .. Len(ls) + 1
<1> DEFINE n == Len(ls)
           j == Deep(ls, i)
           r == Block(ls, i, min, f)
           s == Block(ls, i, min, g)
<1>1. /\ n \in Nat /\ i \in Nat /\ 1 <= i /\ i <= n + 1
      /\ \A k \in 1 .. n : ls[k].kind \in LineKinds /\ ls[k].indent \in Nat /\ ls[k].indent \in Indents(ls)
  BY LinesAre
<1>2. CASE ~On(ls, i, min)
  <2>1. r = Nothing(i) /\ s = Nothing(i)
    <3>1. i > Len(ls) \/ (ls[i].kind # "none" /\ ls[i].indent < min)
      BY <1>1, <1>2 DEF On
    <3> QED
      BY <3>1 DEF Block
  <2>2. Nothing(i).next = i
    BY DEF Nothing
  <2> QED
    BY <1>1, <2>1, <2>2
<1>3. CASE On(ls, i, min)
  <2>1. i \in 1 .. n /\ j \in i + 1 .. n + 1 /\ j \in Nat /\ ls[i].kind \in LineKinds
    <3>1. i \in 1 .. n
      BY <1>1, <1>3 DEF On
    <3>2. j \in i + 1 .. Len(ls) + 1 /\ j \in Nat
      BY <3>1, DeepIs
    <3> QED
      BY <1>1, <3>1, <3>2
  <2>2. BlockFrom(ls, i, min, f, r) /\ BlockFrom(ls, i, min, g, s)
    BY <1>1, <2>1, BlockIs
  <2>3. \A k \in i + 1 .. n + 1 : \A m \in Indents(ls) :
          f[<<k, m>>] = g[<<k, m>>] /\ f[<<k, m>>].next \in k .. n + 1
    BY DEF Later
  <2>4. i + 1 \in i + 1 .. n + 1
    BY <1>1, <2>1
  <2>5. f[<<i + 1, min>>] = g[<<i + 1, min>>] /\ f[<<i + 1, min>>].next \in i .. n + 1
    <3>1. f[<<i + 1, min>>] = g[<<i + 1, min>>] /\ f[<<i + 1, min>>].next \in i + 1 .. n + 1
      BY <2>3, <2>4
    <3> QED
      BY <1>1, <3>1
  <2> HIDE DEF r, s, j, n
  <2>6. CASE ls[i].kind \in {"none", "text"}
    BY <1>3, <2>2, <2>5, <2>6 DEF BlockFrom, r, s, n
  <2>7. CASE ls[i].kind = "item"
    <3> DEFINE a == f[<<i + 1, min>>]
               b == g[<<i + 1, min>>]
    <3>1. r = Listed(ls[i].value, a) /\ s = Listed(ls[i].value, b)
      BY <1>3, <2>2, <2>7 DEF BlockFrom
    <3>2. a = b /\ a.next \in i .. n + 1
      BY <2>5
    <3> HIDE DEF a, b
    <3>3. r.next = a.next
      BY <3>1 DEF Listed
    <3>4. r = s /\ r.next \in i .. n + 1
      BY <3>1, <3>2, <3>3
    <3> QED
      BY <3>4 DEF r, s, n
  <2>8. CASE ls[i].kind = "pair"
    BY <1>3, <2>2, <2>5, <2>8 DEF BlockFrom, Under, r, s, n
  <2>9. CASE ls[i].kind = "open"
    <3>0. Opened(ls, i, min)
      BY <1>3, <2>9 DEF Opened
    <3>1. CASE Deep(ls, i) > Len(ls)
      <4>1. r = Under(ls[i].key, Map(Empty), Nothing(Deep(ls, i))) /\ s = r
        BY <2>2, <3>0, <3>1 DEF BlockFrom
      <4>2. r.next = j
        BY <4>1 DEF Under, Nothing, j
      <4> QED
        BY <1>1, <2>1, <4>1, <4>2 DEF n, r, s
    <3>2. CASE Deep(ls, i) <= Len(ls) /\ ls[Deep(ls, i)].kind = "item"
      BY <2>2, <2>5, <3>0, <3>2 DEF BlockFrom, Under, r, s, n
    <3>3. CASE Deep(ls, i) <= Len(ls) /\ ls[Deep(ls, i)].kind # "item" /\ ls[Deep(ls, i)].indent > ls[i].indent
      <4> DEFINE m == ls[Deep(ls, i)].indent
                 sub == f[<<i + 1, m>>]
                 next == sub.next
      <4>1. m \in Indents(ls)
        BY <1>1, <2>1, <3>3 DEF j, n
      <4>2. /\ r = Within(ls[i].key, sub, min, f)
            /\ s = Within(ls[i].key, g[<<i + 1, m>>], min, g)
        BY <2>2, <3>0, <3>3 DEF BlockFrom
      <4> HIDE DEF m
      <4>3. sub = g[<<i + 1, m>>] /\ next \in i + 1 .. n + 1
        BY <2>3, <2>4, <4>1
      <4>4. f[<<next, min>>] = g[<<next, min>>] /\ f[<<next, min>>].next \in next .. n + 1
        BY <2>3, <4>3
      <4> HIDE DEF sub
      <4>5. r = Under(ls[i].key, Map(sub.map), f[<<next, min>>]) /\ s = Under(ls[i].key, Map(sub.map), g[<<next, min>>])
        BY <4>2, <4>3 DEF Within
      <4>6. r.next = f[<<next, min>>].next
        BY <4>5 DEF Under
      <4>7. r.next \in i .. n + 1
        <5> HIDE DEF next
        <5> QED
          BY <1>1, <4>3, <4>4, <4>6
      <4> QED
        BY <4>4, <4>5, <4>7 DEF r, s, n
    <3>4. CASE Deep(ls, i) <= Len(ls) /\ ls[Deep(ls, i)].kind # "item" /\ ~(ls[Deep(ls, i)].indent > ls[i].indent)
      BY <2>2, <2>5, <3>0, <3>4 DEF BlockFrom, Under, r, s, n
    <3>5. Deep(ls, i) > Len(ls) \/ Deep(ls, i) <= Len(ls)
      BY <1>1, <2>1 DEF j, n
    <3> QED
      BY <3>1, <3>2, <3>3, <3>4, <3>5
  <2> QED
    BY <2>1, <2>6, <2>7, <2>8, <2>9 DEF LineKinds
<1> QED
  BY <1>2, <1>3

-----------------------------------------------------------------------------
(* The parser as a table, made from the last line up.                      *)

Table(ls, k, f) ==
  \A i \in k .. Len(ls) + 1 : \A m \in Indents(ls) :
    f[<<i, m>>] = Block(ls, i, m, f) /\ f[<<i, m>>].next \in i .. Len(ls) + 1

\* One line more.
LEMMA TableStep ==
  ASSUME NEW V, NEW ls, IsLines(V, ls), NEW k \in 1 .. Len(ls) + 1, NEW f, Table(ls, k + 1, f)
  PROVE  \E g : Table(ls, k, g)
<1> DEFINE n == Len(ls)
           g == [p \in At(ls) |-> IF p[1] = k THEN Block(ls, k, p[2], f) ELSE f[p]]
<1>1. n \in Nat /\ k \in Nat /\ 1 <= k /\ k <= n + 1
  BY LinesAre
<1>2. ASSUME NEW i \in 1 .. n + 1, NEW m \in Indents(ls)
      PROVE  g[<<i, m>>] = IF i = k THEN Block(ls, k, m, f) ELSE f[<<i, m>>]
  <2>1. <<i, m>> \in At(ls) /\ <<i, m>>[1] = i /\ <<i, m>>[2] = m
    BY DEF At
  <2> HIDE DEF At
  <2> QED
    BY <2>1
<1>3. \A i \in k + 1 .. n + 1 : \A m \in Indents(ls) :
        /\ f[<<i, m>>] = Block(ls, i, m, f) /\ f[<<i, m>>].next \in i .. n + 1
        /\ g[<<i, m>>] = f[<<i, m>>]
  <2>1. \A i \in k + 1 .. n + 1 : i \in 1 .. n + 1 /\ i # k
    BY <1>1
  <2>2. \A i \in k + 1 .. n + 1 : \A m \in Indents(ls) : g[<<i, m>>] = f[<<i, m>>]
    <3> HIDE DEF g
    <3> QED
      BY <1>2, <2>1
  <2> QED
    BY <2>2 DEF Table
<1> HIDE DEF g
<1>4. ASSUME NEW i \in k .. n + 1, NEW m \in Indents(ls)
      PROVE  g[<<i, m>>] = Block(ls, i, m, g) /\ g[<<i, m>>].next \in i .. n + 1
  <2>1. i \in 1 .. n + 1 /\ \A j \in i + 1 .. n + 1 : j \in k + 1 .. n + 1
    BY <1>1
  <2>2. Later(ls, i, f, g)
    BY <1>3, <2>1 DEF Later
  <2>3. Block(ls, i, m, f) = Block(ls, i, m, g) /\ Block(ls, i, m, f).next \in i .. n + 1
    BY <2>1, <2>2, BlockSame
  <2>4. CASE i = k
    BY <1>2, <2>1, <2>3, <2>4
  <2>5. CASE i # k
    <3>1. i \in k + 1 .. n + 1
      BY <1>1, <2>5
    <3> QED
      BY <1>3, <2>3, <3>1
  <2> QED
    BY <2>4, <2>5
<1> QED
  BY <1>4 DEF Table

\* There is a table of what is read from each line on at each indent.
LEMMA TableExists ==
  ASSUME NEW V, NEW ls, IsLines(V, ls)
  PROVE  \E f : Table(ls, 1, f)
<1> DEFINE n == Len(ls)
           S == {k \in 0 .. n + 1 : \E f : Table(ls, n + 2 - k, f)}
<1>1. n \in Nat /\ n + 1 \in Nat
  BY LinesAre
<1>2. 0 \in S
  <2>1. Table(ls, n + 2 - 0, <<>>)
    <3>1. n + 2 - 0 .. n + 1 = {}
      BY <1>1
    <3> QED
      BY <3>1 DEF Table
  <2> QED
    BY <1>1, <2>1
<1>3. ASSUME NEW k \in 0 .. n + 1, k \in S, k < n + 1 PROVE k + 1 \in S
  <2> DEFINE i == n + 2 - (k + 1)
  <2>1. i \in 1 .. n + 1 /\ i + 1 = n + 2 - k /\ k + 1 \in 0 .. n + 1
    BY <1>1, <1>3
  <2>2. PICK f : Table(ls, n + 2 - k, f)
    BY <1>3
  <2>3. Table(ls, i + 1, f)
    BY <2>1, <2>2
  <2>4. \E g : Table(ls, i, g)
    <3> HIDE DEF i
    <3> QED
      BY <2>1, <2>3, TableStep
  <2> QED
    BY <2>1, <2>4
<1>4. 0 .. n + 1 \subseteq S
  <2> HIDE DEF S
  <2> QED
    BY <1>1, <1>2, <1>3, UpTo
<1>5. n + 1 \in S /\ n + 2 - (n + 1) = 1
  BY <1>1, <1>4
<1> QED
  BY <1>5

\* The table of the parser.
LEMMA ReadIs ==
  ASSUME NEW V, NEW ls, IsLines(V, ls)
  PROVE  Table(ls, 1, ReadOf(ls)) /\ Parse(ls) = ReadOf(ls)[<<1, 0>>].map
<1> DEFINE n == Len(ls)
           F == ReadOf(ls)
<1>1. n \in Nat
  BY LinesAre
<1>2. PICK g : Table(ls, 1, g)
  BY TableExists
<1> DEFINE f == [p \in At(ls) |-> g[p]]
<1>3. ASSUME NEW p \in At(ls) PROVE f[p] = Block(ls, p[1], p[2], f)
  <2>1. p[1] \in 1 .. n + 1 /\ p[2] \in Indents(ls) /\ p = <<p[1], p[2]>>
    BY DEF At
  <2> DEFINE i == p[1]
             m == p[2]
  <2>2. g[<<i, m>>] = Block(ls, i, m, g)
    BY <1>2, <2>1 DEF Table
  <2>3. \A k \in i + 1 .. n + 1 : k \in 1 .. n + 1
    BY <1>1, <2>1
  <2>4. \A k \in i + 1 .. n + 1 : \A x \in Indents(ls) : <<k, x>> \in At(ls)
    BY <2>3 DEF At
  <2>5. Later(ls, i, g, f)
    BY <1>2, <2>3, <2>4 DEF Later, Table
  <2>6. Block(ls, i, m, g) = Block(ls, i, m, f)
    <3> HIDE DEF i, m, f
    <3>1. i \in 1 .. Len(ls) + 1 /\ m \in Indents(ls)
      BY <2>1 DEF i, m
    <3> QED
      BY <2>5, <3>1, BlockSame
  <2>7. f[p] = g[<<i, m>>]
    BY <2>1
  <2> HIDE DEF f
  <2> QED
    BY <2>2, <2>6, <2>7
<1>4. Reads(f, ls)
  <2>1. [p \in At(ls) |-> g[p]] = [p \in At(ls) |-> Block(ls, p[1], p[2], f)]
    BY <1>3
  <2> QED
    BY <2>1 DEF Reads
<1>5. Reads(F, ls)
  BY <1>4 DEF ReadOf
<1> HIDE DEF F
<1>6. ASSUME NEW i \in 1 .. n + 1, NEW m \in Indents(ls) PROVE F[<<i, m>>] = Block(ls, i, m, F)
  <2>1. <<i, m>> \in At(ls) /\ <<i, m>>[1] = i /\ <<i, m>>[2] = m
    BY DEF At
  <2>2. F[<<i, m>>] = Block(ls, <<i, m>>[1], <<i, m>>[2], F)
    BY <1>5, <2>1 DEF Reads
  <2> QED
    BY <2>1, <2>2
<1> DEFINE S == {k \in 0 .. n + 1 : Table(ls, n + 2 - k, F)}
<1>7. 0 \in S
  <2>1. n + 2 - 0 .. n + 1 = {}
    BY <1>1
  <2> QED
    BY <1>1, <2>1 DEF Table
<1>8. ASSUME NEW k \in 0 .. n + 1, k \in S, k < n + 1 PROVE k + 1 \in S
  <2> DEFINE i == n + 2 - (k + 1)
  <2>1. i \in 1 .. n + 1 /\ i + 1 = n + 2 - k /\ k + 1 \in 0 .. n + 1 /\ i \in Nat
    BY <1>1, <1>8
  <2>2. Table(ls, i + 1, F)
    BY <1>8, <2>1
  <2>3. Table(ls, i, F)
    <3> HIDE DEF i
    <3>1. Later(ls, i, F, F)
      BY <2>2 DEF Table, Later
    <3>2. \A m \in Indents(ls) : Block(ls, i, m, F).next \in i .. Len(ls) + 1
      BY <2>1, <3>1, BlockSame
    <3>3. \A x \in i .. n + 1 : x = i \/ x \in i + 1 .. n + 1
      BY <1>1, <2>1
    <3> QED
      BY <1>6, <2>1, <2>2, <3>2, <3>3 DEF Table
  <2> QED
    BY <2>1, <2>3
<1>9. 0 .. n + 1 \subseteq S
  <2>1. n + 1 \in Nat
    BY <1>1
  <2> HIDE DEF S
  <2> QED
    BY <1>7, <1>8, <2>1, UpTo
<1>10. n + 1 \in S /\ n + 2 - (n + 1) = 1
  <2>1. n + 1 \in 0 .. n + 1 /\ n + 2 - (n + 1) = 1
    BY <1>1
  <2> HIDE DEF S
  <2> QED
    BY <1>9, <2>1
<1>11. Parse(ls) = ReadOf(ls)[<<1, 0>>].map
  BY DEF Parse, ReadOf, Reads, At
<1> QED
  BY <1>10, <1>11 DEF F

-----------------------------------------------------------------------------
(* Lines with content, and where they are among all lines.                 *)

\* What the parser reads at a place, by the lines.
LEMMA ReadAt ==
  ASSUME NEW V, NEW ls, IsLines(V, ls)
  PROVE  /\ \A m \in Indents(ls) : ReadOf(ls)[<<Len(ls) + 1, m>>] = Nothing(Len(ls) + 1)
         /\ \A i \in 1 .. Len(ls) : \A m \in Indents(ls) :
              BlockFrom(ls, i, m, ReadOf(ls), ReadOf(ls)[<<i, m>>])
         /\ \A i \in 1 .. Len(ls) + 1 : \A m \in Indents(ls) : ReadOf(ls)[<<i, m>>].next \in i .. Len(ls) + 1
<1> DEFINE F == ReadOf(ls)
           n == Len(ls)
<1>1. n \in Nat
  BY LinesAre
<1>2. \A i \in 1 .. n + 1 : \A m \in Indents(ls) :
        F[<<i, m>>] = Block(ls, i, m, F) /\ F[<<i, m>>].next \in i .. n + 1
  <2>1. Table(ls, 1, F)
    BY ReadIs
  <2> QED
    BY <2>1 DEF Table
<1> HIDE DEF F
<1>3. ASSUME NEW m \in Indents(ls) PROVE F[<<n + 1, m>>] = Nothing(n + 1)
  <2>1. n + 1 \in 1 .. n + 1 /\ n + 1 > Len(ls)
    BY <1>1
  <2>2. Block(ls, n + 1, m, F) = Nothing(n + 1)
    BY <2>1 DEF Block
  <2> QED
    BY <1>2, <2>1, <2>2
<1>4. ASSUME NEW i \in 1 .. n, NEW m \in Indents(ls) PROVE BlockFrom(ls, i, m, F, F[<<i, m>>])
  <2>1. i \in 1 .. n + 1 /\ Deep(ls, i) \in Nat
    BY <1>1, DeepIs
  <2>2. BlockFrom(ls, i, m, F, Block(ls, i, m, F))
    BY <1>1, <2>1, BlockIs
  <2> QED
    BY <1>2, <2>1, <2>2
<1> QED
  BY <1>2, <1>3, <1>4 DEF F

-----------------------------------------------------------------------------
(* Comments and blank lines.                                               *)

Placed(V, ls, c, pos) ==
  /\ pos[1] = 1 /\ pos[Len(ls) + 1] = Len(c) + 1 /\ \A i \in 1 .. Len(ls) + 1 : pos[i] \in 1 .. Len(c) + 1
  /\ \A i \in 1 .. Len(ls) :
       IF ls[i].kind = "none" THEN pos[i + 1] = pos[i]
       ELSE pos[i + 1] = pos[i] + 1 /\ c[pos[i]] = ls[i]
  /\ IsLines(V, c) /\ \A k \in 1 .. Len(c) : c[k].kind # "none"

\* The lines with content have their places among all lines.
LEMMA PlacedAre ==
  ASSUME NEW V, NEW ls, IsLines(V, ls)
  PROVE  \E pos : Placed(V, ls, Content(ls), pos)
<1> DEFINE n == Len(ls)
           P == {i \in DOMAIN ls : ls[i].kind # "none"}
           g == PickOf(ls, P)
           c == Content(ls)
           W == {l \in V : l.kind # "none"}
           pos == [i \in 1 .. n + 1 |-> Len(g[i - 1]) + 1]
<1>1. ls \in Seq(V) /\ n \in Nat /\ DOMAIN ls = 1 .. n /\ \A i \in 1 .. n : ls[i] \in V
  <2>1. ls \in Seq(V) /\ Len(ls) \in Nat /\ DOMAIN ls = 1 .. Len(ls)
    BY LinesAre
  <2> QED
    BY <2>1
<1>2. /\ g[0] = <<>> /\ c = g[n]
      /\ \A i \in 1 .. n : g[i] = IF i \in P THEN Append(g[i - 1], ls[i]) ELSE g[i - 1]
  <2>1. PicksTo(V, ls, P, g)
    BY <1>1, PickStep
  <2> HIDE DEF g, P
  <2> QED
    BY <2>1 DEF PicksTo, Content, P
<1>3. \A i \in 1 .. n : (i \in P <=> ls[i].kind # "none") /\ (i \in P => ls[i] \in W)
  BY <1>1
<1> HIDE DEF g, P, c, n
<1> DEFINE S == {i \in 0 .. n : g[i] \in Seq(W) /\ \A j \in 0 .. i :
                   Len(g[j]) <= Len(g[i]) /\ \A k \in 1 .. Len(g[j]) : g[i][k] = g[j][k]}
<1>4. 0 \in S
  <2>1. g[0] \in Seq(W)
    BY <1>2
  <2>2. \A j \in 0 .. 0 : j = 0
    OBVIOUS
  <2>3. 0 \in 0 .. n /\ Len(g[0]) \in Nat
    BY <1>1, <2>1
  <2> QED
    BY <2>1, <2>2, <2>3
<1>5. ASSUME NEW i \in 0 .. n, i \in S, i < n PROVE i + 1 \in S
  <2>1. i + 1 \in 1 .. n /\ (i + 1) - 1 = i /\ i + 1 \in 0 .. n /\ i \in Nat
    BY <1>1, <1>5
  <2>2. g[i + 1] = IF i + 1 \in P THEN Append(g[i], ls[i + 1]) ELSE g[i]
    BY <1>2, <2>1
  <2>3. g[i] \in Seq(W) /\ \A j \in 0 .. i : Len(g[j]) <= Len(g[i]) /\ \A k \in 1 .. Len(g[j]) : g[i][k] = g[j][k]
    BY <1>5
  <2>4. \A j \in 0 .. i + 1 : j \in 0 .. i \/ j = i + 1
    BY <2>1
  <2>5. CASE i + 1 \notin P
    <3>1. g[i + 1] = g[i]
      BY <2>2, <2>5
    <3>2. Len(g[i]) \in Nat
      BY <2>3
    <3> QED
      BY <2>1, <2>3, <2>4, <3>1, <3>2
  <2>6. CASE i + 1 \in P
    <3> DEFINE a == g[i]
               b == g[i + 1]
               l == ls[i + 1]
    <3>1. a \in Seq(W) /\ l \in W /\ b = Append(a, l)
      BY <1>3, <2>1, <2>2, <2>3, <2>6
    <3> HIDE DEF a, b, l
    <3>2. b \in Seq(W) /\ Len(a) \in Nat /\ Len(b) = Len(a) + 1 /\ \A k \in 1 .. Len(a) : b[k] = a[k]
      BY <3>1
    <3>3. ASSUME NEW j \in 0 .. i PROVE Len(g[j]) <= Len(b) /\ \A k \in 1 .. Len(g[j]) : b[k] = g[j][k]
      <4>1. Len(g[j]) <= Len(a) /\ \A k \in 1 .. Len(g[j]) : a[k] = g[j][k]
        BY <2>3 DEF a
      <4>2. Len(g[j]) \in Int
        <5>1. j \in 0 .. i
          OBVIOUS
        <5> QED
          BY <4>1, <3>2
      <4>3. \A k \in 1 .. Len(g[j]) : k \in 1 .. Len(a)
        BY <3>2, <4>1, <4>2
      <4> QED
        BY <3>2, <4>1, <4>2, <4>3
    <3>4. Len(b) <= Len(b)
      BY <3>2
    <3> QED
      BY <2>1, <2>4, <3>2, <3>3, <3>4 DEF b
  <2> QED
    BY <2>5, <2>6
<1>6. 0 .. n \subseteq S
  <2> HIDE DEF S
  <2> QED
    BY <1>1, <1>4, <1>5, UpTo
<1>7. ASSUME NEW i \in 0 .. n
      PROVE  g[i] \in Seq(W) /\ Len(g[i]) \in Nat /\ Len(g[i]) <= Len(c)
             /\ \A k \in 1 .. Len(g[i]) : c[k] = g[i][k]
  <2>1. i \in S /\ n \in S
    <3>1. n \in 0 .. n
      BY <1>1
    <3> HIDE DEF S
    <3> QED
      BY <1>6, <3>1
  <2>2. g[i] \in Seq(W)
    BY <2>1
  <2>3. Len(g[i]) <= Len(g[n]) /\ \A k \in 1 .. Len(g[i]) : g[n][k] = g[i][k]
    BY <2>1
  <2> QED
    BY <1>2, <2>2, <2>3
<1>8. c \in Seq(W) /\ Len(c) \in Nat
  <2>1. n \in 0 .. n
    BY <1>1
  <2> QED
    BY <1>2, <1>7, <2>1
<1>9. ASSUME NEW i \in 1 .. n + 1 PROVE pos[i] = Len(g[i - 1]) + 1 /\ i - 1 \in 0 .. n
  BY <1>1
<1> HIDE DEF pos, S
<1>10. /\ pos[1] = 1 /\ pos[n + 1] = Len(c) + 1
  <2>1. 1 \in 1 .. n + 1 /\ n + 1 \in 1 .. n + 1 /\ 1 - 1 = 0 /\ (n + 1) - 1 = n
    BY <1>1
  <2>2. Len(g[0]) = 0
    BY <1>2
  <2>3. pos[1] = Len(g[1 - 1]) + 1 /\ pos[n + 1] = Len(g[(n + 1) - 1]) + 1
    BY <1>9, <2>1
  <2>4. pos[1] = Len(g[0]) + 1 /\ pos[n + 1] = Len(g[n]) + 1
    BY <2>1, <2>3
  <2> QED
    BY <1>2, <2>2, <2>4
<1>11. ASSUME NEW i \in 1 .. n + 1 PROVE pos[i] \in 1 .. Len(c) + 1
  <2> DEFINE k == i - 1
             x == Len(g[k])
  <2>1. k \in 0 .. n /\ pos[i] = x + 1
    BY <1>9
  <2>2. x \in Nat /\ x <= Len(c)
    BY <1>7, <2>1
  <2> HIDE DEF x
  <2> QED
    BY <1>8, <2>1, <2>2
<1>12. ASSUME NEW i \in 1 .. n
       PROVE  IF ls[i].kind = "none" THEN pos[i + 1] = pos[i]
              ELSE pos[i + 1] = pos[i] + 1 /\ c[pos[i]] = ls[i]
  <2>1. i \in 1 .. n + 1 /\ i + 1 \in 1 .. n + 1 /\ (i + 1) - 1 = i /\ i - 1 \in 0 .. n /\ i \in 0 .. n
    BY <1>1
  <2>2. pos[i] = Len(g[i - 1]) + 1 /\ pos[i + 1] = Len(g[i]) + 1
    BY <1>9, <2>1
  <2>3. g[i] = IF i \in P THEN Append(g[i - 1], ls[i]) ELSE g[i - 1]
    BY <1>2
  <2>4. CASE i \notin P
    BY <1>3, <2>2, <2>3, <2>4
  <2>5. CASE i \in P
    <3> DEFINE a == g[i - 1]
               b == g[i]
               l == ls[i]
    <3>1. a \in Seq(W) /\ l \in W /\ b = Append(a, l) /\ Len(b) <= Len(c) /\ \A k \in 1 .. Len(b) : c[k] = b[k]
      BY <1>3, <1>7, <2>1, <2>3, <2>5
    <3> HIDE DEF a, b, l
    <3>2. Len(a) \in Nat /\ Len(b) = Len(a) + 1 /\ b[Len(a) + 1] = l /\ Len(a) + 1 \in 1 .. Len(b)
      BY <3>1
    <3>3. c[Len(a) + 1] = l
      BY <3>1, <3>2
    <3> QED
      BY <1>3, <2>2, <2>5, <3>2, <3>3 DEF a, b, l
  <2> QED
    BY <2>4, <2>5
<1>13. IsLines(V, c) /\ \A k \in 1 .. Len(c) : c[k].kind # "none"
  <2>1. \A k \in 1 .. Len(c) : c[k] \in W
    BY <1>8
  <2>2. c \in Seq(V)
    <3>1. W \subseteq V
      OBVIOUS
    <3> HIDE DEF W
    <3> QED
      BY <1>8, <3>1
  <2> QED
    BY <2>1, <2>2 DEF IsLines
<1>14. Placed(V, ls, c, pos)
  BY <1>10, <1>11, <1>12, <1>13 DEF Placed, n
<1> QED
  BY <1>14 DEF c

\* The next line with content is the next one of the content.
LEMMA DeepPlaced ==
  ASSUME NEW V, NEW ls, IsLines(V, ls), NEW c, NEW pos, Placed(V, ls, c, pos),
         NEW i \in 1 .. Len(ls), ls[i].kind # "none"
  PROVE  /\ pos[i] \in 1 .. Len(c) /\ pos[i + 1] = pos[i] + 1 /\ c[pos[i]] = ls[i]
         /\ Deep(c, pos[i]) = pos[i] + 1
         /\ Deep(ls, i) > Len(ls) <=> Deep(c, pos[i]) > Len(c)
         /\ Deep(ls, i) <= Len(ls) => c[Deep(c, pos[i])] = ls[Deep(ls, i)]
<1> DEFINE n == Len(ls)
           m == Len(c)
           q == pos[i]
           j == Deep(ls, i)
<1>1. /\ pos[n + 1] = m + 1 /\ \A k \in 1 .. n + 1 : pos[k] \in 1 .. m + 1
      /\ \A k \in 1 .. n : IF ls[k].kind = "none" THEN pos[k + 1] = pos[k]
                           ELSE pos[k + 1] = pos[k] + 1 /\ c[pos[k]] = ls[k]
      /\ IsLines(V, c) /\ \A k \in 1 .. m : c[k].kind # "none"
  BY DEF Placed
<1>2. ls \in Seq(V) /\ c \in Seq(V) /\ n \in Nat /\ m \in Nat
  BY <1>1, LinesAre
<1>3. /\ j \in i + 1 .. n + 1 /\ (j <= n => ls[j].kind # "none")
      /\ \A k \in i + 1 .. j - 1 : ls[k].kind = "none"
  <2>1. i + 1 \in 1 .. Len(ls) + 1
    BY <1>2
  <2> QED
    BY <1>2, <2>1, NextContentIs DEF Deep
<1> HIDE DEF j, n, m
<1>4. q \in 1 .. m /\ pos[i + 1] = q + 1 /\ c[q] = ls[i]
  <2>1. i \in 1 .. n + 1 /\ i + 1 \in 1 .. n + 1 /\ i \in 1 .. n
    BY <1>2 DEF n
  <2>2. pos[i + 1] = q + 1 /\ c[q] = ls[i] /\ pos[i + 1] \in 1 .. m + 1 /\ q \in 1 .. m + 1
    BY <1>1, <2>1
  <2> HIDE DEF q
  <2> QED
    BY <1>2, <2>2
<1> HIDE DEF q
<1>5. pos[j] = q + 1
  <2> DEFINE S == {k \in 0 .. j - (i + 1) : pos[i + 1 + k] = q + 1}
  <2>0. j - (i + 1) \in Nat /\ i \in 1 .. n
    BY <1>2, <1>3 DEF n
  <2>1. 0 \in S
    <3>1. i + 1 + 0 = i + 1 /\ 0 \in 0 .. j - (i + 1)
      BY <2>0
    <3> QED
      BY <1>4, <3>1
  <2>2. ASSUME NEW k \in 0 .. j - (i + 1), k \in S, k < j - (i + 1) PROVE k + 1 \in S
    <3>1. /\ i + 1 + k \in 1 .. n /\ i + 1 + k \in i + 1 .. j - 1 /\ i + 1 + (k + 1) = (i + 1 + k) + 1
          /\ k + 1 \in 0 .. j - (i + 1)
      BY <1>2, <1>3, <2>0, <2>2
    <3> DEFINE x == i + 1 + k
    <3>2. ls[x].kind = "none" /\ x \in 1 .. n /\ pos[x] = q + 1
      BY <1>3, <2>2, <3>1
    <3> HIDE DEF x
    <3>3. pos[x + 1] = q + 1
      BY <1>1, <3>2
    <3> QED
      BY <3>1, <3>3 DEF x
  <2>3. 0 .. j - (i + 1) \subseteq S
    <3> DEFINE N == j - (i + 1)
    <3> HIDE DEF S
    <3>1. N \in Nat /\ 0 \in S /\ \A k \in 0 .. N : k \in S /\ k < N => k + 1 \in S
      BY <2>0, <2>1, <2>2
    <3> HIDE DEF N
    <3>2. 0 .. N \subseteq S
      BY <3>1, UpTo
    <3> QED
      BY <3>2 DEF N
  <2>4. j - (i + 1) \in S /\ i + 1 + (j - (i + 1)) = j
    <3>1. j - (i + 1) \in 0 .. j - (i + 1) /\ i + 1 + (j - (i + 1)) = j
      BY <1>2, <1>3, <2>0
    <3> HIDE DEF S
    <3> QED
      BY <2>3, <3>1
  <2>5. pos[i + 1 + (j - (i + 1))] = q + 1
    BY <2>4
  <2> QED
    BY <2>4, <2>5
<1>6. Deep(c, q) = q + 1
  <2> DEFINE x == Deep(c, q)
  <2>1. q + 1 \in 1 .. Len(c) + 1
    BY <1>2, <1>4 DEF m
  <2>2. x \in q + 1 .. m + 1 /\ \A k \in q + 1 .. x - 1 : c[k].kind = "none"
    BY <1>2, <2>1, NextContentIs DEF Deep, m
  <2> HIDE DEF x
  <2>3. x > q + 1 => q + 1 \in q + 1 .. x - 1 /\ q + 1 \in 1 .. m
    BY <1>2, <1>4, <2>2
  <2>4. ~(x > q + 1)
    BY <1>1, <2>2, <2>3
  <2>5. x = q + 1
    BY <1>2, <1>4, <2>2, <2>4
  <2> QED
    BY <2>5 DEF x
<1>7. j > n <=> q + 1 > m
  <2>1. CASE j <= n
    <3>1. j \in 1 .. n /\ j + 1 \in 1 .. n + 1 /\ ~(j > n)
      BY <1>2, <1>3, <2>1 DEF n
    <3>2. pos[j + 1] = q + 1 + 1 /\ pos[j + 1] \in 1 .. m + 1
      BY <1>1, <1>3, <1>5, <2>1, <3>1
    <3> QED
      BY <1>2, <1>4, <3>1, <3>2
  <2>2. CASE ~(j <= n)
    <3>1. j = n + 1
      BY <1>2, <1>3, <2>2 DEF n
    <3> QED
      BY <1>1, <1>2, <1>4, <1>5, <3>1
  <2> QED
    BY <2>1, <2>2
<1>8. j <= n => c[q + 1] = ls[j]
  <2> SUFFICES ASSUME j <= n PROVE c[q + 1] = ls[j]
    OBVIOUS
  <2>1. j \in 1 .. n
    BY <1>2, <1>3 DEF n
  <2> QED
    BY <1>1, <1>3, <1>5, <2>1
<1> QED
  BY <1>4, <1>6, <1>7, <1>8 DEF j, n, m, q

-----------------------------------------------------------------------------
(* Comments and blank lines change nothing that is read.                   *)

Alike(F, G, pos, i, m) ==
  /\ F[<<i, m>>].map = G[<<pos[i], m>>].map /\ F[<<i, m>>].items = G[<<pos[i], m>>].items
  /\ pos[F[<<i, m>>].next] = G[<<pos[i], m>>].next
Both(ls, c) == Indents(ls) \cap Indents(c)
AlikeFrom(ls, c, pos, i) ==
  \A k \in i .. Len(ls) + 1 : \A m \in Both(ls, c) : Alike(ReadOf(ls), ReadOf(c), pos, k, m)

\* The parts of what is read.
LEMMA Parts ==
  /\ \A i : Nothing(i).next = i /\ Nothing(i).map = Empty /\ Nothing(i).items = <<>>
  /\ \A v, a : /\ Listed(v, a).next = a.next /\ Listed(v, a).map = a.map
               /\ Listed(v, a).items = <<v>> \o a.items
  /\ \A k, v, a : /\ Under(k, v, a).next = a.next /\ Under(k, v, a).map = Join(Entry(k, v), a.map)
                  /\ Under(k, v, a).items = <<>>
<1>1. \A i : Nothing(i).next = i /\ Nothing(i).map = Empty /\ Nothing(i).items = <<>>
  BY DEF Nothing
<1>2. \A v, a : /\ Listed(v, a).next = a.next /\ Listed(v, a).map = a.map
                /\ Listed(v, a).items = <<v>> \o a.items
  BY DEF Listed
<1>3. \A k, v, a : /\ Under(k, v, a).next = a.next /\ Under(k, v, a).map = Join(Entry(k, v), a.map)
                   /\ Under(k, v, a).items = <<>>
  BY DEF Under
<1> QED
  BY <1>1, <1>2, <1>3

\* A line is read alike with and without the comments.
LEMMA AlikeStep ==
  ASSUME NEW V, NEW ls, IsLines(V, ls), NEW c, NEW pos, Placed(V, ls, c, pos),
         NEW i \in 1 .. Len(ls), AlikeFrom(ls, c, pos, i + 1), NEW m \in Both(ls, c)
  PROVE  Alike(ReadOf(ls), ReadOf(c), pos, i, m)
<1> DEFINE n == Len(ls)
           F == ReadOf(ls)
           G == ReadOf(c)
           q == pos[i]
<1>1. /\ m \in Indents(ls) /\ m \in Indents(c) /\ IsLines(V, c) /\ n \in Nat /\ i \in Nat /\ Len(c) \in Nat
      /\ ls[i].kind \in LineKinds /\ i <= n
  <2>1. IsLines(V, c)
    BY DEF Placed
  <2> QED
    BY <2>1, LinesAre DEF Both
<1>2. /\ BlockFrom(ls, i, m, F, F[<<i, m>>])
      /\ \A k \in 1 .. n + 1 : \A x \in Indents(ls) : F[<<k, x>>].next \in k .. n + 1
  BY <1>1, ReadAt
<1>3. \A k \in i + 1 .. n + 1 : \A x \in Both(ls, c) :
        /\ F[<<k, x>>].map = G[<<pos[k], x>>].map /\ F[<<k, x>>].items = G[<<pos[k], x>>].items
        /\ pos[F[<<k, x>>].next] = G[<<pos[k], x>>].next
  BY DEF AlikeFrom, Alike
<1>4. i + 1 \in i + 1 .. n + 1 /\ i + 1 \in 1 .. n + 1
  BY <1>1
<1> DEFINE a == F[<<i + 1, m>>]
           b == G[<<pos[i + 1], m>>]
           r == F[<<i, m>>]
           s == G[<<q, m>>]
<1>5. a.map = b.map /\ a.items = b.items /\ pos[a.next] = b.next
  BY <1>3, <1>4
<1> SUFFICES r.map = s.map /\ r.items = s.items /\ pos[r.next] = s.next
  BY DEF Alike
<1>6. CASE ls[i].kind = "none"
  <2>1. pos[i + 1] = q
    BY <1>6 DEF Placed
  <2>2. On(ls, i, m)
    BY <1>1, <1>6 DEF On
  <2>3. r = a
    BY <1>2, <1>6, <2>2 DEF BlockFrom
  <2> HIDE DEF a, r
  <2> QED
    BY <1>5, <2>1, <2>3
<1>7. CASE ls[i].kind # "none"
  <2>1. /\ q \in 1 .. Len(c) /\ pos[i + 1] = q + 1 /\ c[q] = ls[i]
        /\ Deep(c, q) = q + 1
        /\ Deep(ls, i) > Len(ls) <=> Deep(c, q) > Len(c)
        /\ Deep(ls, i) <= Len(ls) => c[Deep(c, q)] = ls[Deep(ls, i)]
    BY <1>7, DeepPlaced
  <2>2. BlockFrom(c, q, m, G, s)
    BY <1>1, <2>1, ReadAt
  <2>3. b = G[<<q + 1, m>>]
    BY <2>1
  <2>4. On(ls, i, m) <=> On(c, q, m)
    BY <1>1, <1>7, <2>1 DEF On
  <2>5. Opened(ls, i, m) <=> Opened(c, q, m)
    BY <2>1, <2>4 DEF Opened
  <2>6. Deep(ls, i) \in i + 1 .. n + 1 /\ Deep(ls, i) \in Nat
    BY DeepIs
  <2>7. pos[n + 1] = Len(c) + 1
    BY DEF Placed
  <2>0. BlockFrom(ls, i, m, F, r)
    BY <1>2
  <2> HIDE DEF r, s, a, b, q, F, G, n
  <2>8. CASE ~On(ls, i, m)
    <3>1. r = Nothing(i) /\ s = Nothing(q)
      BY <2>0, <2>2, <2>4, <2>8 DEF BlockFrom
    <3> QED
      BY <3>1, Parts DEF q
  <2>9. CASE On(ls, i, m) /\ ls[i].kind = "text"
    <3>1. r = a /\ s = b
      BY <2>0, <2>1, <2>2, <2>3, <2>4, <2>9 DEF BlockFrom, a
    <3> QED
      BY <1>5, <3>1
  <2>10. CASE On(ls, i, m) /\ ls[i].kind = "item"
    <3>1. r = Listed(ls[i].value, a)
      BY <2>0, <2>10 DEF BlockFrom, a
    <3>2. s = Listed(ls[i].value, b)
      BY <2>1, <2>2, <2>3, <2>4, <2>10 DEF BlockFrom
    <3> DEFINE v == ls[i].value
    <3> HIDE DEF v
    <3>3. /\ r.next = a.next /\ r.map = a.map /\ r.items = <<v>> \o a.items
          /\ s.next = b.next /\ s.map = b.map /\ s.items = <<v>> \o b.items
      <4>1. r = Listed(v, a) /\ s = Listed(v, b)
        BY <3>1, <3>2 DEF v
      <4> QED
        BY <4>1, Parts
    <3> QED
      BY <1>5, <3>3
  <2>11. CASE On(ls, i, m) /\ ls[i].kind = "pair"
    <3>1. r = Under(ls[i].key, Str(ls[i].value), a)
      BY <2>0, <2>11 DEF BlockFrom, a
    <3>2. s = Under(ls[i].key, Str(ls[i].value), b)
      BY <2>1, <2>2, <2>3, <2>4, <2>11 DEF BlockFrom
    <3> QED
      BY <1>5, <3>1, <3>2, Parts
  <2>12. CASE On(ls, i, m) /\ ls[i].kind = "open"
    <3>0. Opened(ls, i, m) /\ Opened(c, q, m) /\ c[q].key = ls[i].key /\ c[q].indent = ls[i].indent
      BY <2>1, <2>5, <2>12 DEF Opened
    <3> DEFINE k == ls[i].key
               x == ls[Deep(ls, i)].indent
    <3>1. CASE Deep(ls, i) > Len(ls)
      <4>1. Deep(ls, i) = n + 1 /\ Deep(c, q) = Len(c) + 1
        <5>1. Deep(c, q) = q + 1 /\ q + 1 > Len(c) /\ q <= Len(c) /\ q \in Nat
          BY <1>1, <2>1, <3>1
        <5> QED
          BY <1>1, <2>6, <3>1, <5>1 DEF n
      <4>2. r = Under(k, Map(Empty), Nothing(n + 1))
        BY <2>0, <3>0, <3>1, <4>1 DEF BlockFrom
      <4>3. s = Under(k, Map(Empty), Nothing(Len(c) + 1))
        BY <2>1, <2>2, <3>0, <3>1, <4>1 DEF BlockFrom
      <4> QED
        BY <2>7, <4>2, <4>3, Parts
    <3>2. CASE Deep(ls, i) <= Len(ls)
      <4>0. Deep(c, q) <= Len(c) /\ c[Deep(c, q)] = ls[Deep(ls, i)] /\ q + 1 = Deep(c, q) /\ Deep(c, q) \in 1 .. Len(c)
        <5>1. ~(Deep(c, q) > Len(c)) /\ Deep(c, q) = q + 1 /\ q \in Nat
          BY <1>1, <2>1, <2>6, <3>2
        <5> QED
          BY <1>1, <2>1, <3>2, <5>1
      <4>1. CASE ls[Deep(ls, i)].kind = "item"
        <5>1. r = Under(k, List(a.items), a)
          BY <2>0, <3>0, <3>2, <4>1 DEF BlockFrom, a
        <5>2. s = Under(k, List(b.items), b)
          BY <2>2, <2>3, <3>0, <4>0, <4>1 DEF BlockFrom
        <5> QED
          BY <1>5, <5>1, <5>2, Parts
      <4>2. CASE ls[Deep(ls, i)].kind # "item" /\ ls[Deep(ls, i)].indent > ls[i].indent
        <5>1. r = Within(k, F[<<i + 1, x>>], m, F)
          BY <2>0, <3>0, <3>2, <4>2 DEF BlockFrom
        <5>2. s = Within(k, G[<<q + 1, x>>], m, G)
          BY <2>2, <3>0, <4>0, <4>2 DEF BlockFrom
        <5>3. x \in Indents(ls) /\ x \in Indents(c)
          <6>1. Deep(ls, i) \in 1 .. Len(ls)
            BY <1>1, <2>6, <3>2 DEF n
          <6> QED
            BY <1>1, <4>0, <6>1, LinesAre
        <5> DEFINE u == F[<<i + 1, x>>]
                   w == G[<<q + 1, x>>]
        <5> HIDE DEF k, x
        <5>4. u.map = w.map /\ pos[u.next] = w.next /\ u.next \in i + 1 .. n + 1
          BY <1>2, <1>3, <1>4, <2>1, <5>3 DEF Both
        <5> HIDE DEF u, w
        <5> DEFINE y == F[<<u.next, m>>]
                   z == G[<<w.next, m>>]
        <5>5. y.map = z.map /\ pos[y.next] = z.next
          <6>1. m \in Both(ls, c)
            OBVIOUS
          <6> QED
            BY <1>3, <5>4, <6>1
        <5>6. r = Under(k, Map(u.map), y) /\ s = Under(k, Map(w.map), z)
          BY <5>1, <5>2 DEF Within, u, w
        <5> HIDE DEF y, z
        <5> QED
          BY <5>4, <5>5, <5>6, Parts
      <4>3. CASE ls[Deep(ls, i)].kind # "item" /\ ~(ls[Deep(ls, i)].indent > ls[i].indent)
        <5>1. r = Under(k, Map(Empty), a)
          BY <2>0, <3>0, <3>2, <4>3 DEF BlockFrom, a
        <5>2. s = Under(k, Map(Empty), b)
          BY <2>2, <2>3, <3>0, <4>0, <4>3 DEF BlockFrom
        <5> QED
          BY <1>5, <5>1, <5>2, Parts
      <4> QED
        BY <4>1, <4>2, <4>3
    <3>3. Deep(ls, i) > Len(ls) \/ Deep(ls, i) <= Len(ls)
      BY <1>1, <2>6
    <3> QED
      BY <3>1, <3>2, <3>3
  <2> QED
    BY <1>1, <1>7, <2>8, <2>9, <2>10, <2>11, <2>12 DEF LineKinds
<1> QED
  BY <1>6, <1>7

\* Comments and blank lines do not matter.
LEMMA ContentDecides ==
  ASSUME NEW V, NEW ls, IsLines(V, ls)
  PROVE  Parse(ls) = Parse(Content(ls)) /\ IsLines(V, Content(ls))
         /\ \A k \in DOMAIN Content(ls) : Content(ls)[k].kind # "none"
<1> DEFINE n == Len(ls)
           c == Content(ls)
<1>1. PICK pos : Placed(V, ls, c, pos)
  BY PlacedAre
<1> HIDE DEF c
<1> DEFINE S == {k \in 0 .. n : AlikeFrom(ls, c, pos, n + 1 - k)}
<1>2. /\ n \in Nat /\ pos[1] = 1 /\ pos[n + 1] = Len(c) + 1 /\ IsLines(V, c)
      /\ \A k \in 1 .. Len(c) : c[k].kind # "none"
  BY <1>1, LinesAre DEF Placed
<1>3. 0 \in S
  <2>1. n + 1 - 0 = n + 1 /\ \A k \in n + 1 .. n + 1 : k = n + 1
    BY <1>2
  <2>2. ASSUME NEW m \in Both(ls, c) PROVE Alike(ReadOf(ls), ReadOf(c), pos, n + 1, m)
    <3>1. ReadOf(ls)[<<n + 1, m>>] = Nothing(n + 1) /\ ReadOf(c)[<<Len(c) + 1, m>>] = Nothing(Len(c) + 1)
      BY <1>2, ReadAt DEF Both
    <3> QED
      BY <1>2, <3>1, Parts DEF Alike
  <2> QED
    BY <1>2, <2>1, <2>2 DEF AlikeFrom
<1>4. ASSUME NEW k \in 0 .. n, k \in S, k < n PROVE k + 1 \in S
  <2> DEFINE i == n + 1 - (k + 1)
  <2>1. i \in 1 .. n /\ i + 1 = n + 1 - k /\ k + 1 \in 0 .. n /\ i \in Nat
    BY <1>2, <1>4
  <2>2. AlikeFrom(ls, c, pos, i + 1)
    BY <1>4, <2>1
  <2> HIDE DEF i
  <2>3. \A m \in Both(ls, c) : Alike(ReadOf(ls), ReadOf(c), pos, i, m)
    BY <1>1, <2>1, <2>2, AlikeStep
  <2>4. \A x \in i .. n + 1 : x = i \/ x \in i + 1 .. n + 1
    BY <1>2, <2>1
  <2>5. AlikeFrom(ls, c, pos, i)
    BY <2>2, <2>3, <2>4 DEF AlikeFrom
  <2> QED
    BY <2>1, <2>5 DEF i
<1>5. 0 .. n \subseteq S
  <2> HIDE DEF S
  <2> QED
    BY <1>2, <1>3, <1>4, UpTo
<1>6. AlikeFrom(ls, c, pos, 1)
  <2>1. n \in 0 .. n /\ n + 1 - n = 1
    BY <1>2
  <2>2. n \in S
    <3> HIDE DEF S
    <3> QED
      BY <1>5, <2>1
  <2> QED
    BY <2>1, <2>2
<1>7. ReadOf(ls)[<<1, 0>>].map = ReadOf(c)[<<1, 0>>].map
  <2>1. 0 \in Both(ls, c) /\ 1 \in 1 .. n + 1
    BY <1>2, LinesAre DEF Both
  <2> QED
    BY <1>2, <1>6, <2>1 DEF AlikeFrom, Alike
<1>8. Parse(ls) = Parse(c)
  BY <1>2, <1>7, ReadIs
<1>9. DOMAIN c = 1 .. Len(c)
  BY <1>2, LinesAre
<1> QED
  BY <1>2, <1>8, <1>9 DEF c

-----------------------------------------------------------------------------
(* Lines that have content and a colon or a dash, as settings are written. *)

Full(V, c) == IsLines(V, c) /\ \A k \in 1 .. Len(c) : c[k].kind \in {"pair", "open", "item"}
Deeper(c, k) == c[k + 1].kind # "item" /\ c[k + 1].indent > c[k].indent

FullBlock(c, G, k, m) ==
  /\ c[k].indent < m => G[<<k, m>>] = Nothing(k)
  /\ ~(c[k].indent < m) =>
       /\ c[k].kind = "pair" => G[<<k, m>>] = Under(c[k].key, Str(c[k].value), G[<<k + 1, m>>])
       /\ c[k].kind = "item" => G[<<k, m>>] = Listed(c[k].value, G[<<k + 1, m>>])
       /\ c[k].kind = "open" /\ k < Len(c) /\ c[k + 1].kind = "item" =>
            G[<<k, m>>] = Under(c[k].key, List(G[<<k + 1, m>>].items), G[<<k + 1, m>>])
       /\ c[k].kind = "open" /\ k < Len(c) /\ Deeper(c, k) =>
            G[<<k, m>>] = Within(c[k].key, G[<<k + 1, c[k + 1].indent>>], m, G)
       /\ c[k].kind = "open" /\ (k < Len(c) => c[k + 1].kind # "item" /\ ~(c[k + 1].indent > c[k].indent)) =>
            G[<<k, m>>] = Under(c[k].key, Map(Empty), G[<<k + 1, m>>])

\* The block read from a line of a text without comments.
LEMMA FullRead ==
  ASSUME NEW V, NEW c, Full(V, c), NEW k \in 1 .. Len(c), NEW m \in Indents(c), NEW G, G = ReadOf(c)
  PROVE  FullBlock(c, G, k, m)
<1> DEFINE n == Len(c)
           r == G[<<k, m>>]
<1>1. IsLines(V, c) /\ c \in Seq(V) /\ n \in Nat /\ k \in Nat /\ k <= n
      /\ \A x \in 1 .. n : c[x].kind \in {"pair", "open", "item"}
  <2>1. IsLines(V, c) /\ \A x \in 1 .. n : c[x].kind \in {"pair", "open", "item"}
    BY DEF Full
  <2>2. c \in Seq(V) /\ n \in Nat
    BY <2>1, LinesAre
  <2> QED
    BY <2>1, <2>2
<1>2. BlockFrom(c, k, m, G, r) /\ G[<<n + 1, m>>] = Nothing(n + 1)
  BY <1>1, ReadAt
<1>3. Deep(c, k) = k + 1
  <2> DEFINE x == Deep(c, k)
  <2>1. k + 1 \in 1 .. n + 1
    BY <1>1
  <2>2. x \in k + 1 .. n + 1 /\ \A y \in k + 1 .. x - 1 : c[y].kind = "none"
    BY <1>1, <2>1, NextContentIs DEF Deep
  <2> HIDE DEF x
  <2>3. x > k + 1 => k + 1 \in k + 1 .. x - 1 /\ k + 1 \in 1 .. n
    BY <1>1, <2>2
  <2>4. ~(x > k + 1)
    BY <1>1, <2>2, <2>3
  <2>5. x = k + 1
    BY <1>1, <2>2, <2>4
  <2> QED
    BY <2>5 DEF x
<1>4. /\ On(c, k, m) <=> ~(c[k].indent < m)
      /\ Opened(c, k, m) <=> ~(c[k].indent < m) /\ c[k].kind = "open"
      /\ (Deep(c, k) > Len(c) <=> ~(k < n)) /\ (Deep(c, k) <= Len(c) <=> k < n) /\ (~(k < n) => k + 1 = n + 1)
  <2>1. c[k].kind # "none"
    BY <1>1
  <2> QED
    BY <1>1, <1>3, <2>1 DEF On, Opened
<1> HIDE DEF r
<1>5. c[k].indent < m => r = Nothing(k)
  BY <1>2, <1>4 DEF BlockFrom
<1>6. ~(c[k].indent < m) /\ c[k].kind = "pair" => r = Under(c[k].key, Str(c[k].value), G[<<k + 1, m>>])
  BY <1>2, <1>4 DEF BlockFrom
<1>7. ~(c[k].indent < m) /\ c[k].kind = "item" => r = Listed(c[k].value, G[<<k + 1, m>>])
  BY <1>2, <1>4 DEF BlockFrom
<1>8. ~(c[k].indent < m) /\ c[k].kind = "open" /\ k < n /\ c[k + 1].kind = "item" =>
        r = Under(c[k].key, List(G[<<k + 1, m>>].items), G[<<k + 1, m>>])
  BY <1>2, <1>3, <1>4 DEF BlockFrom
<1>9. ~(c[k].indent < m) /\ c[k].kind = "open" /\ k < n /\ Deeper(c, k) =>
        r = Within(c[k].key, G[<<k + 1, c[k + 1].indent>>], m, G)
  BY <1>2, <1>3, <1>4 DEF BlockFrom, Deeper
<1>10. ASSUME ~(c[k].indent < m), c[k].kind = "open",
              k < n => c[k + 1].kind # "item" /\ ~(c[k + 1].indent > c[k].indent)
       PROVE  r = Under(c[k].key, Map(Empty), G[<<k + 1, m>>])
  <2>1. CASE k < n
    BY <1>2, <1>3, <1>4, <1>10, <2>1 DEF BlockFrom
  <2>2. CASE ~(k < n)
    <3>1. r = Under(c[k].key, Map(Empty), Nothing(Deep(c, k)))
      BY <1>2, <1>4, <1>10, <2>2 DEF BlockFrom
    <3>2. Nothing(Deep(c, k)) = G[<<k + 1, m>>]
      BY <1>2, <1>3, <1>4, <2>2
    <3> QED
      BY <3>1, <3>2
  <2> QED
    BY <2>1, <2>2
<1> QED
  BY <1>5, <1>6, <1>7, <1>8, <1>9, <1>10 DEF r, FullBlock

-----------------------------------------------------------------------------
(* Entries that are read one after another.                                *)

Distinct(t) == \A i, j \in DOMAIN t : t[i].key = t[j].key => i = j
MapFrom(t, vs, i) ==
  [k \in {t[x].key : x \in i .. Len(t)} |-> vs[CHOOSE x \in DOMAIN t : t[x].key = k]]
Chained(t, vs, a, G, m) ==
  \A i \in 1 .. Len(t) :
    G[<<a[i + 1], m>>].items = <<>> => G[<<a[i], m>>] = Under(t[i].key, vs[i], G[<<a[i + 1], m>>])

\* The entries from i on are the entry i and those from i + 1 on.
LEMMA TailStep ==
  ASSUME NEW t, Len(t) \in Nat, DOMAIN t = 1 .. Len(t), Distinct(t), NEW vs, NEW i \in 1 .. Len(t)
  PROVE  Join(Entry(t[i].key, vs[i]), MapFrom(t, vs, i + 1)) = MapFrom(t, vs, i)
<1> DEFINE n == Len(t)
           A == {t[x].key : x \in i + 1 .. n}
           B == {t[x].key : x \in i .. n}
           e == Entry(t[i].key, vs[i])
           r == MapFrom(t, vs, i + 1)
           Val(k) == vs[CHOOSE x \in DOMAIN t : t[x].key = k]
<1>1. \A x \in 1 .. n : \A y \in 1 .. n : t[x].key = t[y].key => x = y
  BY DEF Distinct
<1>2. DOMAIN e = {t[i].key} /\ e[t[i].key] = vs[i]
  BY DEF Entry
<1>3. DOMAIN r = A /\ \A k \in A : r[k] = Val(k)
  BY DEF MapFrom
<1>4. B = {t[i].key} \cup A
  <2>1. \A x \in i .. n : x = i \/ x \in i + 1 .. n
    OBVIOUS
  <2>2. i \in i .. n /\ \A x \in i + 1 .. n : x \in i .. n
    OBVIOUS
  <2> QED
    BY <2>1, <2>2
<1>5. t[i].key \notin A
  <2> SUFFICES ASSUME NEW x \in i + 1 .. n, t[x].key = t[i].key PROVE FALSE
    OBVIOUS
  <2>1. x \in 1 .. n /\ x # i
    OBVIOUS
  <2> QED
    BY <1>1, <2>1
<1>6. Val(t[i].key) = vs[i]
  <2> DEFINE y == CHOOSE x \in DOMAIN t : t[x].key = t[i].key
  <2>1. y \in DOMAIN t /\ t[y].key = t[i].key
    OBVIOUS
  <2>2. y = i
    BY <1>1, <2>1
  <2> QED
    BY <2>2
<1> HIDE DEF A, e, r, Val
<1>7. Join(e, r) = [k \in B |-> Val(k)]
  <2>1. DOMAIN e \cup DOMAIN r = B
    BY <1>2, <1>3, <1>4
  <2>2. \A k \in B : (IF k \in DOMAIN r THEN r[k] ELSE e[k]) = Val(k)
    BY <1>2, <1>3, <1>4, <1>5, <1>6
  <2> HIDE DEF B
  <2> QED
    BY <2>1, <2>2 DEF Join
<1> QED
  BY <1>7 DEF e, r, Val, MapFrom

Chain(t, vs, a, G, m) ==
  /\ Len(t) \in Nat /\ DOMAIN t = 1 .. Len(t) /\ Distinct(t) /\ Chained(t, vs, a, G, m)
  /\ G[<<a[Len(t) + 1], m>>].map = Empty /\ G[<<a[Len(t) + 1], m>>].items = <<>>
ChainIs(t, vs, a, G, m) ==
  /\ G[<<a[1], m>>].next = G[<<a[Len(t) + 1], m>>].next
  /\ G[<<a[1], m>>].map = MapFrom(t, vs, 1)

\* Entries that are read one after another are read as a mapping.
LEMMA ChainRead ==
  ASSUME NEW t, NEW vs, NEW a, NEW G, NEW m, Chain(t, vs, a, G, m)
  PROVE  ChainIs(t, vs, a, G, m)
<1> DEFINE n == Len(t)
           R(i) == G[<<a[i], m>>]
           z == G[<<a[n + 1], m>>].next
           S == {k \in 0 .. n : /\ R(n + 1 - k).items = <<>> /\ R(n + 1 - k).next = z
                                /\ R(n + 1 - k).map = MapFrom(t, vs, n + 1 - k)}
<1>0. /\ n \in Nat /\ DOMAIN t = 1 .. n /\ Distinct(t) /\ Chained(t, vs, a, G, m)
      /\ R(n + 1).map = Empty /\ R(n + 1).items = <<>>
  BY DEF Chain
<1>1. 0 \in S
  <2>1. n + 1 - 0 = n + 1 /\ {t[x].key : x \in n + 1 .. n} = {}
    BY <1>0
  <2>2. MapFrom(t, vs, n + 1) = Empty
    BY <2>1 DEF MapFrom, Empty
  <2> QED
    BY <1>0, <2>1, <2>2
<1>2. ASSUME NEW k \in 0 .. n, k \in S, k < n PROVE k + 1 \in S
  <2> DEFINE i == n + 1 - (k + 1)
  <2>1. i \in 1 .. n /\ i + 1 = n + 1 - k /\ k + 1 \in 0 .. n
    <3>1. n \in Nat /\ k \in 0 .. n /\ k < n
      BY <1>0, <1>2
    <3> HIDE DEF n, S
    <3> QED
      BY <3>1
  <2>2. R(i + 1).items = <<>> /\ R(i + 1).next = z /\ R(i + 1).map = MapFrom(t, vs, i + 1)
    BY <1>2, <2>1
  <2> HIDE DEF i, z
  <2>3. R(i) = Under(t[i].key, vs[i], R(i + 1))
    BY <1>0, <2>1, <2>2 DEF Chained
  <2>4. Join(Entry(t[i].key, vs[i]), MapFrom(t, vs, i + 1)) = MapFrom(t, vs, i)
    BY <1>0, <2>1, TailStep
  <2>5. R(i).items = <<>> /\ R(i).next = z /\ R(i).map = MapFrom(t, vs, i)
    <3> DEFINE x == R(i)
               y == R(i + 1)
    <3>1. x = Under(t[i].key, vs[i], y) /\ y.next = z /\ y.map = MapFrom(t, vs, i + 1)
      BY <2>2, <2>3
    <3> HIDE DEF x, y
    <3>2. x.items = <<>> /\ x.next = y.next /\ x.map = Join(Entry(t[i].key, vs[i]), y.map)
      BY <3>1, Parts
    <3>3. x.items = <<>> /\ x.next = z /\ x.map = MapFrom(t, vs, i)
      BY <2>4, <3>1, <3>2
    <3> QED
      BY <3>3 DEF x
  <2> QED
    BY <2>1, <2>5 DEF i
<1>3. 0 .. n \subseteq S
  <2> HIDE DEF S
  <2> QED
    BY <1>0, <1>1, <1>2, UpTo
<1>4. n \in S /\ n + 1 - n = 1
  <2>1. n \in 0 .. n /\ n + 1 - n = 1
    BY <1>0
  <2> HIDE DEF S
  <2> QED
    BY <1>3, <2>1
<1> QED
  BY <1>4 DEF ChainIs

-----------------------------------------------------------------------------
(* Where the lines of the parts of a text are.                             *)

\* Lines x stand in c from p + 1 on.
Sits(c, p, x)  == p + Len(x) <= Len(c) /\ \A k \in 1 .. Len(x) : c[p + k] = x[k]
Starts(ss, p)  == [i \in 1 .. Len(ss) + 1 |-> p + Len(Joined(ss)[i - 1]) + 1]
IsLayout(c, p, ss, a) ==
  /\ a[1] = p + 1 /\ a[Len(ss) + 1] = p + Len(FlattenSeq(ss)) + 1
  /\ \A i \in 1 .. Len(ss) + 1 : a[i] \in 1 .. Len(c) + 1
  /\ \A i \in 1 .. Len(ss) : a[i + 1] = a[i] + Len(ss[i]) /\ Sits(c, a[i] - 1, ss[i])

Cats(V, a, b, c) == a \in Seq(V) /\ b \in Seq(V) /\ c = a \o b

\* The elements of two parts.
LEMMA CatParts ==
  ASSUME NEW V, NEW a, NEW b, NEW c, Cats(V, a, b, c)
  PROVE  c \in Seq(V) /\ Len(c) = Len(a) + Len(b) /\ IsCat(a, b, c)
<1>1. a \in Seq(V) /\ b \in Seq(V) /\ c = a \o b
  BY DEF Cats
<1>2. Len(a) \in Nat /\ Len(b) \in Nat /\ a \o b \in Seq(V) /\ Len(a \o b) = Len(a) + Len(b)
  BY <1>1
<1>3. ASSUME NEW i \in 1 .. Len(a) PROVE (a \o b)[i] = a[i]
  BY <1>1
<1>4. ASSUME NEW i \in 1 .. Len(b) PROVE (a \o b)[Len(a) + i] = b[i]
  <2>1. Len(a) + i \in 1 .. Len(a) + Len(b) /\ ~(Len(a) + i <= Len(a)) /\ (Len(a) + i) - Len(a) = i
    BY <1>2
  <2> QED
    BY <1>1, <2>1
<1> QED
  BY <1>1, <1>2, <1>3, <1>4 DEF IsCat

IsJoined(V, ss, g) == ss \in Seq(Seq(V)) /\ g = Joined(ss)

\* The first parts are the beginning of all parts.
LEMMA PartsJoined ==
  ASSUME NEW V, NEW ss \in Seq(Seq(V)), NEW g, IsJoined(V, ss, g)
  PROVE  \A i \in 0 .. Len(ss) : /\ g[i] \in Seq(V) /\ Len(g[i]) \in Nat /\ Len(g[i]) <= Len(g[Len(ss)])
                                 /\ \A k \in 1 .. Len(g[i]) : g[Len(ss)][k] = g[i][k]
<1> DEFINE n == Len(ss)
<1>1. /\ n \in Nat /\ \A i \in 0 .. n : g[i] \in Seq(V) /\ Len(g[i]) \in Nat
      /\ \A i \in 1 .. n : g[i] = g[i - 1] \o ss[i] /\ ss[i] \in Seq(V)
  <2>1. n \in Nat /\ \A i \in 1 .. n : ss[i] \in Seq(V)
    OBVIOUS
  <2>2. (\A i \in 0 .. n : g[i] \in Seq(V)) /\ \A i \in 1 .. n : g[i] = g[i - 1] \o ss[i]
    BY JoinedStep DEF IsJoined
  <2>3. \A i \in 0 .. n : Len(g[i]) \in Nat
    BY <2>2
  <2> QED
    BY <2>1, <2>2, <2>3
<1> HIDE DEF n
<1> DEFINE S == {i \in 0 .. n : \A j \in 0 .. i :
                   Len(g[j]) <= Len(g[i]) /\ \A k \in 1 .. Len(g[j]) : g[i][k] = g[j][k]}
<1>2. 0 \in S
  <2>1. 0 \in 0 .. n /\ \A j \in 0 .. 0 : j = 0
    BY <1>1
  <2> QED
    BY <1>1, <2>1
<1>3. ASSUME NEW i \in 0 .. n, i \in S, i < n PROVE i + 1 \in S
  <2>1. i + 1 \in 1 .. n /\ (i + 1) - 1 = i /\ i + 1 \in 0 .. n /\ i \in Nat
    BY <1>1, <1>3
  <2> DEFINE a == g[i]
             b == g[i + 1]
             l == ss[i + 1]
  <2>2. a \in Seq(V) /\ l \in Seq(V) /\ b = a \o l
    BY <1>1, <2>1
  <2> HIDE DEF a, b, l
  <2>3. IsCat(a, l, b) /\ Len(b) = Len(a) + Len(l) /\ Len(a) \in Nat /\ Len(l) \in Nat /\ Len(b) \in Nat
    <3>0. Cats(V, a, l, b)
      BY <2>2 DEF Cats
    <3>1. b \in Seq(V) /\ Len(b) = Len(a) + Len(l) /\ IsCat(a, l, b)
      BY <3>0, CatParts
    <3> QED
      BY <2>2, <3>1
  <2>4. Len(a) <= Len(b) /\ \A k \in 1 .. Len(a) : b[k] = a[k]
    BY <2>3 DEF IsCat
  <2>5. ASSUME NEW j \in 0 .. i PROVE Len(g[j]) <= Len(b) /\ \A k \in 1 .. Len(g[j]) : b[k] = g[j][k]
    <3>1. Len(g[j]) <= Len(a) /\ \A k \in 1 .. Len(g[j]) : a[k] = g[j][k]
      BY <1>3 DEF a
    <3>2. Len(g[j]) \in Nat
      <4>1. j \in 0 .. n
        BY <1>1, <1>3
      <4> QED
        BY <1>1, <4>1
    <3>3. \A k \in 1 .. Len(g[j]) : k \in 1 .. Len(a)
      BY <2>3, <3>1, <3>2
    <3> QED
      BY <2>3, <2>4, <3>1, <3>2, <3>3
  <2>6. \A j \in 0 .. i + 1 : j \in 0 .. i \/ j = i + 1
    BY <2>1
  <2>7. ASSUME NEW j \in 0 .. i + 1
        PROVE  Len(g[j]) <= Len(g[i + 1]) /\ \A k \in 1 .. Len(g[j]) : g[i + 1][k] = g[j][k]
    <3>1. CASE j \in 0 .. i
      BY <2>5, <3>1 DEF b
    <3>2. CASE j = i + 1
      BY <2>3, <3>2 DEF b
    <3> QED
      BY <2>6, <3>1, <3>2
  <2> QED
    BY <2>1, <2>7
<1>4. 0 .. n \subseteq S
  <2> HIDE DEF S
  <2> QED
    BY <1>1, <1>2, <1>3, UpTo
<1>5. n \in S
  <2>1. n \in 0 .. n
    BY <1>1
  <2> HIDE DEF S
  <2> QED
    BY <1>4, <2>1
<1> QED
  BY <1>1, <1>5 DEF n

\* Each part has its place in the text.
LEMMA Layout ==
  ASSUME NEW V, NEW ss \in Seq(Seq(V)), NEW c \in Seq(V), NEW p \in Nat, Sits(c, p, FlattenSeq(ss)),
         NEW a, a = Starts(ss, p)
  PROVE  IsLayout(c, p, ss, a)
<1> DEFINE n == Len(ss)
           g == Joined(ss)
           x == FlattenSeq(ss)
<1>1. n \in Nat /\ Len(c) \in Nat
  OBVIOUS
<1>2. /\ g[0] = <<>>
      /\ \A i \in 1 .. n : g[i] = g[i - 1] \o ss[i] /\ ss[i] \in Seq(V)
  <2>1. \A i \in 1 .. n : ss[i] \in Seq(V)
    OBVIOUS
  <2> QED
    BY <2>1, JoinedStep
<1>3. x = g[n]
  BY FlattenIs
<1>4. \A i \in 0 .. n : /\ g[i] \in Seq(V) /\ Len(g[i]) \in Nat /\ Len(g[i]) <= Len(x)
                        /\ \A k \in 1 .. Len(g[i]) : x[k] = g[i][k]
  <2>1. \A i \in 0 .. Len(ss) : /\ g[i] \in Seq(V) /\ Len(g[i]) \in Nat /\ Len(g[i]) <= Len(g[Len(ss)])
                                /\ \A k \in 1 .. Len(g[i]) : g[Len(ss)][k] = g[i][k]
    <3>1. IsJoined(V, ss, g)
      BY DEF IsJoined
    <3> HIDE DEF g
    <3> QED
      BY <3>1, PartsJoined
  <2> HIDE DEF g, x
  <2> QED
    BY <1>3, <2>1
<1>5. \A i \in 1 .. n + 1 : a[i] = p + Len(g[i - 1]) + 1 /\ i - 1 \in 0 .. n
  BY <1>1 DEF Starts
<1>6. p + Len(x) <= Len(c) /\ \A k \in 1 .. Len(x) : c[p + k] = x[k]
  BY DEF Sits
<1>7. Len(x) \in Nat
  <2>1. n \in 0 .. n
    BY <1>1
  <2> QED
    BY <1>3, <1>4, <2>1
<1> HIDE DEF g, x, n
<1>8. a[1] = p + 1 /\ a[n + 1] = p + Len(x) + 1
  <2>1. 1 \in 1 .. n + 1 /\ n + 1 \in 1 .. n + 1 /\ 1 - 1 = 0 /\ (n + 1) - 1 = n
    BY <1>1
  <2>2. a[1] = p + Len(g[0]) + 1 /\ a[n + 1] = p + Len(g[n]) + 1
    <3>1. a[1] = p + Len(g[1 - 1]) + 1 /\ a[n + 1] = p + Len(g[(n + 1) - 1]) + 1
      BY <1>5, <2>1
    <3> QED
      BY <2>1, <3>1
  <2>3. Len(g[0]) = 0
    BY <1>2
  <2> QED
    BY <1>3, <2>2, <2>3
<1>9. ASSUME NEW i \in 1 .. n + 1 PROVE a[i] \in 1 .. Len(c) + 1
  <2> DEFINE y == Len(g[i - 1])
  <2>1. a[i] = p + y + 1 /\ y \in Nat /\ y <= Len(x)
    BY <1>4, <1>5
  <2> HIDE DEF y
  <2> QED
    BY <1>1, <1>6, <1>7, <2>1
<1>10. ASSUME NEW i \in 1 .. n PROVE a[i + 1] = a[i] + Len(ss[i]) /\ Sits(c, a[i] - 1, ss[i])
  <2>1. i \in 1 .. n + 1 /\ i + 1 \in 1 .. n + 1 /\ (i + 1) - 1 = i /\ i - 1 \in 0 .. n /\ i \in 0 .. n
    BY <1>1
  <2> DEFINE u == g[i - 1]
             w == g[i]
             l == ss[i]
  <2>2. u \in Seq(V) /\ l \in Seq(V) /\ w = u \o l /\ Len(w) <= Len(x) /\ \A k \in 1 .. Len(w) : x[k] = w[k]
    BY <1>2, <1>4, <2>1
  <2>3. a[i] = p + Len(u) + 1 /\ a[i + 1] = p + Len(w) + 1
    <3>1. a[i + 1] = p + Len(g[(i + 1) - 1]) + 1
      BY <1>5, <2>1
    <3> QED
      BY <1>5, <2>1, <3>1
  <2> HIDE DEF u, w, l
  <2>4. IsCat(u, l, w) /\ Len(w) = Len(u) + Len(l) /\ Len(u) \in Nat /\ Len(l) \in Nat
    <3>0. Cats(V, u, l, w)
      BY <2>2 DEF Cats
    <3>1. Len(w) = Len(u) + Len(l) /\ IsCat(u, l, w)
      BY <3>0, CatParts
    <3> QED
      BY <2>2, <3>1
  <2>5. \A k \in 1 .. Len(l) : w[Len(u) + k] = l[k]
    BY <2>4 DEF IsCat
  <2>6. a[i + 1] = a[i] + Len(l) /\ a[i] - 1 = p + Len(u)
    BY <2>3, <2>4
  <2>7. ASSUME NEW k \in 1 .. Len(l) PROVE c[a[i] - 1 + k] = l[k]
    <3>1. Len(u) + k \in 1 .. Len(w) /\ Len(u) + k \in 1 .. Len(x) /\ a[i] - 1 + k = p + (Len(u) + k)
      BY <1>7, <2>2, <2>4, <2>6
    <3>2. x[Len(u) + k] = l[k]
      BY <2>2, <2>5, <3>1
    <3> QED
      BY <1>6, <3>1, <3>2
  <2>8. a[i] - 1 + Len(l) <= Len(c)
    BY <1>1, <1>6, <1>7, <2>2, <2>4, <2>6
  <2> QED
    BY <2>6, <2>7, <2>8 DEF Sits, l
<1> QED
  BY <1>8, <1>9, <1>10 DEF IsLayout, n, x

-----------------------------------------------------------------------------
(* The items of a list.                                                    *)

\* Lines of a list.
Itemed(c, p, l, m) ==
  /\ p \in Nat /\ p + Len(l) <= Len(c)
  /\ \A k \in 1 .. Len(l) : c[p + k].kind = "item" /\ c[p + k].value = l[k] /\ ~(c[p + k].indent < m)

ItemsFrom(r, z, l) == r.items = l /\ r.map = z.map /\ r.next = z.next

\* The items of a list are read in their order.
LEMMA ItemsRead ==
  ASSUME NEW V, NEW c, Full(V, c), NEW m \in Indents(c), NEW G, G = ReadOf(c),
         NEW W, NEW l \in Seq(W), NEW p, Itemed(c, p, l, m),
         G[<<p + Len(l) + 1, m>>].items = <<>>
  PROVE  ItemsFrom(G[<<p + 1, m>>], G[<<p + Len(l) + 1, m>>], l)
<1> DEFINE n == Len(l)
           R(i) == G[<<p + i, m>>]
           z == R(n + 1)
           S == {j \in 0 .. n : /\ R(n + 1 - j).next = z.next /\ R(n + 1 - j).map = z.map
                                /\ R(n + 1 - j).items \in Seq(W) /\ Len(R(n + 1 - j).items) = j
                                /\ \A x \in 1 .. j : R(n + 1 - j).items[x] = l[n - j + x]}
<1>1. n \in Nat /\ p \in Nat /\ Len(c) \in Nat /\ p + n <= Len(c) /\ \A i \in 1 .. n : l[i] \in W
  BY LinesAre DEF Itemed, Full
<1>2. z.items = <<>>
  <2>1. p + n + 1 = p + (n + 1)
    BY <1>1
  <2> QED
    BY <2>1
<1>3. ASSUME NEW i \in 1 .. n PROVE R(i) = Listed(l[i], R(i + 1))
  <2>1. p + i \in 1 .. Len(c) /\ (p + i) + 1 = p + (i + 1)
    BY <1>1
  <2>2. c[p + i].kind = "item" /\ c[p + i].value = l[i] /\ ~(c[p + i].indent < m)
    BY DEF Itemed
  <2> DEFINE q == p + i
  <2>3. q \in 1 .. Len(c) /\ c[q].kind = "item" /\ c[q].value = l[i] /\ ~(c[q].indent < m)
    BY <2>1, <2>2
  <2>4. q + 1 = p + (i + 1)
    BY <2>1
  <2> HIDE DEF q
  <2>5. G[<<q, m>>] = Listed(c[q].value, G[<<q + 1, m>>])
    <3>1. FullBlock(c, G, q, m)
      BY <2>3, FullRead
    <3> QED
      BY <2>3, <3>1 DEF FullBlock
  <2> QED
    BY <2>3, <2>4, <2>5 DEF q
<1> HIDE DEF R, n, z
<1>4. 0 \in S
  <2>1. 0 \in 0 .. n /\ n + 1 - 0 = n + 1 /\ \A x \in 1 .. 0 : FALSE
    BY <1>1
  <2>2. R(n + 1 - 0) = z
    BY <2>1 DEF z
  <2>3. <<>> \in Seq(W) /\ Len(<<>>) = 0
    OBVIOUS
  <2> QED
    BY <1>2, <2>1, <2>2, <2>3
<1>5. ASSUME NEW j \in 0 .. n, j \in S, j < n PROVE j + 1 \in S
  <2> DEFINE i == n - j
             a == <<l[i]>>
             y == R(i + 1).items
             b == R(i).items
  <2>1. /\ i \in 1 .. n /\ i + 1 = n + 1 - j /\ n + 1 - (j + 1) = i /\ j + 1 \in 0 .. n /\ j \in Nat
        /\ n - (j + 1) = i - 1
    <3> HIDE DEF S
    <3> QED
      BY <1>1, <1>5
  <2>2. /\ R(i + 1).next = z.next /\ R(i + 1).map = z.map
        /\ y \in Seq(W) /\ Len(y) = j /\ \A x \in 1 .. j : y[x] = l[i + x]
    BY <1>5, <2>1
  <2>3. R(i) = Listed(l[i], R(i + 1)) /\ l[i] \in W
    BY <1>1, <1>3, <2>1
  <2>4. R(i).next = z.next /\ R(i).map = z.map /\ b = a \o y
    <3>1. /\ Listed(l[i], R(i + 1)).next = R(i + 1).next /\ Listed(l[i], R(i + 1)).map = R(i + 1).map
          /\ Listed(l[i], R(i + 1)).items = <<l[i]>> \o R(i + 1).items
      BY Parts
    <3> QED
      BY <2>2, <2>3, <3>1
  <2>5. a \in Seq(W) /\ Len(a) = 1 /\ a[1] = l[i]
    BY <2>3
  <2>6. Cats(W, a, y, b)
    BY <2>2, <2>4, <2>5 DEF Cats
  <2> HIDE DEF a, y, b
  <2>7. b \in Seq(W) /\ Len(b) = Len(a) + Len(y) /\ IsCat(a, y, b)
    BY <2>6, CatParts
  <2>8. Len(b) = j + 1
    BY <2>1, <2>2, <2>5, <2>7
  <2>9. b[1] = l[i] /\ \A x \in 1 .. j : b[1 + x] = y[x]
    <3>1. (\A x \in 1 .. Len(a) : b[x] = a[x]) /\ \A x \in 1 .. Len(y) : b[Len(a) + x] = y[x]
      BY <2>7 DEF IsCat
    <3> HIDE DEF i
    <3> QED
      BY <2>2, <2>5, <3>1
  <2>10. ASSUME NEW x \in 1 .. j + 1 PROVE b[x] = l[(i - 1) + x]
    <3>1. CASE x = 1
      <4>1. (i - 1) + x = i
        BY <1>1, <2>1, <3>1
      <4> QED
        BY <2>9, <3>1, <4>1
    <3>2. CASE x # 1
      <4>1. x - 1 \in 1 .. j /\ 1 + (x - 1) = x /\ i + (x - 1) = (i - 1) + x
        BY <2>1, <3>2
      <4>2. b[1 + (x - 1)] = y[x - 1] /\ y[x - 1] = l[i + (x - 1)]
        BY <2>2, <2>9, <4>1
      <4> QED
        BY <4>1, <4>2
    <3> QED
      BY <3>1, <3>2
  <2>11. /\ R(n + 1 - (j + 1)).next = z.next /\ R(n + 1 - (j + 1)).map = z.map
         /\ R(n + 1 - (j + 1)).items \in Seq(W) /\ Len(R(n + 1 - (j + 1)).items) = j + 1
         /\ \A x \in 1 .. j + 1 : R(n + 1 - (j + 1)).items[x] = l[n - (j + 1) + x]
    <3> HIDE DEF i
    <3> QED
      BY <2>1, <2>4, <2>7, <2>8, <2>10 DEF b
  <2> HIDE DEF i
  <2> QED
    BY <2>1, <2>11
<1>6. n \in S
  <2>1. n \in 0 .. n
    BY <1>1
  <2> HIDE DEF S
  <2>2. 0 .. n \subseteq S
    BY <1>1, <1>4, <1>5, UpTo
  <2> QED
    BY <2>1, <2>2
<1>7. /\ R(1).next = z.next /\ R(1).map = z.map
      /\ R(1).items \in Seq(W) /\ Len(R(1).items) = n /\ \A x \in 1 .. n : R(1).items[x] = l[x]
  <2>1. n + 1 - n = 1 /\ \A x \in 1 .. n : n - n + x = x
    BY <1>1
  <2> QED
    BY <1>6, <2>1
<1>8. R(1).items = l
  <2> DEFINE b == R(1).items
  <2>1. b \in Seq(W) /\ Len(b) = n /\ \A x \in 1 .. n : b[x] = l[x]
    BY <1>7
  <2> HIDE DEF b
  <2>2. b = l
    BY <2>1, SeqEqual DEF n
  <2> QED
    BY <2>2 DEF b
<1>9. p + n + 1 = p + (n + 1)
  BY <1>1
<1> QED
  BY <1>7, <1>8, <1>9 DEF R, z, n, ItemsFrom

\* A leaf is a word, a list of words, or the empty mapping.
LEMMA LeafShape ==
  ASSUME NEW v \in Leaves
  PROVE  /\ IsText(v) => v.str \in Word /\ v = Str(v.str) /\ ~IsMap(v)
         /\ IsMap(v) => v.map = <<>>
         /\ ~IsText(v) /\ ~IsMap(v) => v.list \in Seq(Word) /\ v.list # <<>> /\ v = List(v.list)
<1>1. CASE v \in [str : Word]
  BY <1>1 DEF IsText, IsMap, Str
<1>2. CASE v \in [list : Seq(Word) \ {<<>>}]
  BY <1>2 DEF IsText, IsMap, List
<1>3. CASE v \in [map : {<<>>}]
  BY <1>3 DEF IsText, IsMap
<1> QED
  BY <1>1, <1>2, <1>3 DEF Leaves

-----------------------------------------------------------------------------
(* A key with a string, a list or an empty mapping.                        *)

LeafValue(v) == IF IsMap(v) THEN Map(Empty) ELSE v

\* The lines of a key with a string, a list or an empty mapping.
LeafAre(e, m, d, x) ==
  /\ x \in Seq(ConfigLine) /\ Len(x) \in Nat /\ Len(x) >= 1
  /\ x[1].indent = m /\ x[1].key = e.key /\ x[1].kind \in {"pair", "open"}
  /\ IsText(e.value) => Len(x) = 1 /\ x[1].kind = "pair" /\ x[1].value = e.value.str
  /\ IsMap(e.value) => Len(x) = 1 /\ x[1].kind = "open"
  /\ ~IsText(e.value) /\ ~IsMap(e.value) =>
       /\ x[1].kind = "open" /\ Len(x) = Len(e.value.list) + 1 /\ Len(e.value.list) \in Nat
       /\ \A k \in 1 .. Len(e.value.list) :
            x[k + 1].kind = "item" /\ x[k + 1].indent = m + d /\ x[k + 1].value = e.value.list[k]
  /\ \A k \in 1 .. Len(x) : x[k].kind \in {"pair", "open", "item"}

\* The lines of a leaf: one for its key, one for each item of its list.
LEMMA LeafLinesAre ==
  ASSUME NEW e, e.key \in SettingKey, e.value \in Leaves, NEW m \in Nat, NEW d \in Nat
  PROVE  LeafAre(e, m, d, LeafLines(e, m, d))
<1> DEFINE x == LeafLines(e, m, d)
           v == e.value
<1>1. /\ IsText(v) => v.str \in Word /\ v = Str(v.str) /\ ~IsMap(v)
      /\ IsMap(v) => v.map = <<>>
      /\ ~IsText(v) /\ ~IsMap(v) => v.list \in Seq(Word) /\ v.list # <<>> /\ v = List(v.list)
  BY LeafShape
<1> HIDE DEF v
<1>2. CASE IsText(v)
  <2> DEFINE p == Pair(m, e.key, v.str)
  <2>1. x = <<p>> /\ p \in ConfigLine /\ p.kind = "pair" /\ p.indent = m /\ p.key = e.key /\ p.value = v.str
    BY <1>1, <1>2 DEF LeafLines, Pair, Line, ConfigLine, v
  <2> HIDE DEF p, x
  <2>2. x \in Seq(ConfigLine) /\ Len(x) = 1 /\ x[1] = p
    BY <2>1
  <2>3. \A k \in 1 .. Len(x) : k = 1
    BY <2>2
  <2> QED
    BY <1>1, <1>2, <2>1, <2>2, <2>3 DEF LeafAre, x, v
<1>3. CASE IsMap(v)
  <2> DEFINE p == Open(m, e.key)
  <2>0. ~IsText(v)
    BY <1>1, <1>3
  <2>1. x = <<p>> /\ p \in ConfigLine /\ p.kind = "open" /\ p.indent = m /\ p.key = e.key
    BY <1>3, <2>0 DEF LeafLines, Open, Line, ConfigLine, v
  <2> HIDE DEF p, x
  <2>2. x \in Seq(ConfigLine) /\ Len(x) = 1 /\ x[1] = p
    BY <2>1
  <2>3. \A k \in 1 .. Len(x) : k = 1
    BY <2>2
  <2> QED
    BY <1>3, <2>0, <2>1, <2>2, <2>3 DEF LeafAre, x, v
<1>4. CASE ~IsText(v) /\ ~IsMap(v)
  <2> DEFINE p == Open(m, e.key)
             l == v.list
             s == [j \in DOMAIN l |-> Item(m + d, l[j])]
             a == <<p>>
  <2>1. x = a \o s /\ p \in ConfigLine /\ p.kind = "open" /\ p.indent = m /\ p.key = e.key
    BY <1>4 DEF LeafLines, Open, Line, ConfigLine, v
  <2>2. l \in Seq(Word) /\ Len(l) \in Nat /\ DOMAIN l = 1 .. Len(l) /\ \A k \in 1 .. Len(l) : l[k] \in Word
    BY <1>1, <1>4
  <2> HIDE DEF l, p
  <2>3. \A w \in Word : Item(m + d, w) \in ConfigLine
    BY DEF Item, Line, ConfigLine
  <2>4. s \in Seq(ConfigLine) /\ Len(s) = Len(l) /\ \A k \in 1 .. Len(l) : s[k] = Item(m + d, l[k])
    BY <2>2, <2>3
  <2>5. a \in Seq(ConfigLine) /\ Len(a) = 1 /\ a[1] = p
    BY <2>1
  <2> HIDE DEF x, s, a
  <2>6. Cats(ConfigLine, a, s, x)
    BY <2>1, <2>4, <2>5 DEF Cats
  <2>7. x \in Seq(ConfigLine) /\ Len(x) = Len(a) + Len(s) /\ IsCat(a, s, x)
    BY <2>6, CatParts
  <2>8. (\A k \in 1 .. Len(a) : x[k] = a[k]) /\ \A k \in 1 .. Len(s) : x[Len(a) + k] = s[k]
    BY <2>7 DEF IsCat
  <2>9. Len(x) = Len(l) + 1 /\ x[1] = p /\ \A k \in 1 .. Len(l) : x[k + 1] = Item(m + d, l[k])
    <3>1. \A k \in 1 .. Len(l) : 1 + k = k + 1
      BY <2>2
    <3>2. \A k \in 1 .. Len(l) : x[1 + k] = Item(m + d, l[k])
      BY <2>4, <2>5, <2>8
    <3> QED
      BY <2>2, <2>4, <2>5, <2>7, <2>8, <3>1, <3>2
  <2>10. \A k \in 1 .. Len(l) :
           x[k + 1].kind = "item" /\ x[k + 1].indent = m + d /\ x[k + 1].value = l[k]
    <3>1. \A w : Item(m + d, w).kind = "item" /\ Item(m + d, w).indent = m + d /\ Item(m + d, w).value = w
      BY DEF Item, Line
    <3> QED
      BY <2>9, <3>1
  <2>11. ASSUME NEW k \in 1 .. Len(x) PROVE x[k].kind \in {"pair", "open", "item"}
    <3>1. k = 1 \/ (k - 1 \in 1 .. Len(l) /\ (k - 1) + 1 = k)
      BY <2>2, <2>9
    <3> QED
      BY <2>1, <2>9, <2>10, <3>1
  <2> QED
    <3>1. e.value.list = l /\ ~IsText(e.value) /\ ~IsMap(e.value)
      BY <1>4 DEF l, v
    <3>2. /\ x \in Seq(ConfigLine) /\ Len(x) \in Nat /\ Len(x) >= 1
          /\ x[1].indent = m /\ x[1].key = e.key /\ x[1].kind = "open"
      BY <2>1, <2>2, <2>7, <2>9
    <3> HIDE DEF l
    <3>3. LeafAre(e, m, d, x)
      BY <2>2, <2>9, <2>10, <2>11, <3>1, <3>2 DEF LeafAre
    <3> QED
      BY <3>3 DEF x
<1> QED
  BY <1>2, <1>3, <1>4

\* The next line after a key is none of its lines.
Apart(c, z, m) == z <= Len(c) => c[z].kind # "item" /\ ~(c[z].indent > m)

\* A key adds the same entry to equal mappings.
LEMMA UnderSame ==
  ASSUME NEW k, NEW v, NEW a, NEW b, a.next = b.next, a.map = b.map
  PROVE  Under(k, v, a) = Under(k, v, b)
BY DEF Under

LeafAt(V, c, m, G, e, d, x, q, z) ==
  /\ Full(V, c) /\ m \in Indents(c) /\ G = ReadOf(c)
  /\ e.value \in Leaves /\ d \in Nat /\ LeafAre(e, m, d, x)
  /\ q \in Nat \ {0} /\ Sits(c, q - 1, x) /\ z = q + Len(x) /\ Apart(c, z, m)
  /\ G[<<z, m>>].items = <<>>

\* The lines of a leaf are read back as that leaf.
LEMMA LeafRead ==
  ASSUME NEW V, NEW c, NEW m, NEW G, NEW e, NEW d, NEW x, NEW q, NEW z,
         LeafAt(V, c, m, G, e, d, x, q, z)
  PROVE  G[<<q, m>>] = Under(e.key, LeafValue(e.value), G[<<z, m>>])
<1> DEFINE v == e.value
           n == Len(c)
<1>0. /\ Full(V, c) /\ m \in Indents(c) /\ G = ReadOf(c)
      /\ v \in Leaves /\ d \in Nat /\ LeafAre(e, m, d, x)
      /\ q \in Nat \ {0} /\ Sits(c, q - 1, x) /\ z = q + Len(x) /\ Apart(c, z, m)
      /\ G[<<z, m>>].items = <<>>
  BY DEF LeafAt
<1>1. n \in Nat /\ m \in Nat
  BY <1>0, LinesAre DEF Full
<1>2. /\ Len(x) \in Nat /\ Len(x) >= 1
      /\ x[1].indent = m /\ x[1].key = e.key
      /\ (IsText(v) => Len(x) = 1 /\ x[1].kind = "pair" /\ x[1].value = v.str)
      /\ (IsMap(v) => Len(x) = 1 /\ x[1].kind = "open")
  BY <1>0 DEF LeafAre
<1>3. q - 1 + Len(x) <= n /\ \A k \in 1 .. Len(x) : c[q - 1 + k] = x[k]
  BY <1>0 DEF Sits
<1>4. q \in 1 .. n /\ c[q] = x[1] /\ z \in Nat /\ z <= n + 1
  <2>1. q - 1 + 1 = q /\ 1 \in 1 .. Len(x)
    BY <1>0, <1>1, <1>2
  <2>2. c[q - 1 + 1] = x[1]
    BY <1>3, <2>1
  <2> QED
    BY <1>0, <1>1, <1>2, <1>3, <2>1, <2>2
<1>5. FullBlock(c, G, q, m) /\ ~(c[q].indent < m) /\ c[q].key = e.key
  BY <1>0, <1>1, <1>2, <1>4, FullRead
<1>6. /\ IsText(v) => v = Str(v.str) /\ ~IsMap(v)
      /\ ~IsText(v) /\ ~IsMap(v) => v.list \in Seq(Word) /\ v.list # <<>> /\ v = List(v.list)
  BY <1>0, LeafShape
<1>7. CASE IsText(v)
  <2>1. z = q + 1 /\ c[q].kind = "pair" /\ c[q].value = v.str
    BY <1>0, <1>2, <1>4, <1>7
  <2>2. G[<<q, m>>] = Under(c[q].key, Str(c[q].value), G[<<q + 1, m>>])
    BY <1>5, <2>1 DEF FullBlock
  <2> QED
    BY <1>5, <1>6, <1>7, <2>1, <2>2 DEF LeafValue
<1>8. CASE IsMap(v)
  <2>1. z = q + 1 /\ c[q].kind = "open"
    BY <1>0, <1>2, <1>4, <1>8
  <2>2. q < n => c[q + 1].kind # "item" /\ ~(c[q + 1].indent > m)
    BY <1>0, <1>1, <1>4, <2>1 DEF Apart
  <2>3. c[q].indent = m
    BY <1>2, <1>4
  <2>4. G[<<q, m>>] = Under(c[q].key, Map(Empty), G[<<q + 1, m>>])
    BY <1>5, <2>1, <2>2, <2>3 DEF FullBlock
  <2> QED
    BY <1>5, <1>8, <2>1, <2>4 DEF LeafValue
<1>9. CASE ~IsText(v) /\ ~IsMap(v)
  <2> DEFINE l == v.list
  <2>1. /\ c[q].kind = "open" /\ Len(x) = Len(l) + 1 /\ Len(l) \in Nat
        /\ \A k \in 1 .. Len(l) : x[k + 1].kind = "item" /\ x[k + 1].indent = m + d /\ x[k + 1].value = l[k]
    BY <1>0, <1>4, <1>9 DEF LeafAre
  <2>2. l \in Seq(Word) /\ l # <<>> /\ v = List(l) /\ Len(l) >= 1
    <3>1. l \in Seq(Word) /\ l # <<>> /\ v = List(l)
      BY <1>6, <1>9
    <3> HIDE DEF l
    <3> QED
      BY <3>1
  <2> HIDE DEF l, v
  <2>3. z = q + Len(l) + 1 /\ q + Len(l) <= n /\ q < n
    BY <1>0, <1>1, <1>2, <1>3, <1>4, <2>1, <2>2
  <2>4. \A k \in 1 .. Len(l) : c[q + k] = x[k + 1]
    <3>1. \A k \in 1 .. Len(l) : k + 1 \in 1 .. Len(x) /\ q - 1 + (k + 1) = q + k
      BY <1>0, <2>1
    <3> QED
      BY <1>3, <3>1
  <2>5. Itemed(c, q, l, m)
    <3>1. ~(m + d < m) /\ q \in Nat
      BY <1>0, <1>1
    <3> QED
      BY <2>1, <2>3, <2>4, <3>1 DEF Itemed
  <2>6. G[<<q + Len(l) + 1, m>>].items = <<>>
    BY <1>0, <2>3
  <2>7. ItemsFrom(G[<<q + 1, m>>], G[<<q + Len(l) + 1, m>>], l)
    BY <1>0, <2>2, <2>5, <2>6, ItemsRead
  <2>8. c[q + 1].kind = "item"
    <3>1. 1 \in 1 .. Len(l) /\ 1 + 1 = 2
      BY <2>1, <2>2
    <3> QED
      BY <2>1, <2>4, <3>1
  <2>9. G[<<q, m>>] = Under(c[q].key, List(G[<<q + 1, m>>].items), G[<<q + 1, m>>])
    BY <1>5, <2>1, <2>3, <2>8 DEF FullBlock
  <2>10. Under(e.key, List(l), G[<<q + 1, m>>]) = Under(e.key, List(l), G[<<z, m>>])
    <3> DEFINE a == G[<<q + 1, m>>]
               b == G[<<z, m>>]
    <3>1. a.next = b.next /\ a.map = b.map
      BY <2>3, <2>7 DEF ItemsFrom
    <3> HIDE DEF a, b
    <3>2. Under(e.key, List(l), a) = Under(e.key, List(l), b)
      BY <3>1 DEF Under
    <3> QED
      BY <3>2 DEF a, b
  <2>11. G[<<q + 1, m>>].items = l
    BY <2>7 DEF ItemsFrom
  <2>12. LeafValue(v) = List(l)
    BY <1>9, <2>2 DEF LeafValue
  <2> QED
    BY <1>5, <2>9, <2>10, <2>11, <2>12 DEF v
<1> QED
  BY <1>7, <1>8, <1>9

-----------------------------------------------------------------------------
(* Such keys one after another.                                            *)

FullLine ==
  [kind : {"pair", "open", "item"}, indent : Nat, key : SettingKey \cup {"-"}, value : Word \cup {"-"}]

\* Lines of settings are lines of config.yaml.
LEMMA FullLines ==
  ASSUME NEW c \in Seq(FullLine)
  PROVE  Full(FullLine, c) /\ c \in Seq(ConfigLine)
<1>1. \A l \in FullLine : l \in ConfigLine /\ l.kind \in {"pair", "open", "item"} /\ l.kind \in LineKinds /\ l.indent \in Nat
  BY DEF FullLine, ConfigLine, LineKinds
<1>2. Len(c) \in Nat /\ \A k \in 1 .. Len(c) : c[k] \in FullLine
  OBVIOUS
<1>3. IsLines(FullLine, c)
  BY <1>1 DEF IsLines
<1>4. \A k \in 1 .. Len(c) : c[k].kind \in {"pair", "open", "item"}
  BY <1>1, <1>2
<1>5. FullLine \subseteq ConfigLine
  BY <1>1
<1> HIDE DEF FullLine
<1>6. c \in Seq(ConfigLine)
  BY <1>2, <1>5
<1> QED
  BY <1>3, <1>4, <1>6 DEF Full

\* So are those of a leaf.
LEMMA LeafFull ==
  ASSUME NEW e, NEW m \in Nat, NEW d \in Nat, NEW x, LeafAre(e, m, d, x)
  PROVE  x \in Seq(FullLine)
<1>1. x \in Seq(ConfigLine) /\ Len(x) \in Nat /\ \A k \in 1 .. Len(x) : x[k].kind \in {"pair", "open", "item"}
  BY DEF LeafAre
<1>2. \A l \in ConfigLine : l.kind \in {"pair", "open", "item"} => l \in FullLine
  BY DEF ConfigLine, FullLine
<1>3. \A k \in 1 .. Len(x) : x[k] \in ConfigLine
  BY <1>1
<1>4. \A k \in 1 .. Len(x) : x[k] \in FullLine
  BY <1>1, <1>2, <1>3
<1> QED
  BY <1>1, <1>4

\* Keys with strings, lists and empty mappings, one after another.
LeafParts(u, m, d) == [i \in DOMAIN u |-> LeafLines(u[i], m, d)]
LeafValues(u)      == [i \in DOMAIN u |-> LeafValue(u[i].value)]

\* Settings name a key once.
LEMMA KeyedAre ==
  ASSUME NEW V, NEW t \in Keyed(V)
  PROVE  /\ t \in Seq([key : SettingKey, value : V]) /\ Len(t) \in Nat /\ DOMAIN t = 1 .. Len(t) /\ Distinct(t)
         /\ \A i \in 1 .. Len(t) : t[i].key \in SettingKey /\ t[i].value \in V
<1> DEFINE U == [key : SettingKey, value : V]
<1>1. t \in Seq(U) /\ Distinct(t)
  BY DEF Keyed, Distinct
<1>2. \A l \in U : l.key \in SettingKey /\ l.value \in V
  OBVIOUS
<1> HIDE DEF U
<1>3. Len(t) \in Nat /\ DOMAIN t = 1 .. Len(t) /\ \A i \in 1 .. Len(t) : t[i] \in U
  BY <1>1
<1> QED
  BY <1>1, <1>2, <1>3 DEF U

\* The lines of the leaves, one part for each.
LEMMA LeafPartsAre ==
  ASSUME NEW u \in Keyed(Leaves), NEW m \in Nat, NEW d \in Nat, NEW ss, ss = LeafParts(u, m, d)
  PROVE  /\ ss \in Seq(Seq(FullLine)) /\ Len(ss) = Len(u)
         /\ \A i \in 1 .. Len(u) : LeafAre(u[i], m, d, ss[i])
<1>1. /\ Len(u) \in Nat /\ DOMAIN u = 1 .. Len(u)
      /\ \A i \in 1 .. Len(u) : u[i].key \in SettingKey /\ u[i].value \in Leaves
  BY KeyedAre
<1>2. \A i \in 1 .. Len(u) : LeafAre(u[i], m, d, LeafLines(u[i], m, d))
  BY <1>1, LeafLinesAre
<1>3. \A i \in 1 .. Len(u) : LeafLines(u[i], m, d) \in Seq(FullLine)
  BY <1>2, LeafFull
<1>4. ss = [i \in 1 .. Len(u) |-> LeafLines(u[i], m, d)]
  BY <1>1 DEF LeafParts
<1>5. ss \in Seq(Seq(FullLine)) /\ Len(ss) = Len(u) /\ \A i \in 1 .. Len(u) : ss[i] = LeafLines(u[i], m, d)
  BY <1>1, <1>3, <1>4
<1> QED
  BY <1>2, <1>5

\* The leaves as a mapping.
LEMMA InnerIs ==
  ASSUME NEW u \in Keyed(Leaves)
  PROVE  MapFrom(u, LeafValues(u), 1) = InnerOf(u)
<1>1. Len(u) \in Nat /\ DOMAIN u = 1 .. Len(u)
  BY KeyedAre
<1>2. Keys(u) = {u[x].key : x \in 1 .. Len(u)}
  BY <1>1 DEF Keys
<1>3. ASSUME NEW k \in Keys(u)
      PROVE  LeafValues(u)[CHOOSE x \in DOMAIN u : u[x].key = k]
               = IF IsMap(ValueAt(u, k)) THEN Map(Empty) ELSE ValueAt(u, k)
  <2> DEFINE y == CHOOSE x \in DOMAIN u : u[x].key = k
  <2>1. y \in DOMAIN u
    BY DEF Keys
  <2>2. ValueAt(u, k) = u[y].value
    BY DEF ValueAt
  <2> HIDE DEF y
  <2>3. LeafValues(u)[y] = LeafValue(u[y].value)
    BY <2>1 DEF LeafValues
  <2>4. LeafValues(u)[y] = IF IsMap(ValueAt(u, k)) THEN Map(Empty) ELSE ValueAt(u, k)
    BY <2>2, <2>3 DEF LeafValue
  <2> QED
    BY <2>4 DEF y
<1> QED
  BY <1>2, <1>3 DEF MapFrom, InnerOf

LeavesIs(G, p, z, m, u) ==
  G[<<p + 1, m>>].next = G[<<z, m>>].next /\ G[<<p + 1, m>>].map = InnerOf(u)

\* The leaves of a section are read back as its mapping.
LEMMA LeavesRead ==
  ASSUME NEW c \in Seq(FullLine), NEW m \in Indents(c), NEW G, G = ReadOf(c),
         NEW u \in Keyed(Leaves), NEW d \in Nat, NEW ss, ss = LeafParts(u, m, d),
         NEW p \in Nat, Sits(c, p, FlattenSeq(ss)), NEW z, z = p + Len(FlattenSeq(ss)) + 1,
         Apart(c, z, m), G[<<z, m>>].map = Empty, G[<<z, m>>].items = <<>>
  PROVE  LeavesIs(G, p, z, m, u)
<1> DEFINE n == Len(u)
           a == Starts(ss, p)
           vs == LeafValues(u)
<1>1. /\ n \in Nat /\ DOMAIN u = 1 .. n /\ Distinct(u)
      /\ \A i \in 1 .. n : u[i].value \in Leaves
  BY KeyedAre
<1>2. Full(FullLine, c) /\ m \in Nat
  <2>1. Full(FullLine, c)
    BY FullLines
  <2> QED
    BY <2>1, LinesAre DEF Full
<1>3. /\ ss \in Seq(Seq(FullLine)) /\ Len(ss) = n /\ \A i \in 1 .. n : LeafAre(u[i], m, d, ss[i])
  BY <1>2, LeafPartsAre
<1>4. IsLayout(c, p, ss, a)
  BY <1>3, Layout
<1> HIDE DEF a, n
<1>5. /\ a[1] = p + 1 /\ a[n + 1] = z
      /\ \A i \in 1 .. n + 1 : a[i] \in 1 .. Len(c) + 1
      /\ \A i \in 1 .. n : a[i + 1] = a[i] + Len(ss[i]) /\ Sits(c, a[i] - 1, ss[i])
  BY <1>3, <1>4 DEF IsLayout
<1>6. ASSUME NEW i \in 1 .. n PROVE Apart(c, a[i + 1], m)
  <2>1. CASE i = n
    BY <1>5, <2>1
  <2>2. CASE i # n
    <3>1. i + 1 \in 1 .. n /\ i + 1 \in 1 .. n + 1
      BY <1>1, <2>2
    <3> DEFINE b == a[i + 1]
               x == ss[i + 1]
    <3>2. Sits(c, b - 1, x) /\ b \in 1 .. Len(c) + 1
      BY <1>5, <3>1
    <3>3. LeafAre(u[i + 1], m, d, x)
      BY <1>3, <3>1
    <3> HIDE DEF b, x
    <3>4. 1 \in 1 .. Len(x) /\ b - 1 + 1 = b /\ x[1].indent = m /\ x[1].kind # "item"
      BY <3>2, <3>3 DEF LeafAre
    <3>5. c[b - 1 + 1] = x[1]
      BY <3>2, <3>4 DEF Sits
    <3>6. Apart(c, b, m)
      BY <1>2, <3>4, <3>5 DEF Apart
    <3> QED
      BY <3>6 DEF b
  <2> QED
    BY <2>1, <2>2
<1>7. Chained(u, vs, a, G, m)
  <2> SUFFICES ASSUME NEW i \in 1 .. n, G[<<a[i + 1], m>>].items = <<>>
               PROVE  G[<<a[i], m>>] = Under(u[i].key, vs[i], G[<<a[i + 1], m>>])
    BY DEF Chained, n
  <2> DEFINE e == u[i]
             x == ss[i]
             q == a[i]
             b == a[i + 1]
  <2>1. e.value \in Leaves /\ LeafAre(e, m, d, x) /\ Sits(c, q - 1, x) /\ b = q + Len(x) /\ Apart(c, b, m)
    BY <1>1, <1>3, <1>5, <1>6
  <2>2. q \in Nat \ {0}
    <3>1. i \in 1 .. n + 1
      BY <1>1
    <3> QED
      BY <1>5, <3>1
  <2>3. vs[i] = LeafValue(e.value)
    BY <1>1 DEF LeafValues, n
  <2>4. G[<<b, m>>].items = <<>>
    OBVIOUS
  <2> HIDE DEF e, x, q, b, vs
  <2>5. G[<<q, m>>] = Under(e.key, LeafValue(e.value), G[<<b, m>>])
    <3>1. LeafAt(FullLine, c, m, G, e, d, x, q, b)
      BY <1>2, <2>1, <2>2, <2>4 DEF LeafAt
    <3> QED
      BY <3>1, LeafRead
  <2> QED
    BY <2>3, <2>5 DEF e, q, b
<1>8. /\ G[<<a[1], m>>].next = G[<<a[n + 1], m>>].next
      /\ G[<<a[1], m>>].map = MapFrom(u, vs, 1)
  <2>1. Chain(u, vs, a, G, m)
    BY <1>1, <1>5, <1>7 DEF n, Chain
  <2> HIDE DEF vs
  <2>2. ChainIs(u, vs, a, G, m)
    BY <2>1, ChainRead
  <2> QED
    BY <2>2 DEF n, ChainIs
<1> QED
  BY <1>5, <1>8, InnerIs DEF LeavesIs

-----------------------------------------------------------------------------
(* The lines of one key of the settings.                                   *)

OuterValue(v) == IF IsMap(v) THEN Map(InnerOf(v.map)) ELSE v

\* Settings of one key.
IsSetting(e) ==
  /\ e.key \in SettingKey
  /\ ~IsMap(e.value) => e.value \in Leaves
  /\ IsMap(e.value) => e.value.map \in Keyed(Leaves)

\* A setting is a leaf or a section of leaves.
LEMMA SettingIs ==
  ASSUME NEW e, e.key \in SettingKey, e.value \in Leaves \cup [map : Keyed(Leaves)]
  PROVE  IsSetting(e)
<1> DEFINE v == e.value
           K == Keyed(Leaves)
<1>1. <<>> \in K
  BY DEF Keyed
<1> HIDE DEF v, K
<1>2. v \in Leaves \/ v \in [map : K]
  BY DEF v, K
<1>3. CASE v \in Leaves
  <2>1. IsMap(v) => v.map = <<>>
    BY <1>3, LeafShape
  <2> QED
    BY <1>1, <1>3, <2>1 DEF IsSetting, v, K
<1>4. CASE v \in [map : K]
  <2>1. IsMap(v) /\ v.map \in K
    BY <1>4 DEF IsMap
  <2> QED
    BY <2>1 DEF IsSetting, v, K
<1> QED
  BY <1>2, <1>3, <1>4

\* The lines of one key.
SectionAre(e, x) ==
  /\ x \in Seq(FullLine) /\ Len(x) \in Nat /\ Len(x) >= 1
  /\ x[1].indent = 0 /\ x[1].key = e.key /\ x[1].kind \in {"pair", "open"}

MapLinesAre(e, inner, d, x, o, y) ==
  /\ o = <<Open(0, e.key)>> /\ o \in Seq(FullLine) /\ Len(o) = 1
  /\ y = FlattenSeq(LeafParts(e.value.map, inner, d)) /\ y \in Seq(FullLine)
  /\ Cats(FullLine, o, y, x) /\ Len(x) = 1 + Len(y) /\ Len(y) \in Nat
  /\ x[1].kind = "open" /\ x[1].indent = 0 /\ x[1].key = e.key
  /\ \A k \in 1 .. Len(y) : x[1 + k] = y[k]

\* The lines of a section: its key and those of its leaves.
LEMMA MapLines ==
  ASSUME NEW e, IsSetting(e), IsMap(e.value), NEW inner \in Nat, NEW d \in Nat
  PROVE  \E o, y : MapLinesAre(e, inner, d, SectionLines(e, inner, d), o, y)
<1> DEFINE u == e.value.map
           p == Open(0, e.key)
           o == <<p>>
           ss == LeafParts(u, inner, d)
           y == FlattenSeq(ss)
           x == SectionLines(e, inner, d)
<1>1. x = o \o y
  BY DEF SectionLines, LeafParts
<1>2. u \in Keyed(Leaves) /\ e.key \in SettingKey
  BY DEF IsSetting
<1>3. p \in FullLine /\ p.kind = "open" /\ p.indent = 0 /\ p.key = e.key
  BY <1>2 DEF Open, Line, FullLine
<1>4. ss \in Seq(Seq(FullLine))
  <2> HIDE DEF u
  <2> QED
    BY <1>2, LeafPartsAre
<1>5. y \in Seq(FullLine)
  <2> HIDE DEF ss
  <2> QED
    BY <1>4, FlattenIs
<1> HIDE DEF p, y, x
<1>6. o \in Seq(FullLine) /\ Len(o) = 1 /\ o[1] = p
  BY <1>3
<1> HIDE DEF o
<1>7. Cats(FullLine, o, y, x)
  BY <1>1, <1>5, <1>6 DEF Cats
<1>8. x \in Seq(FullLine) /\ Len(x) = Len(o) + Len(y) /\ IsCat(o, y, x)
  BY <1>7, CatParts
<1>9. (\A k \in 1 .. Len(o) : x[k] = o[k]) /\ \A k \in 1 .. Len(y) : x[Len(o) + k] = y[k]
  BY <1>8 DEF IsCat
<1>10. Len(y) \in Nat /\ x[1] = p /\ \A k \in 1 .. Len(y) : x[1 + k] = y[k]
  BY <1>5, <1>6, <1>9
<1>11. Len(x) = 1 + Len(y)
  BY <1>6, <1>8
<1>12. o = <<Open(0, e.key)>>
  BY DEF o, p
<1>13. y = FlattenSeq(LeafParts(e.value.map, inner, d))
  BY DEF y
<1> HIDE DEF u, ss
<1>14. MapLinesAre(e, inner, d, x, o, y)
  BY <1>3, <1>5, <1>6, <1>7, <1>10, <1>11, <1>12, <1>13 DEF MapLinesAre
<1> QED
  BY <1>14 DEF x

\* The lines of a setting begin with its key, at no indent.
LEMMA SectionLinesAre ==
  ASSUME NEW e, IsSetting(e), NEW inner \in Nat, NEW d \in Nat
  PROVE  SectionAre(e, SectionLines(e, inner, d))
<1> DEFINE x == SectionLines(e, inner, d)
<1>1. CASE ~IsMap(e.value)
  <2>1. x = LeafLines(e, 0, d)
    BY <1>1 DEF SectionLines
  <2>2. LeafAre(e, 0, d, x)
    <3>1. e.key \in SettingKey /\ e.value \in Leaves
      BY <1>1 DEF IsSetting
    <3> QED
      BY <2>1, <3>1, LeafLinesAre
  <2> HIDE DEF x
  <2>3. x \in Seq(FullLine)
    BY <2>2, LeafFull
  <2> QED
    BY <2>2, <2>3 DEF LeafAre, SectionAre, x
<1>2. CASE IsMap(e.value)
  <2>1. PICK o, y : MapLinesAre(e, inner, d, x, o, y)
    BY <1>2, MapLines
  <2> HIDE DEF x
  <2>2. x \in Seq(FullLine)
    <3>1. Cats(FullLine, o, y, x)
      BY <2>1 DEF MapLinesAre
    <3> QED
      BY <3>1, CatParts
  <2>3. Len(x) \in Nat /\ Len(x) >= 1 /\ x[1].indent = 0 /\ x[1].key = e.key /\ x[1].kind = "open"
    BY <2>1 DEF MapLinesAre
  <2> QED
    BY <2>2, <2>3 DEF SectionAre, x
<1> QED
  BY <1>1, <1>2

\* What the parser reads from the lines of one key on.
SectionAt(c, G, e, inner, d, x, q, z) ==
  /\ c \in Seq(FullLine) /\ G = ReadOf(c) /\ IsSetting(e)
  /\ inner \in Nat \ {0} /\ d \in Nat /\ x = SectionLines(e, inner, d)
  /\ q \in Nat \ {0} /\ Sits(c, q - 1, x) /\ z = q + Len(x)
  /\ (z <= Len(c) => c[z].kind # "item" /\ c[z].indent = 0)
  /\ G[<<z, 0>>].items = <<>>

\* The lines of a setting are read back as that setting.
LEMMA SectionRead ==
  ASSUME NEW c, NEW G, NEW e, NEW inner, NEW d, NEW x, NEW q, NEW z,
         SectionAt(c, G, e, inner, d, x, q, z)
  PROVE  G[<<q, 0>>] = Under(e.key, OuterValue(e.value), G[<<z, 0>>])
<1> DEFINE n == Len(c)
<1>0. /\ c \in Seq(FullLine) /\ G = ReadOf(c) /\ IsSetting(e)
      /\ inner \in Nat \ {0} /\ d \in Nat /\ x = SectionLines(e, inner, d)
      /\ q \in Nat \ {0} /\ Sits(c, q - 1, x) /\ z = q + Len(x)
      /\ (z <= Len(c) => c[z].kind # "item" /\ c[z].indent = 0)
      /\ G[<<z, 0>>].items = <<>>
  BY DEF SectionAt
<1>1. Full(FullLine, c) /\ n \in Nat /\ 0 \in Indents(c) /\ IsLines(FullLine, c)
  <2>1. Full(FullLine, c) /\ IsLines(FullLine, c)
    BY <1>0, FullLines DEF Full
  <2> QED
    BY <2>1, LinesAre
<1>2. CASE ~IsMap(e.value)
  <2>1. e.key \in SettingKey /\ e.value \in Leaves
    BY <1>0, <1>2 DEF IsSetting
  <2>2. LeafAre(e, 0, d, x)
    <3>1. x = LeafLines(e, 0, d)
      BY <1>0, <1>2 DEF SectionLines
    <3> QED
      BY <1>0, <2>1, <3>1, LeafLinesAre
  <2>3. Apart(c, z, 0)
    BY <1>0 DEF Apart
  <2>4. G[<<q, 0>>] = Under(e.key, LeafValue(e.value), G[<<z, 0>>])
    <3> DEFINE m == 0
    <3>1. LeafAt(FullLine, c, m, G, e, d, x, q, z)
      BY <1>0, <1>1, <2>1, <2>2, <2>3 DEF LeafAt
    <3> HIDE DEF m
    <3>2. G[<<q, m>>] = Under(e.key, LeafValue(e.value), G[<<z, m>>])
      BY <3>1, LeafRead
    <3> QED
      BY <3>2 DEF m
  <2> QED
    BY <1>2, <2>4 DEF LeafValue, OuterValue
<1>3. CASE IsMap(e.value)
  <2> DEFINE u == e.value.map
             ss == LeafParts(u, inner, d)
  <2>1. PICK o, y : MapLinesAre(e, inner, d, x, o, y)
    BY <1>0, <1>3, MapLines
  <2>2. /\ y = FlattenSeq(ss) /\ Len(x) = 1 + Len(y) /\ Len(y) \in Nat
        /\ x[1].kind = "open" /\ x[1].indent = 0 /\ x[1].key = e.key
        /\ \A k \in 1 .. Len(y) : x[1 + k] = y[k]
    BY <2>1 DEF MapLinesAre
  <2>3. u \in Keyed(Leaves)
    BY <1>0, <1>3 DEF IsSetting
  <2>4. OuterValue(e.value) = Map(InnerOf(u))
    BY <1>3 DEF OuterValue
  <2> HIDE DEF u
  <2>5. /\ ss \in Seq(Seq(FullLine)) /\ Len(ss) = Len(u)
        /\ \A i \in 1 .. Len(u) : LeafAre(u[i], inner, d, ss[i])
    BY <1>0, <2>3, LeafPartsAre
  <2>6. Len(u) \in Nat
    BY <2>3, KeyedAre
  <2> HIDE DEF ss
  <2>7. q - 1 + Len(x) <= n /\ \A k \in 1 .. Len(x) : c[q - 1 + k] = x[k]
    BY <1>0 DEF Sits
  <2>8. q \in 1 .. n /\ c[q] = x[1] /\ z = q + Len(y) + 1
    <3>1. 1 \in 1 .. Len(x) /\ q - 1 + 1 = q
      BY <1>0, <2>2
    <3>2. c[q - 1 + 1] = x[1]
      BY <2>7, <3>1
    <3>3. q <= n /\ z = q + Len(y) + 1
      <4> DEFINE l == Len(y)
      <4>1. l \in Nat /\ q - 1 + (1 + l) <= n /\ z = q + (1 + l) /\ q \in Nat
        BY <1>0, <2>2, <2>7
      <4> HIDE DEF l
      <4>2. q <= n /\ z = q + l + 1
        BY <1>1, <4>1
      <4> QED
        BY <4>2 DEF l
    <3> QED
      BY <1>0, <1>1, <3>1, <3>2, <3>3
  <2>9. Sits(c, q, y)
    <3>1. q + Len(y) <= n
      BY <1>0, <1>1, <2>2, <2>7
    <3>2. \A k \in 1 .. Len(y) : 1 + k \in 1 .. Len(x) /\ q - 1 + (1 + k) = q + k
      BY <1>0, <2>2
    <3>3. \A k \in 1 .. Len(y) : c[q + k] = y[k]
      BY <2>2, <2>7, <3>2
    <3> QED
      BY <3>1, <3>3 DEF Sits
  <2>10. FullBlock(c, G, q, 0) /\ ~(c[q].indent < 0) /\ c[q].kind = "open" /\ c[q].key = e.key /\ c[q].indent = 0
    <3>1. FullBlock(c, G, q, 0)
      BY <1>0, <1>1, <2>8, FullRead
    <3> QED
      BY <2>2, <2>8, <3>1
  <2>11. CASE Len(u) = 0
    <3>1. y = <<>>
      <4>1. Joined(ss)[0] = <<>>
        BY <2>5, JoinedStep
      <4>2. FlattenSeq(ss) = Joined(ss)[Len(ss)]
        BY <2>5, FlattenIs
      <4> QED
        BY <2>2, <2>5, <2>11, <4>1, <4>2
    <3>2. z = q + 1
      BY <2>8, <3>1
    <3>3. q < n => c[q + 1].kind # "item" /\ ~(c[q + 1].indent > c[q].indent)
      BY <1>0, <1>1, <2>8, <2>10, <3>2
    <3>4. G[<<q, 0>>] = Under(c[q].key, Map(Empty), G[<<q + 1, 0>>])
      BY <2>10, <3>3 DEF FullBlock
    <3>5. InnerOf(u) = Empty
      <4>1. Keys(u) = {}
        <5>1. DOMAIN u = {}
          BY <2>3, <2>11, KeyedAre
        <5> QED
          BY <5>1 DEF Keys
      <4> QED
        BY <4>1 DEF InnerOf, Empty
    <3> QED
      BY <2>4, <2>10, <3>2, <3>4, <3>5
  <2>12. CASE Len(u) # 0
    <3> DEFINE a == Starts(ss, q)
               w == ss[1]
    <3>1. IsLayout(c, q, ss, a)
      BY <1>0, <2>2, <2>5, <2>9, Layout
    <3>2. 1 \in 1 .. Len(ss) /\ 1 \in 1 .. Len(u)
      BY <2>5, <2>6, <2>12
    <3>3. a[1] = q + 1 /\ Sits(c, a[1] - 1, w)
      BY <3>1, <3>2 DEF IsLayout
    <3>4. LeafAre(u[1], inner, d, w)
      BY <2>5, <3>2
    <3> HIDE DEF a, w
    <3>5. Len(w) \in Nat /\ Len(w) >= 1 /\ w[1].indent = inner /\ w[1].kind # "item"
      BY <3>4 DEF LeafAre
    <3>6. c[q + 1] = w[1] /\ q + 1 <= n
      <4>1. 1 \in 1 .. Len(w) /\ a[1] - 1 + 1 = q + 1 /\ a[1] - 1 = q
        BY <1>0, <3>3, <3>5
      <4>2. c[a[1] - 1 + 1] = w[1] /\ a[1] - 1 + Len(w) <= n
        BY <3>3, <4>1 DEF Sits
      <4> QED
        BY <1>0, <1>1, <3>5, <4>1, <4>2
    <3>7. inner \in Indents(c)
      <4>1. q + 1 \in 1 .. Len(c)
        BY <1>1, <2>8, <3>6
      <4> QED
        BY <1>1, <3>5, <3>6, <4>1, LinesAre
    <3>8. G[<<z, inner>>] = Nothing(z)
      <4>0. z \in Nat /\ z >= 1
        BY <2>2, <2>8
      <4>1. CASE z <= n
        <5>1. z \in 1 .. n /\ c[z].indent < inner
          BY <1>0, <1>1, <4>0, <4>1
        <5>2. FullBlock(c, G, z, inner)
          BY <1>0, <1>1, <3>7, <5>1, FullRead
        <5> QED
          BY <5>1, <5>2 DEF FullBlock
      <4>2. CASE ~(z <= n)
        <5>1. z = n + 1
          <6> DEFINE l == Len(y)
          <6>1. l \in Nat /\ q - 1 + (1 + l) <= n /\ z = q + l + 1 /\ ~(z <= n) /\ q \in Nat
            BY <2>2, <2>7, <2>8, <4>2
          <6> HIDE DEF l
          <6> QED
            BY <1>1, <6>1
        <5>2. G[<<n + 1, inner>>] = Nothing(n + 1)
          BY <1>0, <1>1, <3>7, ReadAt
        <5> QED
          BY <5>1, <5>2
      <4> QED
        BY <4>1, <4>2
    <3>9. G[<<z, inner>>].map = Empty /\ G[<<z, inner>>].items = <<>> /\ G[<<z, inner>>].next = z
      BY <3>8, Parts
    <3>10. Apart(c, z, inner)
      BY <1>0 DEF Apart
    <3>11. G[<<q + 1, inner>>].next = z /\ G[<<q + 1, inner>>].map = InnerOf(u)
      <4>1. ss = LeafParts(u, inner, d) /\ Sits(c, q, FlattenSeq(ss)) /\ z = q + Len(FlattenSeq(ss)) + 1 /\ q \in Nat
        BY <2>2, <2>8, <2>9 DEF ss
      <4> QED
        <5>1. LeavesIs(G, q, z, inner, u)
          BY <1>0, <2>3, <3>7, <3>9, <3>10, <4>1, LeavesRead
        <5>2. G[<<q + 1, inner>>].next = G[<<z, inner>>].next /\ G[<<q + 1, inner>>].map = InnerOf(u)
          BY <5>1 DEF LeavesIs
        <5> QED
          BY <3>9, <5>2
    <3>12. q < n /\ Deeper(c, q) /\ c[q + 1].indent = inner
      <4>1. q < n
        BY <1>0, <1>1, <3>6
      <4>2. c[q + 1].kind # "item" /\ c[q + 1].indent = inner
        BY <3>5, <3>6
      <4>3. c[q].indent = 0 /\ inner > 0
        BY <1>0, <2>10
      <4> QED
        BY <4>1, <4>2, <4>3 DEF Deeper
    <3>13. G[<<q, 0>>] = Within(c[q].key, G[<<q + 1, inner>>], 0, G)
      BY <2>10, <3>12 DEF FullBlock
    <3>14. G[<<q, 0>>] = Under(e.key, Map(InnerOf(u)), G[<<z, 0>>])
      <4> DEFINE sub == G[<<q + 1, inner>>]
      <4>1. sub.next = z /\ sub.map = InnerOf(u)
        BY <3>11
      <4> HIDE DEF sub
      <4>2. Within(c[q].key, sub, 0, G) = Under(c[q].key, Map(sub.map), G[<<sub.next, 0>>])
        BY DEF Within
      <4>3. Within(c[q].key, sub, 0, G) = Under(e.key, Map(InnerOf(u)), G[<<z, 0>>])
        BY <2>10, <4>1, <4>2
      <4> QED
        BY <3>13, <4>3 DEF sub
    <3> QED
      BY <2>4, <3>14
  <2> QED
    BY <2>11, <2>12
<1> QED
  BY <1>2, <1>3

-----------------------------------------------------------------------------
(* Settings as a whole.                                                    *)

OuterParts(t, inner, d) == [i \in DOMAIN t |-> SectionLines(t[i], inner, d)]
OuterValues(t)          == [i \in DOMAIN t |-> OuterValue(t[i].value)]

\* The lines of the settings, one part for each.
LEMMA OuterAre ==
  ASSUME NEW t \in Settings, NEW inner \in Nat, NEW d \in Nat, NEW ss, ss = OuterParts(t, inner, d)
  PROVE  /\ Len(t) \in Nat /\ DOMAIN t = 1 .. Len(t) /\ Distinct(t)
         /\ \A i \in 1 .. Len(t) : IsSetting(t[i])
         /\ ss \in Seq(Seq(FullLine)) /\ Len(ss) = Len(t)
         /\ \A i \in 1 .. Len(t) : ss[i] = SectionLines(t[i], inner, d) /\ SectionAre(t[i], ss[i])
<1> DEFINE V == Leaves \cup [map : Keyed(Leaves)]
<1>1. /\ Len(t) \in Nat /\ DOMAIN t = 1 .. Len(t) /\ Distinct(t)
      /\ \A i \in 1 .. Len(t) : t[i].key \in SettingKey /\ t[i].value \in V
  <2>1. t \in Keyed(V)
    BY DEF Settings
  <2> HIDE DEF V
  <2> QED
    BY <2>1, KeyedAre
<1>2. \A i \in 1 .. Len(t) : IsSetting(t[i])
  BY <1>1, SettingIs
<1>3. \A i \in 1 .. Len(t) : SectionAre(t[i], SectionLines(t[i], inner, d))
  BY <1>2, SectionLinesAre
<1>4. ss = [i \in 1 .. Len(t) |-> SectionLines(t[i], inner, d)]
  BY <1>1 DEF OuterParts
<1>5. \A i \in 1 .. Len(t) : SectionLines(t[i], inner, d) \in Seq(FullLine)
  BY <1>3 DEF SectionAre
<1>6. ss \in Seq(Seq(FullLine)) /\ Len(ss) = Len(t) /\ \A i \in 1 .. Len(t) : ss[i] = SectionLines(t[i], inner, d)
  BY <1>1, <1>4, <1>5
<1> QED
  BY <1>1, <1>2, <1>3, <1>6

\* The settings as a mapping.
LEMMA MapIs ==
  ASSUME NEW t, Len(t) \in Nat, DOMAIN t = 1 .. Len(t)
  PROVE  MapFrom(t, OuterValues(t), 1) = MapOf(t)
<1>1. Keys(t) = {t[x].key : x \in 1 .. Len(t)}
  BY DEF Keys
<1>2. ASSUME NEW k \in Keys(t)
      PROVE  OuterValues(t)[CHOOSE x \in DOMAIN t : t[x].key = k]
               = IF IsMap(ValueAt(t, k)) THEN Map(InnerOf(ValueAt(t, k).map)) ELSE ValueAt(t, k)
  <2> DEFINE y == CHOOSE x \in DOMAIN t : t[x].key = k
  <2>1. y \in DOMAIN t
    BY DEF Keys
  <2>2. ValueAt(t, k) = t[y].value
    BY DEF ValueAt
  <2> HIDE DEF y
  <2>3. OuterValues(t)[y] = OuterValue(t[y].value)
    BY <2>1 DEF OuterValues
  <2>4. OuterValues(t)[y] = IF IsMap(ValueAt(t, k)) THEN Map(InnerOf(ValueAt(t, k).map)) ELSE ValueAt(t, k)
    BY <2>2, <2>3 DEF OuterValue
  <2> QED
    BY <2>4 DEF y
<1> QED
  BY <1>1, <1>2 DEF MapFrom, MapOf

\* Settings without comments are read back.
LEMMA RenderedRead ==
  ASSUME NEW t \in Settings, NEW inner \in Nat \ {0}, NEW d \in Nat
  PROVE  Render(t, inner, d) \in Seq(FullLine) /\ Parse(Render(t, inner, d)) = MapOf(t)
<1> DEFINE ss == OuterParts(t, inner, d)
           c == FlattenSeq(ss)
           n == Len(t)
           a == Starts(ss, 0)
           G == ReadOf(c)
           vs == OuterValues(t)
<1>1. /\ n \in Nat /\ DOMAIN t = 1 .. n /\ Distinct(t)
      /\ \A i \in 1 .. n : IsSetting(t[i])
      /\ ss \in Seq(Seq(FullLine)) /\ Len(ss) = n
      /\ \A i \in 1 .. n : ss[i] = SectionLines(t[i], inner, d) /\ SectionAre(t[i], ss[i])
  <2> HIDE DEF ss
  <2> QED
    BY OuterAre DEF ss
<1>2. Render(t, inner, d) = c
  BY DEF Render, OuterParts
<1> HIDE DEF ss
<1>3. c \in Seq(FullLine)
  BY <1>1, FlattenIs
<1> HIDE DEF c
<1>4. Full(FullLine, c) /\ IsLines(FullLine, c) /\ Len(c) \in Nat /\ 0 \in Indents(c)
  <2>1. Full(FullLine, c) /\ IsLines(FullLine, c)
    BY <1>3, FullLines DEF Full
  <2> QED
    BY <2>1, LinesAre
<1>5. IsLayout(c, 0, ss, a)
  <2>1. Sits(c, 0, FlattenSeq(ss))
    <3>1. Sits(c, 0, c)
      <4>1. \A k \in 1 .. Len(c) : 0 + k = k
        BY <1>4
      <4> QED
        BY <1>4, <4>1 DEF Sits
    <3> QED
      BY <3>1 DEF c
  <2> QED
    BY <1>1, <1>3, <2>1, Layout
<1> HIDE DEF a, n
<1>6. /\ a[1] = 1 /\ a[n + 1] = Len(c) + 1
      /\ \A i \in 1 .. n + 1 : a[i] \in 1 .. Len(c) + 1
      /\ \A i \in 1 .. n : a[i + 1] = a[i] + Len(ss[i]) /\ Sits(c, a[i] - 1, ss[i])
  <2>1. /\ a[1] = 0 + 1 /\ a[n + 1] = 0 + Len(c) + 1
        /\ \A i \in 1 .. n + 1 : a[i] \in 1 .. Len(c) + 1
        /\ \A i \in 1 .. n : a[i + 1] = a[i] + Len(ss[i]) /\ Sits(c, a[i] - 1, ss[i])
    BY <1>1, <1>5 DEF IsLayout, c
  <2> QED
    BY <1>4, <2>1
<1> HIDE DEF G
<1>7. ASSUME NEW i \in 1 .. n, a[i + 1] <= Len(c) PROVE c[a[i + 1]].kind # "item" /\ c[a[i + 1]].indent = 0
  <2>1. i + 1 \in 1 .. n /\ i + 1 \in 1 .. n + 1
    <3>1. i # n
      BY <1>4, <1>6, <1>7
    <3> QED
      BY <1>1, <3>1
  <2> DEFINE b == a[i + 1]
             x == ss[i + 1]
  <2>2. Sits(c, b - 1, x) /\ b \in 1 .. Len(c) + 1
    BY <1>6, <2>1
  <2>3. SectionAre(t[i + 1], x)
    BY <1>1, <2>1
  <2> HIDE DEF b, x
  <2>4. 1 \in 1 .. Len(x) /\ b - 1 + 1 = b /\ x[1].indent = 0 /\ x[1].kind # "item"
    BY <2>2, <2>3 DEF SectionAre
  <2>5. c[b - 1 + 1] = x[1]
    BY <2>2, <2>4 DEF Sits
  <2>6. c[b].kind # "item" /\ c[b].indent = 0
    BY <2>4, <2>5
  <2> QED
    BY <2>6 DEF b
<1>8. Chained(t, vs, a, G, 0)
  <2> SUFFICES ASSUME NEW i \in 1 .. n, G[<<a[i + 1], 0>>].items = <<>>
               PROVE  G[<<a[i], 0>>] = Under(t[i].key, vs[i], G[<<a[i + 1], 0>>])
    BY DEF Chained, n
  <2> DEFINE e == t[i]
             x == ss[i]
             q == a[i]
             b == a[i + 1]
  <2>1. /\ IsSetting(e) /\ x = SectionLines(e, inner, d) /\ Sits(c, q - 1, x) /\ b = q + Len(x)
        /\ b <= Len(c) => c[b].kind # "item" /\ c[b].indent = 0
    BY <1>1, <1>6, <1>7
  <2>2. q \in Nat \ {0}
    <3>1. i \in 1 .. n + 1
      BY <1>1
    <3> QED
      BY <1>6, <3>1
  <2>3. vs[i] = OuterValue(e.value)
    BY <1>1 DEF OuterValues
  <2>4. G[<<b, 0>>].items = <<>> /\ G = ReadOf(c)
    BY DEF G
  <2> HIDE DEF e, x, q, b, vs
  <2>5. G[<<q, 0>>] = Under(e.key, OuterValue(e.value), G[<<b, 0>>])
    <3>1. SectionAt(c, G, e, inner, d, x, q, b)
      BY <1>3, <2>1, <2>2, <2>4 DEF SectionAt
    <3> QED
      BY <3>1, SectionRead
  <2> QED
    BY <2>3, <2>5 DEF e, q, b
<1>9. G[<<Len(c) + 1, 0>>].map = Empty /\ G[<<Len(c) + 1, 0>>].items = <<>>
  <2>1. G[<<Len(c) + 1, 0>>] = Nothing(Len(c) + 1)
    BY <1>4, ReadAt DEF G
  <2> QED
    BY <2>1, Parts
<1>10. G[<<1, 0>>].map = MapOf(t)
  <2>1. Chain(t, vs, a, G, 0)
    BY <1>1, <1>6, <1>8, <1>9 DEF n, Chain
  <2>2. vs = OuterValues(t)
    OBVIOUS
  <2> HIDE DEF vs
  <2>3. ChainIs(t, vs, a, G, 0)
    BY <2>1, ChainRead
  <2>4. G[<<1, 0>>].map = MapFrom(t, vs, 1)
    BY <1>6, <2>3 DEF ChainIs
  <2>5. MapFrom(t, OuterValues(t), 1) = MapOf(t)
    BY <1>1, MapIs DEF n
  <2> QED
    BY <2>2, <2>4, <2>5
<1>11. Parse(c) = G[<<1, 0>>].map
  BY <1>4, ReadIs DEF G
<1> QED
  BY <1>2, <1>3, <1>10, <1>11

\* Settings of any number and nesting that config.yaml may have are read back as
\* they were written, with items at any indent that is not less than that of
\* their key, and with comments and blank lines of any indent between any lines
\* (config.py:62-153).
THEOREM SettingsComeBack == RSpec => []SettingsReadBack
<1>1. RInit => SettingsReadBack
  <2> SUFFICES ASSUME RInit, topic = "settings" PROVE Parse(config) = MapOf(input.settings)
    BY DEF SettingsReadBack
  <2> DEFINE t == input.settings
             inner == input.inner
             d == input.deeper
  <2>1. /\ config \in Seq(ConfigLine)
        /\ t \in Settings /\ inner \in Nat \ {0} /\ d \in Nat /\ Content(config) = Render(t, inner, d)
    BY DEF RInit
  <2> HIDE DEF t, inner, d
  <2>2. IsLines(ConfigLine, config)
    <3>1. \A l \in ConfigLine : l.kind \in LineKinds /\ l.indent \in Nat
      BY DEF ConfigLine, LineKinds
    <3> QED
      BY <2>1, <3>1 DEF IsLines
  <2>3. Parse(config) = Parse(Content(config))
    BY <2>2, ContentDecides
  <2>4. Parse(Render(t, inner, d)) = MapOf(t)
    BY <2>1, RenderedRead
  <2> QED
    BY <2>1, <2>3, <2>4 DEF t
<1> QED
  BY <1>1, InputStays, PTL

\* For any two versions, the comparison says which has precedence, and "same"
\* only for versions that differ in nothing (session_context.py:379-418).
THEOREM VersionsByPrecedence == RSpec => []VersionPrecedence
<1>1. RInit => VersionPrecedence
  <2> SUFFICES ASSUME RInit, topic = "versions" PROVE VersionPrecedence
    BY DEF VersionPrecedence
  <2>1. input.left \in Version /\ input.right \in Version
    BY DEF RInit
  <2> QED
    BY <2>1, Precedence DEF VersionPrecedence
<1> QED
  BY <1>1, InputStays, PTL
=============================================================================
