----------------------------- MODULE Recursion -----------------------------
(***************************************************************************)
(* Induction over the natural numbers, and functions defined by recursion  *)
(* on them. The library states both with an operator as a parameter; here  *)
(* a property is the set of numbers that have it, and a recursion is given *)
(* by a function, so that any prover can use the lemmas. Then what follows *)
(* for FlattenSeq of the community modules, and for prefixes.              *)
(***************************************************************************)
EXTENDS Integers, SequencesExt, WellFoundedInduction, SequenceTheorems, TLAPS

(* Every nonempty set of numbers has a least one.                          *)
LEMMA LeastNat ==
  ASSUME NEW T \in SUBSET Nat, T # {}
  PROVE  \E m \in T : \A k \in T : m <= k
<1> DEFINE R == OpToRel(<, Nat)
<1>1. IsWellFoundedOn(R, Nat)
  BY NatLessThanWellFounded
<1>2. \A m, k \in Nat : <<k, m>> \in R <=> k < m
  BY DEF OpToRel
<1> HIDE DEF R
<1>3. PICK m \in T : \A k \in T : <<k, m>> \notin R
  BY <1>1, WFMin
<1>4. ASSUME NEW k \in T PROVE m <= k
  <2>1. m \in Nat /\ k \in Nat
    OBVIOUS
  <2>2. ~(k < m)
    BY <2>1, <1>2, <1>3
  <2> QED  BY <2>1, <2>2
<1> QED  BY <1>4

(* A set that has 0, and with a number the next, has all of them.          *)
LEMMA InductionNat ==
  ASSUME NEW P, 0 \in P, \A n \in Nat : n \in P => n + 1 \in P
  PROVE  \A n \in Nat : n \in P
<1> SUFFICES ASSUME Nat \ P # {} PROVE FALSE
  OBVIOUS
<1>1. PICK m \in Nat \ P : \A k \in Nat \ P : m <= k
  BY LeastNat
<1>2. m # 0
  BY <1>1
<1>3. m - 1 \in Nat /\ ~(m <= m - 1) /\ m - 1 + 1 = m
  BY <1>2
<1> QED  BY <1>1, <1>3

(* The same for the numbers up to N.                                       *)
LEMMA InductionUpTo ==
  ASSUME NEW N \in Nat, NEW P, 0 \in P, \A n \in 1..N : n - 1 \in P => n \in P
  PROVE  \A n \in 0..N : n \in P
<1> DEFINE Q == {n \in Nat : n <= N => n \in P}
<1>1. 0 \in Q
  OBVIOUS
<1>2. ASSUME NEW n \in Nat, n \in Q PROVE n + 1 \in Q
  <2> SUFFICES ASSUME n + 1 <= N PROVE n + 1 \in P
    OBVIOUS
  <2>1. n + 1 \in 1..N /\ n + 1 - 1 = n /\ n \in P
    BY <1>2
  <2> QED  BY <2>1
<1>3. \A n \in Nat : n \in Q
  <2> HIDE DEF Q
  <2> QED  BY <1>1, <1>2, InductionNat
<1> QED  BY <1>3

(* The beginning, up to n, of a function defined by recursion: next[k]     *)
(* makes the value at k + 1 of the value at k.                             *)
Begins(f, n, base, next) ==
  f[0] = base /\ \A k \in 0..(n - 1) : f[k + 1] = next[k][f[k]]

LEMMA BeginningsExist ==
  ASSUME NEW S, NEW base \in S, NEW next \in [Nat -> [S -> S]]
  PROVE  \A n \in Nat : \E f \in [0..n -> S] : Begins(f, n, base, next)
<1> DEFINE P == {n \in Nat : \E f \in [0..n -> S] : Begins(f, n, base, next)}
<1>1. 0 \in P
  <2> DEFINE f == [k \in 0..0 |-> base]
  <2>1. f \in [0..0 -> S] /\ Begins(f, 0, base, next)
    BY DEF Begins
  <2> QED  BY <2>1
<1>2. ASSUME NEW n \in Nat, n \in P PROVE n + 1 \in P
  <2>1. PICK f \in [0..n -> S] : Begins(f, n, base, next)
    BY <1>2
  <2> DEFINE g == [k \in 0..(n + 1) |-> IF k = n + 1 THEN next[n][f[n]] ELSE f[k]]
  <2>2. g \in [0..(n + 1) -> S]
    OBVIOUS
  <2>3. Begins(g, n + 1, base, next)
    <3>1. g[0] = base
      BY <2>1 DEF Begins
    <3>2. ASSUME NEW k \in 0..(n + 1 - 1) PROVE g[k + 1] = next[k][g[k]]
      <4>1. CASE k = n
        BY <4>1
      <4>2. CASE k # n
        <5>1. k \in 0..(n - 1) /\ k + 1 \in 0..n
          BY <4>2
        <5>2. g[k + 1] = f[k + 1] /\ g[k] = f[k]
          BY <5>1
        <5> QED  BY <2>1, <5>1, <5>2 DEF Begins
      <4> QED  BY <4>1, <4>2
    <3> HIDE DEF g
    <3> QED  BY <3>1, <3>2 DEF Begins
  <2> HIDE DEF g
  <2> QED  BY <2>2, <2>3
<1>3. \A n \in Nat : n \in P
  <2> HIDE DEF P
  <2> QED  BY <1>1, <1>2, InductionNat
<1> QED  BY <1>3

LEMMA BeginningsAgree ==
  ASSUME NEW S, NEW base \in S, NEW next \in [Nat -> [S -> S]], NEW n \in Nat,
         NEW f, Begins(f, n, base, next),
         NEW g, NEW m \in Nat, n <= m, Begins(g, m, base, next)
  PROVE  \A k \in 0..n : f[k] = g[k]
<1> DEFINE P == {k \in Nat : k <= n => f[k] = g[k]}
<1>1. 0 \in P
  BY DEF Begins
<1>2. ASSUME NEW k \in Nat, k \in P PROVE k + 1 \in P
  <2> SUFFICES ASSUME k + 1 <= n PROVE f[k + 1] = g[k + 1]
    OBVIOUS
  <2>1. f[k] = g[k]
    BY <1>2
  <2>2. k \in 0..(n - 1) /\ k \in 0..(m - 1)
    OBVIOUS
  <2> QED  BY <2>1, <2>2 DEF Begins
<1>3. \A k \in Nat : k \in P
  <2> HIDE DEF P
  <2> QED  BY <1>1, <1>2, InductionNat
<1> QED  BY <1>3

(* There is a function with the equations of a recursion.                  *)
LEMMA RecursionExists ==
  ASSUME NEW S, NEW base \in S, NEW next \in [Nat -> [S -> S]]
  PROVE  \E f \in [Nat -> S] : f[0] = base /\ \A n \in Nat : f[n + 1] = next[n][f[n]]
<1> DEFINE Beginning(n) == CHOOSE f \in [0..n -> S] : Begins(f, n, base, next)
           f == [n \in Nat |-> Beginning(n)[n]]
<1>1. \A n \in Nat : Beginning(n) \in [0..n -> S] /\ Begins(Beginning(n), n, base, next)
  BY BeginningsExist
<1> HIDE DEF Beginning
<1>2. f \in [Nat -> S]
  BY <1>1
<1>3. f[0] = base
  BY <1>1 DEF Begins
<1>4. ASSUME NEW n \in Nat PROVE f[n + 1] = next[n][f[n]]
  <2>1. Begins(Beginning(n + 1), n + 1, base, next) /\ Begins(Beginning(n), n, base, next)
    BY <1>1
  <2>2. \A k \in 0..n : Beginning(n)[k] = Beginning(n + 1)[k]
    BY <2>1, BeginningsAgree
  <2>3. n \in 0..(n + 1 - 1) /\ n \in 0..n
    OBVIOUS
  <2>4. Beginning(n + 1)[n + 1] = next[n][Beginning(n + 1)[n]]
    BY <2>1, <2>3 DEF Begins
  <2> QED  BY <2>2, <2>3, <2>4
<1> HIDE DEF f
<1> QED  BY <1>2, <1>3, <1>4

(* The same, with the equations under a name.                              *)
Runs(f, S, base, next) ==
  f \in [Nat -> S] /\ f[0] = base /\ \A n \in Nat : f[n + 1] = next[n][f[n]]

LEMMA RunExists ==
  ASSUME NEW S, NEW base \in S, NEW next \in [Nat -> [S -> S]]
  PROVE  \E f : Runs(f, S, base, next)
<1>1. \E f \in [Nat -> S] : f[0] = base /\ \A n \in Nat : f[n + 1] = next[n][f[n]]
  BY RecursionExists, Z3T(20)
<1> QED  BY <1>1 DEF Runs

(* The same for a function on 0..N, whose value at n is made of that       *)
(* before it.                                                              *)
RunsUpTo(g, N, S, base, next) ==
  g \in [0..N -> S] /\ g[0] = base /\ \A n \in 1..N : g[n] = next[n][g[n - 1]]

LEMMA RunUpToExists ==
  ASSUME NEW N \in Nat, NEW S, NEW base \in S, NEW next \in [1..N -> [S -> S]]
  PROVE  \E g : RunsUpTo(g, N, S, base, next)
<1>1. PICK step : /\ step \in [Nat -> [S -> S]]
                  /\ \A n \in 1..N : step[n - 1] = next[n]
  <2> DEFINE step == [m \in Nat |-> IF m < N THEN next[m + 1] ELSE [v \in S |-> v]]
  <2>1. step \in [Nat -> [S -> S]]
    <3>1. ASSUME NEW m \in Nat, m < N PROVE next[m + 1] \in [S -> S]
      BY <3>1
    <3> QED  BY <3>1
  <2>2. ASSUME NEW n \in 1..N PROVE step[n - 1] = next[n]
    <3>1. n - 1 \in Nat /\ n - 1 < N /\ n - 1 + 1 = n
      OBVIOUS
    <3> QED  BY <3>1
  <2> HIDE DEF step
  <2> QED  BY <2>1, <2>2
<1>2. PICK f : Runs(f, S, base, step)
  BY <1>1, RunExists
<1> DEFINE g == [n \in 0..N |-> f[n]]
<1>3. g \in [0..N -> S] /\ g[0] = base
  BY <1>2 DEF Runs
<1>4. ASSUME NEW n \in 1..N PROVE g[n] = next[n][g[n - 1]]
  <2>1. n - 1 \in Nat /\ n - 1 + 1 = n /\ n \in 0..N /\ n - 1 \in 0..N
    OBVIOUS
  <2>2. f[n] = step[n - 1][f[n - 1]]
    BY <1>2, <2>1 DEF Runs
  <2> QED  BY <1>1, <2>1, <2>2
<1> HIDE DEF g
<1>5. RunsUpTo(g, N, S, base, next)
  BY <1>3, <1>4 DEF RunsUpTo
<1> QED  BY <1>5

(* A function on 1..n is a sequence.                                       *)
LEMMA FunctionIsSeq ==
  ASSUME NEW S, NEW n \in Nat, NEW f \in [1..n -> S]
  PROVE  f \in Seq(S) /\ Len(f) = n
<1>1. f \in Seq(S)
  BY SeqDef, Zenon
<1>2. Len(f) \in Nat /\ DOMAIN f = 1..Len(f)
  BY <1>1, LenProperties
<1>3. DOMAIN f = 1..n
  OBVIOUS
<1>4. \A m \in Nat : 1..m = 1..n => m = n
  OBVIOUS
<1> QED  BY <1>1, <1>2, <1>3, <1>4

Associates(x, y, z) == (x \o y) \o z = x \o (y \o z)

LEMMA Association ==
  ASSUME NEW S, NEW x \in Seq(S), NEW y \in Seq(S), NEW z \in Seq(S)
  PROVE  Associates(x, y, z)
BY ConcatAssociative DEF Associates

Regrouped(l, b, a, x, y) == (l \o b) \o a = (l \o x) \o y

LEMMA Regroup ==
  ASSUME NEW S, NEW l \in Seq(S), NEW b \in Seq(S), NEW a \in Seq(S), NEW x \in Seq(S),
         NEW y \in Seq(S), b \o a = x \o y
  PROVE  Regrouped(l, b, a, x, y)
<1>1. Associates(l, b, a) /\ Associates(l, x, y)
  BY Association
<1> QED  BY <1>1 DEF Associates, Regrouped

LEMMA HeadThenTail ==
  ASSUME NEW S, NEW s \in Seq(S), s # <<>>
  PROVE  <<Head(s)>> \in Seq(S) /\ Tail(s) \in Seq(S) /\ s = <<Head(s)>> \o Tail(s)
<1>1. Len(s) \in Nat /\ Len(s) >= 1 /\ Head(s) = s[1] /\ Head(s) \in S
  BY EmptySeq, LenProperties, HeadTailProperties
<1>2. Tail(s) = SubSeq(s, 1 + 1, Len(s)) /\ Tail(s) \in Seq(S)
  BY TailIsSubSeq, HeadTailProperties
<1>3. SubSeq(s, 1, Len(s)) = <<s[1]>> \o SubSeq(s, 1 + 1, Len(s))
  <2>1. 1 \in 1..Len(s) /\ Len(s) \in 1..Len(s)
    BY <1>1
  <2> QED  BY <2>1, SubSeqRecursiveFirst
<1>4. SubSeq(s, 1, Len(s)) = s
  BY SubSeqFull
<1> QED  BY <1>1, <1>2, <1>3, <1>4

(* The equations of FlattenSeq of the community modules: h[n] is the       *)
(* concatenation of the first n of the sequences ss.                       *)
Flattens(h, ss, S) ==
  /\ h[0] = <<>>
  /\ \A n \in 1..Len(ss) : h[n] = h[n - 1] \o ss[n]
  /\ \A n \in 0..Len(ss) : h[n] \in Seq(S)
  /\ FlattenSeq(ss) = h[Len(ss)]

LEMMA FlattenRuns ==
  ASSUME NEW S, NEW ss \in Seq(Seq(S))
  PROVE  \E h : Flattens(h, ss, S)
<1> DEFINE N == Len(ss)
           T == Seq(S)
           Value(f, n) == IF n = 1 THEN ss[n] ELSE f[n - 1] \o ss[n]
<1>1. N \in Nat /\ \A n \in 1..N : ss[n] \in T
  BY LenProperties, ElementOfSeq
<1>2. PICK base : base = <<>> /\ base \in T
  <2>1. <<>> \in T
    OBVIOUS
  <2> QED  BY <2>1
<1>3. PICK next : /\ next \in [1..N -> [T -> T]]
                  /\ \A n \in 1..N : \A v \in T : next[n][v] = v \o ss[n]
  <2> DEFINE step == [n \in 1..N |-> [v \in T |-> v \o ss[n]]]
  <2>1. step \in [1..N -> [T -> T]]
    <3>1. \A n \in 1..N : \A v \in T : v \o ss[n] \in T
      <4> HIDE DEF N
      <4> QED  BY <1>1, ConcatProperties
    <3> HIDE DEF N, T
    <3> QED  BY <3>1
  <2>2. \A n \in 1..N : \A v \in T : step[n][v] = v \o ss[n]
    <3> HIDE DEF N, T
    <3> QED  OBVIOUS
  <2> HIDE DEF step, N, T
  <2> QED  BY <2>1, <2>2
<1>4. PICK g : RunsUpTo(g, N, T, base, next)
  <2> HIDE DEF N, T
  <2> QED  BY <1>1, <1>2, <1>3, RunUpToExists
<1>5. /\ g[0] = <<>> /\ \A n \in 0..N : g[n] \in T
      /\ \A n \in 1..N : g[n] = g[n - 1] \o ss[n]
  <2>1. g[0] = <<>> /\ \A n \in 0..N : g[n] \in T
    <3> HIDE DEF N, T
    <3> QED  BY <1>2, <1>4 DEF RunsUpTo
  <2>2. ASSUME NEW n \in 1..N PROVE g[n] = g[n - 1] \o ss[n]
    <3>1. n - 1 \in 0..N
      BY <1>1
    <3>2. g[n - 1] \in T /\ g[n] = next[n][g[n - 1]]
      <4> HIDE DEF N, T
      <4> QED  BY <1>4, <2>1, <3>1 DEF RunsUpTo
    <3> HIDE DEF N, T
    <3> QED  BY <1>3, <3>2
  <2> QED  BY <2>1, <2>2
<1>6. CASE N = 0
  <2>1. FlattenSeq(ss) = <<>>
    BY <1>6, EmptySeq DEF FlattenSeq
  <2> QED  BY <1>5, <1>6, <2>1 DEF Flattens
<1>7. CASE N # 0
  <2> DEFINE t == [n \in 1..N |-> g[n]]
             h == CHOOSE h : h = [n \in 1..N |-> Value(h, n)]
  <2>1. t = [n \in 1..N |-> Value(t, n)]
    <3> SUFFICES ASSUME NEW n \in 1..N PROVE g[n] = Value(t, n)
      <4> HIDE DEF Value, N
      <4> QED  OBVIOUS
    <3>1. CASE n = 1
      <4>1. <<>> \o ss[1] = ss[1]
        BY <1>1, <3>1, ConcatEmptySeq
      <4>2. g[n] = g[0] \o ss[n]
        <5>1. g[n] = g[n - 1] \o ss[n]
          BY <1>5
        <5> QED  BY <3>1, <5>1
      <4> QED  BY <1>5, <3>1, <4>1, <4>2
    <3>2. CASE n # 1
      <4>1. n - 1 \in 1..N
        BY <1>1, <3>2
      <4>2. t[n - 1] = g[n - 1]
        BY <4>1
      <4> QED  BY <1>5, <3>2, <4>2
    <3> QED  BY <3>1, <3>2
  <2>2. FlattenSeq(ss) = h[N]
    BY <1>7 DEF FlattenSeq
  <2>3. h = [n \in 1..N |-> Value(h, n)]
    BY <2>1
  <2> HIDE DEF h
  <2>4. \A n \in 1..N : h[n] = Value(h, n)
    <3> HIDE DEF N, Value
    <3> QED  BY <2>3, Zenon
  <2> DEFINE P == {n \in 0..N : n = 0 \/ h[n] = g[n]}
  <2>5. 0 \in P
    BY <1>1
  <2>6. ASSUME NEW n \in 1..N, n - 1 \in P PROVE n \in P
    <3>0. n \in 0..N
      BY <1>1
    <3>1. CASE n = 1
      <4>1. <<>> \o ss[1] = ss[1]
        BY <1>1, <3>1, ConcatEmptySeq
      <4>2. g[n] = g[0] \o ss[n]
        <5>1. g[n] = g[n - 1] \o ss[n]
          BY <1>5
        <5> QED  BY <3>1, <5>1
      <4>3. h[1] = ss[1]
        BY <2>4, <3>1
      <4> QED  BY <1>5, <3>0, <3>1, <4>1, <4>2, <4>3
    <3>2. CASE n # 1
      <4>1. h[n - 1] = g[n - 1]
        BY <2>6, <3>2
      <4>2. h[n] = h[n - 1] \o ss[n]
        BY <2>4, <3>2
      <4> QED  BY <1>5, <3>0, <4>1, <4>2
    <3> QED  BY <3>1, <3>2
  <2>7. \A n \in 0..N : n \in P
    <3> HIDE DEF P, N
    <3> QED  BY <1>1, <2>5, <2>6, InductionUpTo
  <2>8. h[N] = g[N]
    BY <1>1, <1>7, <2>7
  <2> QED  BY <1>5, <2>2, <2>8 DEF Flattens
<1> QED  BY <1>6, <1>7

LEMMA FlattenEmpty ==
  ASSUME NEW ss, ss = <<>>
  PROVE  FlattenSeq(ss) = <<>>
BY EmptySeq DEF FlattenSeq

LEMMA FlattenConcat ==
  ASSUME NEW S, NEW a \in Seq(Seq(S)), NEW b \in Seq(Seq(S))
  PROVE  /\ FlattenSeq(a) \in Seq(S) /\ FlattenSeq(b) \in Seq(S)
         /\ FlattenSeq(a \o b) = FlattenSeq(a) \o FlattenSeq(b)
<1> DEFINE c == a \o b
<1>1. /\ c \in Seq(Seq(S)) /\ Len(a) \in Nat /\ Len(b) \in Nat /\ Len(c) = Len(a) + Len(b)
      /\ \A n \in 1..Len(a) : c[n] = a[n]
      /\ \A n \in 1..Len(b) : c[Len(a) + n] = b[n]
      /\ \A n \in 1..Len(b) : b[n] \in Seq(S)
  BY ConcatProperties, LenProperties, ElementOfSeq
<1> HIDE DEF c
<1>2. PICK f : Flattens(f, a, S)
  BY FlattenRuns
<1>3. PICK g : Flattens(g, b, S)
  BY FlattenRuns
<1>4. PICK h : Flattens(h, c, S)
  BY <1>1, FlattenRuns
<1>5. PICK m \in Nat, k \in Nat : m = Len(a) /\ k = Len(b) /\ Len(c) = m + k
  BY <1>1
<1> DEFINE P == {n \in 0..m : h[n] = f[n]}
           Q == {n \in 0..k : h[m + n] = f[m] \o g[n]}
<1>6. 0 \in P
  BY <1>2, <1>4, <1>5 DEF Flattens
<1>7. ASSUME NEW n \in 1..m, n - 1 \in P PROVE n \in P
  <2>1. n \in 0..m /\ n \in 1..Len(a) /\ n \in 1..Len(c)
    BY <1>5
  <2>2. h[n] = h[n - 1] \o c[n] /\ f[n] = f[n - 1] \o a[n]
    BY <2>1, <1>2, <1>4 DEF Flattens
  <2> QED  BY <1>1, <1>7, <2>1, <2>2
<1>8. h[m] = f[m]
  <2>1. \A n \in 0..m : n \in P
    <3> HIDE DEF P
    <3> QED  BY <1>6, <1>7, InductionUpTo
  <2> QED  BY <2>1
<1>9. f[m] \in Seq(S) /\ g[k] \in Seq(S) /\ \A n \in 0..k : g[n] \in Seq(S)
  BY <1>2, <1>3, <1>5 DEF Flattens
<1>10. 0 \in Q
  <2>1. g[0] = <<>> /\ f[m] \o <<>> = f[m] /\ m + 0 = m /\ 0 \in 0..k
    BY <1>3, <1>9, ConcatEmptySeq DEF Flattens
  <2>2. h[m + 0] = f[m] \o g[0]
    BY <1>8, <2>1
  <2> QED  BY <2>1, <2>2
<1>11. ASSUME NEW n \in 1..k, n - 1 \in Q PROVE n \in Q
  <2>1. /\ n \in 0..k /\ n - 1 \in 0..k /\ n \in 1..Len(b) /\ m + n \in 1..Len(c)
        /\ m + n - 1 = m + (n - 1)
    BY <1>5
  <2>2. h[m + n] = h[m + (n - 1)] \o c[m + n] /\ g[n] = g[n - 1] \o b[n]
    <3>1. PICK q : q = m + n
      OBVIOUS
    <3>2. q \in 1..Len(c) /\ q - 1 = m + (n - 1)
      BY <2>1, <3>1
    <3>3. h[q] = h[q - 1] \o c[q]
      BY <3>2, <1>4 DEF Flattens
    <3>4. g[n] = g[n - 1] \o b[n]
      BY <2>1, <1>3 DEF Flattens
    <3> QED  BY <3>1, <3>2, <3>3, <3>4
  <2>3. c[m + n] = b[n] /\ h[m + (n - 1)] = f[m] \o g[n - 1]
    BY <1>1, <1>5, <1>11, <2>1
  <2>4. (f[m] \o g[n - 1]) \o b[n] = f[m] \o (g[n - 1] \o b[n])
    <3>1. f[m] \in Seq(S) /\ g[n - 1] \in Seq(S) /\ b[n] \in Seq(S)
      BY <1>1, <1>9, <2>1
    <3>2. Associates(f[m], g[n - 1], b[n])
      BY <3>1, Association
    <3> QED  BY <3>2 DEF Associates
  <2>5. h[m + n] = f[m] \o g[n]
    BY <2>2, <2>3, <2>4
  <2> QED  BY <2>1, <2>5
<1>12. h[m + k] = f[m] \o g[k]
  <2>1. \A n \in 0..k : n \in Q
    <3> HIDE DEF Q
    <3> QED  BY <1>10, <1>11, InductionUpTo
  <2>2. k \in Q
    <3> HIDE DEF Q
    <3> QED  BY <2>1
  <2> QED  BY <2>2
<1>13. FlattenSeq(a) = f[m] /\ FlattenSeq(b) = g[k] /\ FlattenSeq(c) = h[m + k]
  BY <1>2, <1>3, <1>4, <1>5 DEF Flattens
<1> QED  BY <1>9, <1>12, <1>13 DEF c

LEMMA FlattenOne ==
  ASSUME NEW S, NEW s \in Seq(S)
  PROVE  <<s>> \in Seq(Seq(S)) /\ FlattenSeq(<<s>>) = s
<1>1. <<s>> \in Seq(Seq(S)) /\ Len(<<s>>) = 1 /\ <<s>>[1] = s
  OBVIOUS
<1>2. PICK h : Flattens(h, <<s>>, S)
  BY <1>1, FlattenRuns
<1>3. h[1] = h[1 - 1] \o s /\ 1 - 1 = 0
  <2> PICK n : n = 1
    OBVIOUS
  <2>1. n \in 1..Len(<<s>>) /\ n - 1 = 0
    BY <1>1
  <2>2. h[n] = h[n - 1] \o <<s>>[n]
    BY <1>2, <2>1 DEF Flattens
  <2> QED  BY <1>1, <2>2
<1> QED  BY <1>1, <1>2, <1>3, ConcatEmptySeq DEF Flattens

LEMMA FlattenAppend ==
  ASSUME NEW S, NEW ss \in Seq(Seq(S)), NEW s \in Seq(S)
  PROVE  FlattenSeq(ss) \in Seq(S) /\ FlattenSeq(Append(ss, s)) = FlattenSeq(ss) \o s
<1>1. <<s>> \in Seq(Seq(S)) /\ FlattenSeq(<<s>>) = s
  BY FlattenOne
<1>2. Append(ss, s) = ss \o <<s>>
  BY AppendIsConcat
<1> QED  BY <1>1, <1>2, FlattenConcat

(* Sequences of one element each, and of none.                             *)
LEMMA FlattenSingles ==
  ASSUME NEW S, NEW p \in Seq(Seq(S)), NEW s \in Seq(S), Len(p) = Len(s),
         \A n \in 1..Len(s) : p[n] = <<s[n]>>
  PROVE  FlattenSeq(p) = s
<1>1. PICK h : Flattens(h, p, S)
  BY FlattenRuns
<1>2. PICK m \in Nat : m = Len(s) /\ \A n \in 1..m : s[n] \in S
  BY LenProperties, ElementOfSeq
<1> DEFINE P == {n \in 0..m : h[n] = SubSeq(s, 1, n)}
<1>3. 0 \in P
  <2>1. SubSeq(s, 1, 0) = <<>>
    BY <1>2, SubSeqProperties, EmptySeq
  <2> QED  BY <1>1, <1>2, <2>1 DEF Flattens
<1>4. ASSUME NEW n \in 1..m, n - 1 \in P PROVE n \in P
  <2>1. h[n] = h[n - 1] \o p[n] /\ p[n] = <<s[n]>> /\ n \in 0..m
    <3>1. n \in 1..Len(p) /\ n \in 1..Len(s)
      BY <1>2
    <3>2. h[n] = h[n - 1] \o p[n]
      BY <3>1, <1>1, Zenon DEF Flattens
    <3> QED  BY <3>1, <3>2
  <2>2. SubSeq(s, 1, n - 1) \o <<s[n]>> = SubSeq(s, 1, n)
    <3>1. SubSeq(s, 1, n) = Append(SubSeq(s, 1, n - 1), s[n])
      BY <1>2, SubSeqRecursiveSecond
    <3>2. SubSeq(s, 1, n - 1) \in Seq(S)
      BY <1>2, SubSeqProperties
    <3> QED  BY <1>2, <3>1, <3>2, AppendIsConcat
  <2> QED  BY <1>4, <2>1, <2>2
<1>5. m \in P
  <2>1. \A n \in 0..m : n \in P
    <3> HIDE DEF P
    <3> QED  BY <1>3, <1>4, InductionUpTo
  <2> HIDE DEF P
  <2> QED  BY <2>1
<1>6. SubSeq(s, 1, m) = s
  BY <1>2, SubSeqFull
<1> QED  BY <1>1, <1>2, <1>5, <1>6 DEF Flattens

LEMMA FlattenNothing ==
  ASSUME NEW S, NEW p \in Seq(Seq(S)), \A n \in 1..Len(p) : p[n] = <<>>
  PROVE  FlattenSeq(p) = <<>>
<1>1. PICK h : Flattens(h, p, S)
  BY FlattenRuns
<1>2. PICK m \in Nat : m = Len(p)
  BY LenProperties
<1> DEFINE P == {n \in 0..m : h[n] = <<>>}
<1>3. 0 \in P
  BY <1>1, <1>2 DEF Flattens
<1>4. ASSUME NEW n \in 1..m, n - 1 \in P PROVE n \in P
  <2>1. h[n] = h[n - 1] \o p[n] /\ p[n] = <<>> /\ n \in 0..m
    <3>1. n \in 1..Len(p)
      BY <1>2
    <3>2. h[n] = h[n - 1] \o p[n]
      BY <3>1, <1>1, Zenon DEF Flattens
    <3> QED  BY <3>1, <3>2
  <2> QED  BY <1>4, <2>1
<1>5. m \in P
  <2>1. \A n \in 0..m : n \in P
    <3> HIDE DEF P
    <3> QED  BY <1>3, <1>4, InductionUpTo
  <2> HIDE DEF P
  <2> QED  BY <2>1
<1> QED  BY <1>1, <1>2, <1>5 DEF Flattens

(* A function on 1..n is flattened up to m, and from there.                *)
InParts(f, n, g, m, h, k, S) ==
  /\ m \in Nat /\ k \in Nat /\ n = m + k
  /\ f \in [1..n -> Seq(S)] /\ g \in [1..m -> Seq(S)] /\ h \in [1..k -> Seq(S)]
  /\ \A i \in 1..m : g[i] = f[i]
  /\ \A i \in 1..k : h[i] = f[m + i]

LEMMA FlattenSplit ==
  ASSUME NEW S, NEW f, NEW n, NEW g, NEW m, NEW h, NEW k, InParts(f, n, g, m, h, k, S)
  PROVE  /\ FlattenSeq(g) \in Seq(S) /\ FlattenSeq(h) \in Seq(S)
         /\ FlattenSeq(f) = FlattenSeq(g) \o FlattenSeq(h)
<1> USE DEF InParts
<1>1. /\ f \in Seq(Seq(S)) /\ Len(f) = n
      /\ g \in Seq(Seq(S)) /\ Len(g) = m
      /\ h \in Seq(Seq(S)) /\ Len(h) = k
  <2>1. n \in Nat
    OBVIOUS
  <2> QED  BY <2>1, FunctionIsSeq
<1>2. PICK c : c = g \o h
  OBVIOUS
<1>3. /\ c \in Seq(Seq(S)) /\ Len(c) = n
      /\ \A i \in 1..m : c[i] = g[i]
      /\ \A i \in 1..k : c[m + i] = h[i]
  <2>1. /\ c \in Seq(Seq(S)) /\ Len(c) = Len(g) + Len(h)
        /\ \A i \in 1..(Len(g) + Len(h)) :
              c[i] = IF i <= Len(g) THEN g[i] ELSE h[i - Len(g)]
    BY <1>1, <1>2, ConcatProperties, Zenon
  <2>2. \A i \in 1..m : i \in 1..n /\ i <= m
    OBVIOUS
  <2>3. \A i \in 1..k : m + i \in 1..n /\ ~(m + i <= m) /\ (m + i) - m = i
    OBVIOUS
  <2> QED  BY <1>1, <2>1, <2>2, <2>3
<1>4. \A i \in 1..n : c[i] = f[i]
  <2> TAKE i \in 1..n
  <2>1. CASE i \in 1..m
    BY <1>3, <2>1
  <2>2. CASE i \notin 1..m
    <3>1. i - m \in 1..k /\ m + (i - m) = i
      BY <2>2
    <3>2. c[m + (i - m)] = h[i - m] /\ h[i - m] = f[m + (i - m)]
      BY <1>3, <3>1
    <3> QED  BY <3>1, <3>2
  <2> QED  BY <2>1, <2>2
<1>5. f = g \o h
  BY <1>1, <1>2, <1>3, <1>4, SeqEqual
<1> QED  BY <1>1, <1>5, FlattenConcat

OneMore(f, m, g, n, S) ==
  /\ n \in Nat /\ m = n + 1
  /\ f \in [1..m -> Seq(S)] /\ g \in [1..n -> Seq(S)]
  /\ \A k \in 1..n : g[k] = f[k]

LEMMA FlattenGrows ==
  ASSUME NEW S, NEW f, NEW m, NEW g, NEW n, OneMore(f, m, g, n, S)
  PROVE  FlattenSeq(g) \in Seq(S) /\ FlattenSeq(f) = FlattenSeq(g) \o f[m]
<1> USE DEF OneMore
<1>1. m \in 1..m
  OBVIOUS
<1>2. PICK s \in Seq(S) : s = f[m]
  BY <1>1
<1>3. PICK h : h = <<s>>
  OBVIOUS
<1>4. h \in [1..1 -> Seq(S)] /\ \A i \in 1..1 : h[i] = f[n + i]
  BY <1>2, <1>3
<1>5. FlattenSeq(h) = s
  BY <1>3, FlattenOne
<1>6. FlattenSeq(g) \in Seq(S) /\ FlattenSeq(f) = FlattenSeq(g) \o FlattenSeq(h)
  <2>1. InParts(f, m, g, n, h, 1, S)
    BY <1>4 DEF InParts
  <2> QED  BY <2>1, FlattenSplit
<1> QED  BY <1>2, <1>5, <1>6

(* Prefixes.                                                               *)
LEMMA PrefixOfConcat ==
  ASSUME NEW S, NEW s \in Seq(S), NEW t \in Seq(S)
  PROVE  IsPrefix(s, s \o t)
<1>1. Len(s) \in Nat /\ Len(t) \in Nat /\ Len(s \o t) = Len(s) + Len(t)
  BY LenProperties, ConcatProperties
<1>2. SubSeq(s \o t, 1, Len(s)) = SubSeq(s, 1, Len(s))
  BY <1>1, SubSeqOfConcat1
<1> QED  BY <1>1, <1>2 DEF IsPrefix

LEMMA PrefixExtended ==
  ASSUME NEW S, NEW s \in Seq(S), NEW t \in Seq(S), IsPrefix(s, t)
  PROVE  \E u \in Seq(S) : t = s \o u /\ Len(u) = Len(t) - Len(s)
<1>1. PICK m \in Nat, n \in Nat : m = Len(s) /\ n = Len(t) /\ m <= n
  BY LenProperties DEF IsPrefix
<1>2. SubSeq(t, 1, m) = s
  BY <1>1, SubSeqFull DEF IsPrefix
<1>3. SubSeq(t, 1, m) \o SubSeq(t, m + 1, n) = SubSeq(t, 1, n) /\ SubSeq(t, 1, n) = t
  <2>1. 1 \in 1..(Len(t) + 1) /\ m \in (1 - 1)..Len(t) /\ n \in m..Len(t)
    BY <1>1
  <2> QED  BY <1>1, <2>1, ConcatAdjacentSubSeq, SubSeqFull
<1>4. SubSeq(t, m + 1, n) \in Seq(S) /\ Len(SubSeq(t, m + 1, n)) = n - m
  BY <1>1, SubSeqProperties
<1> QED  BY <1>1, <1>2, <1>3, <1>4

LEMMA PrefixKept ==
  ASSUME NEW S, NEW s \in Seq(S), NEW t \in Seq(S), NEW u \in Seq(S), IsPrefix(s, t)
  PROVE  IsPrefix(s, t \o u)
<1>1. PICK v \in Seq(S) : t = s \o v
  BY PrefixExtended
<1>2. t \o u = s \o (v \o u) /\ v \o u \in Seq(S)
  BY <1>1, ConcatAssociative, ConcatProperties
<1> QED  BY <1>2, PrefixOfConcat
=============================================================================
