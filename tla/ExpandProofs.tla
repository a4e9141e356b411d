---------------------------- MODULE ExpandProofs ----------------------------
(***************************************************************************)
(* Proofs about Expand: the limit on the stack refuses exactly the strings *)
(* in which Cap references are nested, and the loop prints what recursion  *)
(* would.                                                                  *)
(***************************************************************************)
EXTENDS Expand, Recursion

-----------------------------------------------------------------------------
TypeInv ==
  /\ job \in Job
  /\ stack \in Seq(Str)
  /\ out \in Seq(Lit)
  /\ status \in {"running", "done", "max recursion", "undefined variable"}

(* A chain of Cap references, each in the value of the one before it.      *)
IsChain(c) ==
  /\ c[0] \in Refs(job.str)
  /\ \A i \in 1..(Cap - 1) : c[i] \in ValueRefs(c[i - 1])

Chain == {c \in [0..(Cap - 1) -> Var] : IsChain(c)}

(* A string of the stack refers only to what is nested as deep as it lies. *)
Nested == \A k \in 1..Len(stack) : Refs(stack[k]) \subseteq RefsAt[k - 1]

(* Of a chain of Cap references one is still to be met, at its own depth:  *)
(* the stack does not run empty before.                                    *)
ChainAhead ==
  status = "running" =>
    \A c \in Chain : \E k \in 1..Len(stack) : c[k - 1] \in Refs(stack[k])

LimitInv ==
  /\ TypeInv
  /\ Len(stack) <= Cap
  /\ Nested
  /\ ChainAhead
  /\ status = "max recursion" => RefsAt[Cap - 1] # {}
  /\ status = "done" => Chain = {}

-----------------------------------------------------------------------------
(* Strings and what they refer to.                                         *)

LEMMA MarkFound ==
  ASSUME NEW s \in Str, ~Plain(s)
  PROVE  /\ FirstMark(s) \in 1..Len(s)
         /\ Mark(s) \in Var \cup {Escape}
         /\ \A k \in 1..(FirstMark(s) - 1) : s[k] \in Lit
<1> DEFINE T == {i \in 1..Len(s) : s[i] \notin Lit}
           First(i) == s[i] \notin Lit /\ \A k \in 1..(i - 1) : s[k] \in Lit
<1>1. Len(s) \in Nat /\ DOMAIN s = 1..Len(s) /\ \A i \in 1..Len(s) : s[i] \in Lit \cup {Escape} \cup Var
  BY DEF Str
<1>2. T \in SUBSET Nat /\ T # {}
  BY <1>1 DEF Plain
<1>3. PICK m \in T : \A k \in T : m <= k
  <2> HIDE DEF T
  <2> QED  BY <1>2, LeastNat
<1>4. m \in DOMAIN s /\ First(m)
  <2> SUFFICES ASSUME NEW k \in 1..(m - 1) PROVE k \in 1..Len(s) /\ ~(m <= k)
    BY <1>1, <1>3
  <2> QED  BY <1>1, <1>3
<1>5. FirstMark(s) = CHOOSE i \in DOMAIN s : First(i)
  BY DEF FirstMark
<1>6. FirstMark(s) \in DOMAIN s /\ First(FirstMark(s))
  <2> HIDE DEF First
  <2> QED  BY <1>4, <1>5
<1> QED  BY <1>1, <1>6 DEF Mark

LEMMA PlainRefersToNothing ==
  ASSUME NEW s, Plain(s)
  PROVE  Refs(s) = {}
BY ExpandAssumption DEF Plain, Refs

(* A string is its literals, its first mark and what follows.              *)
LEMMA Parts ==
  ASSUME NEW s \in Str, ~Plain(s)
  PROVE  /\ Before(s) \in Seq(Lit) /\ Len(Before(s)) = FirstMark(s) - 1
         /\ \A k \in 1..(FirstMark(s) - 1) : Before(s)[k] = s[k]
         /\ After(s) \in Str /\ Len(After(s)) = Len(s) - FirstMark(s)
         /\ \A k \in 1..(Len(s) - FirstMark(s)) : After(s)[k] = s[FirstMark(s) + k]
         /\ Refs(s) = Refs(After(s)) \cup ({Mark(s)} \cap Var)
<1> DEFINE m == FirstMark(s)
           A == Lit \cup {Escape} \cup Var
<1>1. Len(s) \in Nat /\ DOMAIN s = 1..Len(s) /\ s \in Seq(A) /\ \A i \in 1..Len(s) : s[i] \in A
  BY DEF Str
<1>2. m \in 1..Len(s) /\ Mark(s) = s[m] /\ \A k \in 1..(m - 1) : s[k] \in Lit
  BY MarkFound DEF Mark
<1> HIDE DEF m
<1>3. Before(s) = SubSeq(s, 1, m - 1) /\ After(s) = SubSeq(s, m + 1, Len(s))
  BY DEF m, Before, After
<1>4. /\ Before(s) \in Seq(Lit) /\ Len(Before(s)) = m - 1
      /\ \A k \in 1..(m - 1) : Before(s)[k] = s[k]
  <2>1. Before(s) = [k \in 1..(m - 1) |-> s[k]]
    BY <1>1, <1>2, <1>3
  <2>2. Before(s) \in [1..(m - 1) -> Lit] /\ m - 1 \in Nat
    BY <1>1, <1>2, <2>1
  <2>3. \A k \in 1..(m - 1) : Before(s)[k] = s[k]
    BY <2>1
  <2> QED  BY <2>2, <2>3, FunctionIsSeq
<1>5. /\ After(s) \in Seq(A) /\ DOMAIN After(s) = 1..(Len(s) - m) /\ Len(After(s)) = Len(s) - m
      /\ \A k \in 1..(Len(s) - m) : After(s)[k] = s[m + k]
  <2>1. /\ After(s) \in Seq(A) /\ DOMAIN After(s) = 1..(Len(s) - m)
        /\ \A k \in 1..(Len(s) - m) : After(s)[k] = s[m + k]
    <3> HIDE DEF A
    <3> QED  BY <1>1, <1>2, <1>3
  <2>2. Len(After(s)) \in Nat /\ DOMAIN After(s) = 1..Len(After(s)) /\ Len(s) - m \in Nat
    <3>1. Len(s) - m \in Nat
      BY <1>1, <1>2
    <3>2. PICK t : t = After(s)
      OBVIOUS
    <3>3. t \in Seq(A)
      BY <2>1, <3>2
    <3>4. Len(t) \in Nat /\ DOMAIN t = 1..Len(t)
      <4> HIDE DEF A
      <4> QED  BY <3>3, LenProperties
    <3> QED  BY <3>1, <3>2, <3>4
  <2>3. \A x, y \in Nat : 1..x = 1..y => x = y
    OBVIOUS
  <2> HIDE DEF A
  <2> QED  BY <2>1, <2>2, <2>3
<1>6. {s[i] : i \in 1..Len(s)} \cap Var
        = ({After(s)[k] : k \in 1..(Len(s) - m)} \cap Var) \cup ({s[m]} \cap Var)
  <2>1. ASSUME NEW i \in 1..Len(s), s[i] \in Var
        PROVE  s[i] \in {After(s)[k] : k \in 1..(Len(s) - m)} \cup {s[m]}
    <3>1. CASE i < m
      BY <1>1, <1>2, <2>1, <3>1, ExpandAssumption
    <3>2. CASE i = m
      BY <3>2
    <3>3. CASE i > m
      <4>1. i - m \in 1..(Len(s) - m) /\ m + (i - m) = i
        BY <1>1, <1>2, <3>3
      <4> QED  BY <1>5, <4>1
    <3> QED  BY <1>2, <3>1, <3>2, <3>3
  <2>2. \A k \in 1..(Len(s) - m) : m + k \in 1..Len(s)
    BY <1>1, <1>2
  <2> QED  BY <1>2, <1>5, <2>1, <2>2
<1>7. Refs(s) = Refs(After(s)) \cup ({Mark(s)} \cap Var)
  BY <1>1, <1>2, <1>5, <1>6 DEF Refs
<1>8. After(s) \in Str
  BY <1>5 DEF Str
<1> QED  BY <1>4, <1>5, <1>7, <1>8 DEF m

LEMMA LookupTyped ==
  ASSUME job \in Job, NEW v \in Var
  PROVE  /\ Lookup(job, v) \in Str \cup {Undefined}
         /\ ValueRefs(v) \subseteq Var
         /\ Lookup(job, v) # Undefined => ValueRefs(v) = Refs(Lookup(job, v))
<1>1. job.global[v] \in Str \cup {Undefined} /\ job.env[v] \in Str \cup {Undefined}
  BY DEF Job, Env
<1> QED  BY <1>1 DEF Lookup, ValueRefs, Refs

(* The levels of reference have their equations.                           *)
LEMMA RefsAtStep ==
  ASSUME job \in Job
  PROVE  /\ RefsAt \in [Nat -> SUBSET Var]
         /\ RefsAt[0] = Refs(job.str)
         /\ \A n \in Nat : RefsAt[n + 1] = UNION {ValueRefs(v) : v \in RefsAt[n]}
<1> DEFINE S == SUBSET Var
           Referred(V) == UNION {ValueRefs(v) : v \in V}
           Value(f, n) == IF n = 0 THEN Refs(job.str) ELSE Referred(f[n - 1])
<1>1. \A V \in S : Referred(V) \in S
  BY LookupTyped
<1>2. PICK base : base = Refs(job.str)
  OBVIOUS
<1>3. PICK next : next = [n \in Nat |-> [V \in S |-> Referred(V)]]
  OBVIOUS
<1>4. base \in S /\ next \in [Nat -> [S -> S]]
  <2>1. base \in S
    BY <1>2 DEF Refs
  <2> HIDE DEF Referred, S
  <2> QED  BY <1>1, <1>3, <2>1
<1>5. PICK f \in [Nat -> S] : f[0] = base /\ \A n \in Nat : f[n + 1] = next[n][f[n]]
  <2>1. PICK f : Runs(f, S, base, next)
    <3> HIDE DEF S
    <3> QED  BY <1>4, RunExists
  <2> QED  BY <2>1 DEF Runs
<1>6. f = [n \in Nat |-> Value(f, n)]
  <2> HIDE DEF Referred, S
  <2> SUFFICES ASSUME NEW n \in Nat PROVE f[n] = Value(f, n)
    BY <1>5
  <2>1. CASE n = 0
    BY <1>2, <1>5, <2>1
  <2>2. CASE n # 0
    <3>1. n - 1 \in Nat /\ n - 1 + 1 = n
      BY <2>2
    <3>2. f[n] = next[n - 1][f[n - 1]] /\ f[n - 1] \in S
      BY <1>5, <3>1
    <3> QED  BY <1>3, <2>2, <3>1, <3>2
  <2> QED  BY <2>1, <2>2
<1> DEFINE h == CHOOSE h : h = [n \in Nat |-> Value(h, n)]
<1>7. RefsAt = h
  BY DEF RefsAt
<1>8. h = [n \in Nat |-> Value(h, n)]
  <2> HIDE DEF Value
  <2> QED  BY <1>6
<1> HIDE DEF h
<1>9. \A n \in Nat : h[n] = Value(h, n)
  <2> HIDE DEF Value
  <2> QED  BY <1>8, Zenon
<1>10. h[0] = Refs(job.str) /\ \A n \in Nat : h[n + 1] = Referred(h[n])
  <2> HIDE DEF Referred
  <2>1. \A n \in Nat : n + 1 \in Nat /\ n + 1 # 0 /\ n + 1 - 1 = n
    OBVIOUS
  <2> QED  BY <1>9, <2>1
<1>11. \A n \in Nat : h[n] \in S
  <2> DEFINE P == {n \in Nat : h[n] \in S}
  <2>1. 0 \in P
    BY <1>2, <1>4, <1>10
  <2>2. \A n \in Nat : n \in P => n + 1 \in P
    <3> HIDE DEF Referred, S
    <3> QED  BY <1>1, <1>10
  <2>3. \A n \in Nat : n \in P
    <3> HIDE DEF P
    <3> QED  BY <2>1, <2>2, InductionNat
  <2> QED  BY <2>3
<1>12. h \in [Nat -> S]
  <2> HIDE DEF S, Value
  <2> QED  BY <1>8, <1>11
<1> QED  BY <1>7, <1>10, <1>12

(* What is nested n deep is at the end of a chain.                         *)
LEMMA ChainsExist ==
  ASSUME job \in Job, RefsAt[Cap - 1] # {}
  PROVE  Chain # {}
<1> DEFINE Links(c, n) == /\ c[0] \in Refs(job.str)
                          /\ \A i \in 1..n : c[i] \in ValueRefs(c[i - 1])
           P == {n \in Nat : \A v \in RefsAt[n] : \E c \in [0..n -> Var] : c[n] = v /\ Links(c, n)}
<1>1. 0 \in P
  <2> SUFFICES ASSUME NEW v \in RefsAt[0]
               PROVE  \E c \in [0..0 -> Var] : c[0] = v /\ Links(c, 0)
    OBVIOUS
  <2> DEFINE c == [i \in 0..0 |-> v]
  <2>1. v \in Refs(job.str) /\ v \in Var
    BY RefsAtStep DEF Refs
  <2>2. c \in [0..0 -> Var] /\ c[0] = v /\ Links(c, 0)
    BY <2>1
  <2> HIDE DEF Links, c
  <2> QED  BY <2>2
<1>2. ASSUME NEW n \in Nat, n \in P PROVE n + 1 \in P
  <2> SUFFICES ASSUME NEW v \in RefsAt[n + 1]
               PROVE  \E c \in [0..(n + 1) -> Var] : c[n + 1] = v /\ Links(c, n + 1)
    OBVIOUS
  <2>1. PICK u \in RefsAt[n] : v \in ValueRefs(u)
    BY RefsAtStep
  <2>2. u \in Var /\ v \in Var
    BY RefsAtStep, LookupTyped, <2>1
  <2>3. PICK c \in [0..n -> Var] : c[n] = u /\ Links(c, n)
    BY <1>2
  <2> DEFINE d == [i \in 0..(n + 1) |-> IF i = n + 1 THEN v ELSE c[i]]
  <2>4. d \in [0..(n + 1) -> Var] /\ d[n + 1] = v
    BY <2>2
  <2>5. Links(d, n + 1)
    <3>1. d[0] = c[0]
      OBVIOUS
    <3>2. ASSUME NEW i \in 1..(n + 1) PROVE d[i] \in ValueRefs(d[i - 1])
      <4>1. CASE i = n + 1
        <5>1. d[i] = v /\ d[i - 1] = c[n]
          BY <4>1
        <5> QED  BY <2>1, <2>3, <5>1
      <4>2. CASE i # n + 1
        <5>1. i \in 1..n /\ d[i] = c[i] /\ d[i - 1] = c[i - 1]
          BY <4>2
        <5> QED  BY <2>3, <5>1
      <4> QED  BY <4>1, <4>2
    <3> HIDE DEF d
    <3> QED  BY <2>3, <3>1, <3>2
  <2> HIDE DEF Links, d
  <2> QED  BY <2>4, <2>5
<1>3. \A n \in Nat : n \in P
  <2>1. PICK Q : Q = P
    OBVIOUS
  <2> HIDE DEF P
  <2> QED  BY <1>1, <1>2, <2>1, InductionNat
<1>4. Cap - 1 \in Nat
  BY ExpandAssumption
<1>5. PICK v : v \in RefsAt[Cap - 1]
  OBVIOUS
<1>6. PICK c \in [0..(Cap - 1) -> Var] : Links(c, Cap - 1)
  BY <1>3, <1>4, <1>5
<1> QED  BY <1>6 DEF Chain, IsChain

-----------------------------------------------------------------------------
(* A stack s without its top, and t, the stack with x, or with x and then  *)
(* y, in the place of the top.                                             *)
Bottom(s) == SubSeq(s, 1, Len(s) - 1)

Replaced(t, s, x, S) ==
  /\ t \in Seq(S) /\ Len(t) = Len(s)
  /\ t[Len(s)] = x
  /\ \A k \in 1..(Len(s) - 1) : t[k] = s[k]

Pushed(t, s, x, y, S) ==
  /\ t \in Seq(S) /\ Len(t) = Len(s) + 1
  /\ t[Len(s)] = x /\ t[Len(s) + 1] = y
  /\ \A k \in 1..(Len(s) - 1) : t[k] = s[k]

LEMMA StackParts ==
  ASSUME NEW S, NEW s \in Seq(S), s # <<>>
  PROVE  /\ Len(s) \in Nat \ {0}
         /\ Bottom(s) \in Seq(S) /\ Len(Bottom(s)) = Len(s) - 1
         /\ \A k \in 1..(Len(s) - 1) : Bottom(s)[k] = s[k]
         /\ s[Len(s)] \in S
<1> DEFINE n == Len(s)
<1>1. n \in Nat \ {0} /\ \A k \in 1..n : s[k] \in S
  BY EmptySeq, LenProperties, ElementOfSeq
<1>2. Bottom(s) = [k \in 1..(n - 1) |-> s[k]]
  BY DEF Bottom
<1>3. Bottom(s) \in [1..(n - 1) -> S] /\ n - 1 \in Nat /\ n \in 1..n
  BY <1>1, <1>2
<1> HIDE DEF n
<1>4. Bottom(s) \in Seq(S) /\ Len(Bottom(s)) = n - 1
  BY <1>3, FunctionIsSeq
<1>5. \A k \in 1..(n - 1) : Bottom(s)[k] = s[k]
  BY <1>2
<1> QED  BY <1>1, <1>3, <1>4, <1>5 DEF n

LEMMA TopReplaced ==
  ASSUME NEW S, NEW s \in Seq(S), s # <<>>, NEW x \in S, NEW y \in S
  PROVE  /\ Replaced(Append(Bottom(s), x), s, x, S)
         /\ Pushed(Bottom(s) \o <<x, y>>, s, x, y, S)
<1> DEFINE one == Append(Bottom(s), x)
           two == Bottom(s) \o <<x, y>>
<1>1. /\ Len(s) \in Nat \ {0} /\ Bottom(s) \in Seq(S) /\ Len(Bottom(s)) = Len(s) - 1
      /\ \A k \in 1..(Len(s) - 1) : Bottom(s)[k] = s[k]
  BY StackParts
<1>2. /\ one \in Seq(S) /\ Len(one) = Len(s)
      /\ one[Len(s)] = x /\ \A k \in 1..(Len(s) - 1) : one[k] = s[k]
  BY <1>1
<1>3. <<x, y>> \in Seq(S) /\ Len(<<x, y>>) = 2 /\ <<x, y>>[1] = x /\ <<x, y>>[2] = y
  OBVIOUS
<1>4. /\ two \in Seq(S) /\ Len(two) = Len(s) + 1
      /\ two[Len(s)] = x /\ two[Len(s) + 1] = y
      /\ \A k \in 1..(Len(s) - 1) : two[k] = s[k]
  BY <1>1, <1>3
<1> HIDE DEF one, two
<1> QED  BY <1>2, <1>4 DEF Replaced, Pushed, one, two

LEMMA CapPositive == Cap \in Nat /\ Cap - 1 \in Nat
BY ExpandAssumption

-----------------------------------------------------------------------------
LEMMA LimitInit ==
  ASSUME Init
  PROVE  LimitInv
<1>1. job \in Job /\ job.str \in Str
  BY ExpandAssumption DEF Init, Job
<1>2. stack = <<job.str>> /\ out = <<>> /\ status = "running"
  BY DEF Init
<1>3. TypeInv /\ Len(stack) <= Cap
  BY <1>1, <1>2, ExpandAssumption DEF TypeInv
<1>4. Nested
  BY <1>1, <1>2, RefsAtStep DEF Nested
<1>5. ChainAhead
  <2> SUFFICES ASSUME NEW c \in Chain
               PROVE  \E k \in 1..Len(stack) : c[k - 1] \in Refs(stack[k])
    BY DEF ChainAhead
  <2>1. c[0] \in Refs(job.str)
    BY DEF Chain, IsChain
  <2>2. 1 \in 1..Len(stack) /\ stack[1] = job.str /\ 1 - 1 = 0
    BY <1>2
  <2> QED  BY <2>1, <2>2
<1> QED  BY <1>2, <1>3, <1>4, <1>5 DEF LimitInv

(* What depends on the job alone stays.                                    *)
LEMMA JobStays ==
  ASSUME job' = job
  PROVE  RefsAt' = RefsAt /\ Chain' = Chain
BY DEF RefsAt, Chain, IsChain, ValueRefs, Lookup

LEMMA LimitPlain ==
  ASSUME LimitInv, PrintPlain
  PROVE  LimitInv'
<1>1. /\ stack \in Seq(Str) /\ out \in Seq(Lit) /\ job \in Job /\ status = "running"
      /\ stack # <<>> /\ Plain(Top) /\ out' = out \o Top /\ stack' = Below
      /\ job' = job /\ status' = status
  BY DEF LimitInv, TypeInv, PrintPlain
<1>2. /\ Len(stack) \in Nat \ {0} /\ stack' \in Seq(Str) /\ Len(stack') = Len(stack) - 1
      /\ \A k \in 1..(Len(stack) - 1) : stack'[k] = stack[k]
      /\ Top \in Str
  <2>1. stack' = Bottom(stack)
    BY <1>1 DEF Below, Bottom
  <2> HIDE DEF Str
  <2> QED  BY <1>1, <2>1, StackParts DEF Top
<1>3. Top \in Seq(Lit)
  <2>1. Len(Top) \in Nat /\ Top = [i \in 1..Len(Top) |-> Top[i]] /\ DOMAIN Top = 1..Len(Top)
    BY <1>2 DEF Str
  <2>2. Top \in [1..Len(Top) -> Lit]
    BY <1>1, <2>1 DEF Plain
  <2> QED  BY <2>1, <2>2, FunctionIsSeq
<1>4. TypeInv'
  BY <1>1, <1>2, <1>3 DEF TypeInv, LimitInv
<1>5. RefsAt' = RefsAt /\ Chain' = Chain
  BY <1>1, JobStays
<1>6. Len(stack') <= Cap
  <2>1. Len(stack) <= Cap
    BY DEF LimitInv
  <2> QED  BY <1>2, <2>1, CapPositive
<1>7. Nested'
  <2> SUFFICES ASSUME NEW k \in 1..Len(stack') PROVE Refs(stack'[k]) \subseteq RefsAt[k - 1]
    BY <1>5 DEF Nested, Refs
  <2>1. k \in 1..Len(stack) /\ stack'[k] = stack[k]
    BY <1>2
  <2> QED  BY <2>1 DEF Nested, LimitInv
<1>8. ChainAhead'
  <2> SUFFICES ASSUME NEW c \in Chain
               PROVE  \E k \in 1..Len(stack') : c[k - 1] \in Refs(stack'[k])
    BY <1>5 DEF ChainAhead, Refs
  <2>1. PICK k \in 1..Len(stack) : c[k - 1] \in Refs(stack[k])
    BY <1>1 DEF ChainAhead, LimitInv
  <2>2. k # Len(stack)
    BY <1>1, <2>1, PlainRefersToNothing DEF Top
  <2>3. k \in 1..Len(stack') /\ stack'[k] = stack[k]
    BY <1>2, <2>2
  <2> QED  BY <2>1, <2>3
<1> QED  BY <1>1, <1>4, <1>6, <1>7, <1>8 DEF LimitInv

LEMMA LimitDollar ==
  ASSUME LimitInv, PrintDollar
  PROVE  LimitInv'
<1>1. /\ stack \in Seq(Str) /\ out \in Seq(Lit) /\ job \in Job /\ status = "running"
      /\ stack # <<>> /\ ~Plain(Top) /\ Mark(Top) = Escape
      /\ out' = out \o Append(Before(Top), Dollar) /\ stack' = Append(Below, After(Top))
      /\ job' = job /\ status' = status
  BY DEF LimitInv, TypeInv, PrintDollar
<1>2. Len(stack) \in Nat \ {0} /\ Top \in Str
  <2> HIDE DEF Str
  <2> QED  BY <1>1, StackParts DEF Top
<1>3. /\ Before(Top) \in Seq(Lit) /\ After(Top) \in Str /\ Refs(After(Top)) = Refs(Top)
  BY <1>1, <1>2, Parts, ExpandAssumption
<1>4. /\ stack' \in Seq(Str) /\ Len(stack') = Len(stack) /\ stack'[Len(stack)] = After(Top)
      /\ \A k \in 1..(Len(stack) - 1) : stack'[k] = stack[k]
  <2>1. PICK x : x = After(Top)
    OBVIOUS
  <2>2. x \in Str /\ stack' = Append(Bottom(stack), x)
    BY <1>1, <1>3, <2>1 DEF Below, Bottom
  <2>3. Replaced(stack', stack, x, Str)
    BY <1>1, <2>2, TopReplaced
  <2> QED  BY <2>1, <2>3 DEF Replaced
<1>5. TypeInv'
  BY <1>1, <1>3, <1>4, ExpandAssumption DEF TypeInv, LimitInv
<1>6. RefsAt' = RefsAt /\ Chain' = Chain
  BY <1>1, JobStays
<1>7. \A k \in 1..Len(stack) : Refs(stack'[k]) = Refs(stack[k])
  BY <1>2, <1>3, <1>4 DEF Top
<1>8. Nested'
  BY <1>4, <1>6, <1>7 DEF Nested, LimitInv, Refs
<1>9. ChainAhead'
  <2> SUFFICES ASSUME NEW c \in Chain
               PROVE  \E k \in 1..Len(stack') : c[k - 1] \in Refs(stack'[k])
    BY <1>6 DEF ChainAhead, Refs
  <2>1. PICK k \in 1..Len(stack) : c[k - 1] \in Refs(stack[k])
    BY <1>1 DEF ChainAhead, LimitInv
  <2> QED  BY <1>4, <1>7, <2>1
<1> QED  BY <1>1, <1>4, <1>5, <1>8, <1>9 DEF LimitInv

(* A reference too deep: the string on top is Cap references down.         *)
LEMMA LimitRefused ==
  ASSUME LimitInv, Refer, Deep
  PROVE  LimitInv'
<1>1. /\ stack \in Seq(Str) /\ job \in Job /\ stack # <<>> /\ ~Plain(Top) /\ Mark(Top) \in Var
      /\ status' = "max recursion" /\ out' = out /\ stack' = stack /\ job' = job
  BY DEF LimitInv, TypeInv, Refer
<1>2. Len(stack) \in Nat \ {0} /\ Top \in Str
  <2> HIDE DEF Str
  <2> QED  BY <1>1, StackParts DEF Top
<1>3. Len(stack) = Cap
  <2>1. Len(stack) <= Cap /\ Len(stack) >= Cap
    BY DEF Deep, LimitInv
  <2> QED  BY <1>2, <2>1, CapPositive
<1>4. Mark(Top) \in Refs(Top)
  BY <1>1, <1>2, Parts
<1>5. Mark(Top) \in RefsAt[Cap - 1]
  <2>1. Len(stack) \in 1..Len(stack)
    BY <1>2
  <2>2. Refs(stack[Len(stack)]) \subseteq RefsAt[Len(stack) - 1]
    BY <2>1 DEF LimitInv, Nested
  <2> QED  BY <1>3, <1>4, <2>2 DEF Top
<1>6. RefsAt' = RefsAt /\ Chain' = Chain
  BY <1>1, JobStays
<1>7. TypeInv' /\ Nested' /\ Len(stack') <= Cap
  BY <1>1, <1>6 DEF LimitInv, TypeInv, Nested, Refs
<1>8. ChainAhead'
  BY <1>1 DEF ChainAhead
<1> QED  BY <1>1, <1>5, <1>6, <1>7, <1>8 DEF LimitInv

LEMMA LimitUndefined ==
  ASSUME LimitInv, Refer, ~Deep, Lookup(job, Mark(Top)) = Undefined
  PROVE  LimitInv'
<1>1. /\ stack \in Seq(Str) /\ job \in Job /\ out \in Seq(Lit)
      /\ stack # <<>> /\ ~Plain(Top)
      /\ status' = "undefined variable" /\ out' = out \o Before(Top) /\ stack' = stack /\ job' = job
  BY DEF LimitInv, TypeInv, Refer
<1>2. Top \in Str
  <2> HIDE DEF Str
  <2> QED  BY <1>1, StackParts DEF Top
<1>3. Before(Top) \in Seq(Lit)
  BY <1>1, <1>2, Parts
<1>4. RefsAt' = RefsAt
  BY <1>1, JobStays
<1>5. TypeInv' /\ Nested' /\ Len(stack') <= Cap
  <2>1. TypeInv'
    <3>1. out \o Before(Top) \in Seq(Lit)
      <4>1. PICK o, b : o = out /\ b = Before(Top)
        OBVIOUS
      <4>2. o \in Seq(Lit) /\ b \in Seq(Lit)
        BY <1>1, <1>3, <4>1
      <4> QED  BY <4>1, <4>2, ConcatProperties
    <3> QED  BY <1>1, <3>1 DEF TypeInv
  <2>2. Nested' /\ Len(stack') <= Cap
    BY <1>1, <1>4 DEF LimitInv, Nested, Refs
  <2> QED  BY <2>1, <2>2
<1>6. ChainAhead'
  BY <1>1 DEF ChainAhead
<1> QED  BY <1>1, <1>5, <1>6 DEF LimitInv

(* A reference entered: the next member of a chain through it is in its    *)
(* value, one frame up.                                                    *)
LEMMA LimitEntered ==
  ASSUME LimitInv, Refer, ~Deep, Lookup(job, Mark(Top)) # Undefined
  PROVE  LimitInv'
<1> DEFINE L == Len(stack)
<1>1. /\ stack \in Seq(Str) /\ job \in Job /\ out \in Seq(Lit) /\ status = "running"
      /\ stack # <<>> /\ ~Plain(Top) /\ Mark(Top) \in Var
      /\ out' = out \o Before(Top) /\ stack' = Below \o <<After(Top), Lookup(job, Mark(Top))>>
      /\ job' = job /\ status' = status
  BY DEF LimitInv, TypeInv, Refer
<1>2. L \in Nat \ {0} /\ Top \in Str
  <2> HIDE DEF Str
  <2> QED  BY <1>1, StackParts DEF Top
<1>3. L < Cap
  BY <1>2, ExpandAssumption DEF Deep
<1>4. PICK v : v = Mark(Top)
  OBVIOUS
<1>5. PICK value : value = Lookup(job, v)
  OBVIOUS
<1>6. PICK after : after = After(Top)
  OBVIOUS
<1>7. v \in Var /\ value \in Str /\ ValueRefs(v) = Refs(value)
  BY <1>1, <1>4, <1>5, LookupTyped
<1>8. Before(Top) \in Seq(Lit) /\ after \in Str /\ Refs(Top) = Refs(after) \cup {v}
  BY <1>1, <1>2, <1>4, <1>6, Parts
<1>9. /\ stack' \in Seq(Str) /\ Len(stack') = L + 1
      /\ stack'[L] = after /\ stack'[L + 1] = value
      /\ \A k \in 1..(L - 1) : stack'[k] = stack[k]
  <2>1. stack' = Bottom(stack) \o <<after, value>>
    BY <1>1, <1>4, <1>5, <1>6 DEF Below, Bottom
  <2>2. Pushed(stack', stack, after, value, Str)
    BY <1>1, <1>7, <1>8, <2>1, TopReplaced
  <2> QED  BY <2>2 DEF Pushed
<1>10. TypeInv' /\ Len(stack') <= Cap
  BY <1>1, <1>2, <1>3, <1>8, <1>9, ExpandAssumption DEF TypeInv, LimitInv
<1>11. RefsAt' = RefsAt /\ Chain' = Chain
  BY <1>1, JobStays
<1>12. Refs(stack[L]) = Refs(after) \cup {v} /\ L \in 1..L
  BY <1>2, <1>8 DEF Top
<1>13. Refs(value) \subseteq RefsAt[L]
  <2>1. v \in RefsAt[L - 1]
    BY <1>12 DEF LimitInv, Nested
  <2>2. L - 1 \in Nat /\ L - 1 + 1 = L
    BY <1>2
  <2>3. RefsAt[L] = UNION {ValueRefs(u) : u \in RefsAt[L - 1]}
    BY <1>1, <2>2, RefsAtStep
  <2> QED  BY <1>7, <2>1, <2>3
<1>14. Nested'
  <2> SUFFICES ASSUME NEW k \in 1..(L + 1) PROVE Refs(stack'[k]) \subseteq RefsAt[k - 1]
    BY <1>9, <1>11 DEF Nested, Refs
  <2>1. CASE k = L + 1
    <3>1. k - 1 = L
      BY <1>2, <2>1
    <3> QED  BY <1>9, <1>13, <2>1, <3>1
  <2>2. CASE k = L
    BY <1>9, <1>12, <2>2 DEF LimitInv, Nested
  <2>3. CASE k < L
    <3>1. k \in 1..(L - 1) /\ k \in 1..L
      BY <1>2, <2>3
    <3> QED  BY <1>9, <3>1 DEF LimitInv, Nested
  <2> QED  BY <1>2, <2>1, <2>2, <2>3
<1>15. ChainAhead'
  <2> SUFFICES ASSUME NEW c \in Chain
               PROVE  \E k \in 1..(L + 1) : c[k - 1] \in Refs(stack'[k])
    BY <1>9, <1>11 DEF ChainAhead, Refs
  <2>1. PICK k \in 1..L : c[k - 1] \in Refs(stack[k])
    BY <1>1 DEF ChainAhead, LimitInv
  <2>2. CASE k # L
    <3>1. k \in 1..(L - 1) /\ k \in 1..(L + 1)
      BY <1>2, <2>2
    <3> QED  BY <1>9, <2>1, <3>1
  <2>3. CASE k = L /\ c[L - 1] \in Refs(after)
    <3>1. L \in 1..(L + 1)
      BY <1>2
    <3> QED  BY <1>9, <2>3, <3>1
  <2>4. CASE k = L /\ c[L - 1] = v
    <3>1. L \in 1..(Cap - 1) /\ L + 1 \in 1..(L + 1) /\ L + 1 - 1 = L
      BY <1>2, <1>3, ExpandAssumption
    <3>2. c[L] \in Refs(value)
      BY <1>7, <2>4, <3>1 DEF Chain, IsChain
    <3> QED  BY <1>9, <3>1, <3>2
  <2> QED  BY <1>12, <2>1, <2>2, <2>3, <2>4
<1> QED  BY <1>1, <1>10, <1>14, <1>15 DEF LimitInv

LEMMA LimitReturn ==
  ASSUME LimitInv, Return
  PROVE  LimitInv'
<1>1. /\ stack = <<>> /\ status = "running" /\ status' = "done"
      /\ job' = job /\ stack' = stack /\ out' = out
  BY DEF Return
<1>2. RefsAt' = RefsAt /\ Chain' = Chain
  BY <1>1, JobStays
<1>3. TypeInv' /\ Nested' /\ Len(stack') <= Cap
  BY <1>1, <1>2 DEF LimitInv, TypeInv, Nested, Refs
<1>4. Chain = {}
  BY <1>1 DEF LimitInv, ChainAhead
<1> QED  BY <1>1, <1>2, <1>3, <1>4 DEF LimitInv, ChainAhead

LEMMA LimitStep ==
  ASSUME LimitInv, [Next]_vars
  PROVE  LimitInv'
<1>1. CASE PrintPlain
  BY <1>1, LimitPlain
<1>2. CASE PrintDollar
  BY <1>2, LimitDollar
<1>3. CASE Refer
  BY <1>3, LimitRefused, LimitUndefined, LimitEntered
<1>4. CASE Return
  BY <1>4, LimitReturn
<1>5. CASE UNCHANGED vars
  <2>1. job' = job /\ stack' = stack /\ out' = out /\ status' = status
    BY <1>5 DEF vars
  <2>2. RefsAt' = RefsAt /\ Chain' = Chain
    BY <2>1, JobStays
  <2> QED  BY <2>1, <2>2 DEF LimitInv, TypeInv, Nested, ChainAhead, Refs
<1> QED  BY <1>1, <1>2, <1>3, <1>4, <1>5 DEF Next

THEOREM LimitInvariant == Spec => []LimitInv
<1>1. Init => LimitInv
  BY LimitInit
<1>2. LimitInv /\ [Next]_vars => LimitInv'
  BY LimitStep
<1> QED  BY <1>1, <1>2, PTL DEF Spec

(* For every set of definitions, cyclic or not, and a stack of any size    *)
(* the limit refuses exactly the strings in which Cap references are       *)
(* nested.                                                                 *)
THEOREM LimitIsExact == Spec => []LimitExact
<1>1. LimitInv => LimitExact
  <2> SUFFICES ASSUME LimitInv PROVE LimitExact
    OBVIOUS
  <2>1. status = "done" => RefsAt[Cap - 1] = {}
    BY ChainsExist DEF LimitInv, TypeInv
  <2> QED  BY <2>1 DEF LimitInv, LimitExact
<1> QED  BY <1>1, LimitInvariant, PTL

-----------------------------------------------------------------------------
(* Texts and how they are joined.                                          *)

LEMMA EmptyText == <<>> \in Seq(Lit) /\ Whole(<<>>) \in Texts /\ Cut \in Texts
BY DEF Whole, Cut, Texts

LEMMA WholeTyped ==
  ASSUME NEW t \in Seq(Lit)
  PROVE  Whole(t) \in Texts /\ Whole(t).text = t /\ Whole(t).whole = TRUE
BY DEF Whole, Texts

LEMMA TextParts ==
  ASSUME NEW a \in Texts
  PROVE  a.text \in Seq(Lit) /\ a.whole \in BOOLEAN /\ a = [text |-> a.text, whole |-> a.whole]
BY DEF Texts

LEMMA Fields ==
  ASSUME NEW j, NEW x, NEW y, j = [text |-> x, whole |-> y]
  PROVE  j.text = x /\ j.whole = y
OBVIOUS

LEMMA JoinTyped ==
  ASSUME NEW a \in Texts, NEW b \in Texts
  PROVE  /\ Join(a, b) \in Texts
         /\ a.whole = TRUE => /\ Join(a, b) = [text |-> a.text \o b.text, whole |-> b.whole]
                              /\ Join(a, b).text = a.text \o b.text
                              /\ Join(a, b).whole = b.whole
         /\ a.whole # TRUE => Join(a, b) = a
<1>1. a.text \in Seq(Lit) /\ b.text \in Seq(Lit) /\ a.whole \in BOOLEAN /\ b.whole \in BOOLEAN
  BY TextParts
<1>2. a.text \o b.text \in Seq(Lit)
  BY <1>1, ConcatProperties
<1>3. [text |-> a.text \o b.text, whole |-> b.whole] \in Texts
  BY <1>1, <1>2 DEF Texts
<1>4. PICK j : j = Join(a, b)
  OBVIOUS
<1>5. a.whole = TRUE => j = [text |-> a.text \o b.text, whole |-> b.whole]
  BY <1>4 DEF Join
<1>6. a.whole = TRUE => j.text = a.text \o b.text /\ j.whole = b.whole
  BY <1>5, Fields, Zenon
<1>7. a.whole # TRUE => j = a
  BY <1>1, <1>4 DEF Join
<1> QED  BY <1>1, <1>3, <1>4, <1>5, <1>6, <1>7, Zenon

LEMMA JoinAssociative ==
  ASSUME NEW a \in Texts, NEW b \in Texts, NEW c \in Texts
  PROVE  Join(Join(a, b), c) = Join(a, Join(b, c))
<1>1. a.text \in Seq(Lit) /\ b.text \in Seq(Lit) /\ c.text \in Seq(Lit)
  BY TextParts
<1>2. PICK d, e \in Texts : d = Join(a, b) /\ e = Join(b, c)
  BY JoinTyped
<1>3. CASE a.whole # TRUE
  <2>1. d = a /\ Join(a, e) = a /\ Join(a, c) = a
    BY <1>2, <1>3, JoinTyped
  <2> QED  BY <1>2, <2>1
<1>4. CASE a.whole = TRUE /\ b.whole # TRUE
  <2>1. d.whole = b.whole /\ e = b
    BY <1>2, <1>4, JoinTyped, Zenon
  <2>2. Join(d, c) = d
    BY <1>4, <2>1, JoinTyped, Zenon
  <2> QED  BY <1>2, <2>1, <2>2
<1>5. CASE a.whole = TRUE /\ b.whole = TRUE
  <2>1. d.whole = b.whole /\ d.text = a.text \o b.text
    BY <1>2, <1>5, JoinTyped, Zenon
  <2>2. e.whole = c.whole /\ e.text = b.text \o c.text
    BY <1>2, <1>5, JoinTyped, Zenon
  <2>3. Join(d, c) = [text |-> d.text \o c.text, whole |-> c.whole]
    BY <1>5, <2>1, JoinTyped, Zenon
  <2>4. Join(a, e) = [text |-> a.text \o e.text, whole |-> e.whole]
    BY <1>5, JoinTyped, Zenon
  <2>5. d.text \o c.text = a.text \o e.text
    <3>1. PICK p, q, r \in Seq(Lit) : p = a.text /\ q = b.text /\ r = c.text
      BY <1>1
    <3>2. (p \o q) \o r = p \o (q \o r)
      BY ConcatAssociative
    <3> QED  BY <2>1, <2>2, <3>1, <3>2, Zenon
  <2> QED  BY <1>2, <2>2, <2>3, <2>4, <2>5, Zenon
<1> QED  BY <1>3, <1>4, <1>5

LEMMA JoinEmpty ==
  ASSUME NEW a \in Texts
  PROVE  Join(Whole(<<>>), a) = a /\ Join(a, Whole(<<>>)) = a /\ Join(Cut, a) = Cut
<1>1. a.text \in Seq(Lit) /\ a.whole \in BOOLEAN /\ a = [text |-> a.text, whole |-> a.whole]
  BY TextParts
<1>2. <<>> \o a.text = a.text /\ a.text \o <<>> = a.text
  BY <1>1, ConcatEmptySeq
<1>3. Whole(<<>>) \in Texts /\ Whole(<<>>).text = <<>> /\ Whole(<<>>).whole = TRUE /\ Cut \in Texts
  BY EmptyText, WholeTyped
<1>4. Join(Whole(<<>>), a) = [text |-> <<>> \o a.text, whole |-> a.whole]
  <2>1. Join(Whole(<<>>), a) = [text |-> Whole(<<>>).text \o a.text, whole |-> a.whole]
    BY <1>3, JoinTyped, Zenon
  <2> QED  BY <1>3, <2>1
<1>5. Join(a, Whole(<<>>)) = a
  <2>1. CASE a.whole = TRUE
    <3>1. Join(a, Whole(<<>>)) = [text |-> a.text \o <<>>, whole |-> TRUE]
      BY <1>3, <2>1, JoinTyped, ZenonT(40)
    <3> QED  BY <1>1, <1>2, <2>1, <3>1
  <2>2. CASE a.whole # TRUE
    BY <1>3, <2>2, JoinTyped
  <2> QED  BY <2>1, <2>2
<1>6. Join(Cut, a) = Cut
  BY DEF Join, Cut
<1> QED  BY <1>1, <1>2, <1>4, <1>5, <1>6

(* The joined beginnings of a sequence of texts.                           *)
Beginnings(u, texts) ==
  /\ u \in [0..Len(texts) -> Texts]
  /\ u[0] = Whole(<<>>)
  /\ \A i \in 1..Len(texts) : u[i] = Join(u[i - 1], texts[i])

LEMMA JoinedStep ==
  ASSUME NEW texts \in Seq(Texts)
  PROVE  \E u : Beginnings(u, texts) /\ Joined(texts) = u[Len(texts)]
<1> DEFINE N == Len(texts)
           Value(f, i) == IF i = 0 THEN Whole(<<>>) ELSE Join(f[i - 1], texts[i])
<1>1. N \in Nat /\ \A i \in 1..N : texts[i] \in Texts
  OBVIOUS
<1>2. PICK base : base = Whole(<<>>)
  OBVIOUS
<1>3. PICK next : next = [i \in Nat |-> [t \in Texts |->
                            IF i < N THEN Join(t, texts[i + 1]) ELSE t]]
  OBVIOUS
<1>4. base \in Texts
  BY <1>2, EmptyText
<1>5. next \in [Nat -> [Texts -> Texts]]
  <2> SUFFICES ASSUME NEW i \in Nat, NEW t \in Texts, i < N PROVE Join(t, texts[i + 1]) \in Texts
    BY <1>3
  <2>1. i + 1 \in 1..N
    BY <1>1
  <2> QED  BY <1>1, <2>1, JoinTyped
<1>6. PICK f \in [Nat -> Texts] : f[0] = base /\ \A n \in Nat : f[n + 1] = next[n][f[n]]
  <2>1. PICK f : Runs(f, Texts, base, next)
    BY <1>4, <1>5, RunExists
  <2> QED  BY <2>1 DEF Runs
<1> DEFINE g == [i \in 0..N |-> f[i]]
<1>7. g = [i \in 0..N |-> Value(g, i)]
  <2> SUFFICES ASSUME NEW i \in 0..N PROVE f[i] = Value(g, i)
    OBVIOUS
  <2>1. CASE i = 0
    BY <2>1, <1>6, <1>2
  <2>2. CASE i # 0
    <3>1. i - 1 \in Nat /\ i - 1 < N /\ i - 1 + 1 = i /\ i - 1 \in 0..N
      BY <1>1, <2>2
    <3>2. f[i] = next[i - 1][f[i - 1]] /\ f[i - 1] \in Texts
      BY <1>6, <3>1
    <3>3. g[i - 1] = f[i - 1]
      BY <3>1
    <3>4. next[i - 1][f[i - 1]] = Join(f[i - 1], texts[i])
      BY <3>1, <3>2, <1>3
    <3> QED  BY <2>2, <3>2, <3>3, <3>4
  <2> QED  BY <2>1, <2>2
<1> DEFINE h == CHOOSE h : h = [i \in 0..N |-> Value(h, i)]
<1>8. Joined(texts) = h[N]
  BY DEF Joined
<1>9. h = [i \in 0..N |-> Value(h, i)]
  <2> HIDE DEF g
  <2> QED  BY <1>7
<1> HIDE DEF h
<1>10. h[0] = Whole(<<>>) /\ \A i \in 1..N : h[i] = Join(h[i - 1], texts[i])
  <2>1. \A i \in 0..N : h[i] = Value(h, i)
    <3> HIDE DEF N, Value
    <3> QED  BY <1>9, Zenon
  <2>2. 0 \in 0..N /\ \A i \in 1..N : i \in 0..N /\ i # 0
    BY <1>1
  <2> HIDE DEF N
  <2> QED  BY <2>1, <2>2
<1>11. \A i \in 0..N : h[i] \in Texts
  <2> DEFINE P == {i \in 0..N : h[i] \in Texts}
  <2>1. 0 \in P
    BY <1>1, <1>4, <1>10, <1>2
  <2>2. ASSUME NEW i \in 1..N, i - 1 \in P PROVE i \in P
    <3>1. h[i] = Join(h[i - 1], texts[i]) /\ texts[i] \in Texts /\ h[i - 1] \in Texts /\ i \in 0..N
      BY <1>1, <1>10, <2>2
    <3>2. Join(h[i - 1], texts[i]) \in Texts
      BY <3>1, JoinTyped
    <3> HIDE DEF N
    <3> QED  BY <3>1, <3>2
  <2>3. \A i \in 0..N : i \in P
    <3> HIDE DEF P, N
    <3> QED  BY <1>1, <2>1, <2>2, InductionUpTo
  <2> QED  BY <2>3
<1>12. h \in [0..N -> Texts]
  <2> HIDE DEF N, Value
  <2> QED  BY <1>9, <1>11
<1>13. Beginnings(h, texts)
  BY <1>10, <1>12 DEF Beginnings
<1> QED  BY <1>8, <1>13

LEMMA JoinedTyped ==
  ASSUME NEW texts \in Seq(Texts)
  PROVE  Joined(texts) \in Texts
<1>1. PICK u : Beginnings(u, texts) /\ Joined(texts) = u[Len(texts)]
  BY JoinedStep
<1>2. Len(texts) \in 0..Len(texts)
  OBVIOUS
<1> QED  BY <1>1, <1>2 DEF Beginnings

IsConcat(c, a, b, S) ==
  /\ Len(a) \in Nat /\ Len(b) \in Nat /\ c \in Seq(S) /\ Len(c) = Len(a) + Len(b)
  /\ \A i \in 1..Len(a) : c[i] = a[i]
  /\ \A i \in 1..Len(b) : c[Len(a) + i] = b[i] /\ b[i] \in S

LEMMA ConcatElements ==
  ASSUME NEW S, NEW a \in Seq(S), NEW b \in Seq(S)
  PROVE  IsConcat(a \o b, a, b, S)
BY DEF IsConcat

(* Joining is a homomorphism of sequences.                                 *)
LEMMA JoinedConcat ==
  ASSUME NEW a \in Seq(Texts), NEW b \in Seq(Texts)
  PROVE  Joined(a \o b) = Join(Joined(a), Joined(b))
<1> DEFINE c == a \o b
<1>1. /\ Len(a) \in Nat /\ Len(b) \in Nat /\ c \in Seq(Texts) /\ Len(c) = Len(a) + Len(b)
      /\ \A i \in 1..Len(a) : c[i] = a[i]
      /\ \A i \in 1..Len(b) : c[Len(a) + i] = b[i] /\ b[i] \in Texts
  OBVIOUS
<1> HIDE DEF c
<1>2. PICK u : Beginnings(u, a) /\ Joined(a) = u[Len(a)]
  BY JoinedStep
<1>3. PICK v : Beginnings(v, b) /\ Joined(b) = v[Len(b)]
  BY JoinedStep
<1>4. PICK w : Beginnings(w, c) /\ Joined(c) = w[Len(c)]
  BY <1>1, JoinedStep
<1>5. \A i \in 0..Len(a) : w[i] = u[i]
  <2> DEFINE P == {i \in 0..Len(a) : w[i] = u[i]}
  <2>1. 0 \in P
    BY <1>1, <1>2, <1>4 DEF Beginnings
  <2>2. ASSUME NEW i \in 1..Len(a), i - 1 \in P PROVE i \in P
    <3>1. i \in 1..Len(c) /\ i \in 0..Len(a) /\ w[i - 1] = u[i - 1] /\ c[i] = a[i]
      BY <1>1, <2>2
    <3>2. w[i] = Join(w[i - 1], c[i]) /\ u[i] = Join(u[i - 1], a[i])
      BY <1>2, <1>4, <3>1 DEF Beginnings
    <3> QED  BY <3>1, <3>2
  <2>3. \A i \in 0..Len(a) : i \in P
    <3> HIDE DEF P
    <3> QED  BY <1>1, <2>1, <2>2, InductionUpTo
  <2> QED  BY <2>3
<1>6. u[Len(a)] \in Texts
  BY <1>1, <1>2 DEF Beginnings
<1>7. \A i \in 0..Len(b) : w[Len(a) + i] = Join(u[Len(a)], v[i])
  <2> DEFINE P == {i \in 0..Len(b) : w[Len(a) + i] = Join(u[Len(a)], v[i])}
  <2>1. 0 \in P
    <3>1. v[0] = Whole(<<>>) /\ w[Len(a)] = u[Len(a)] /\ Len(a) + 0 = Len(a) /\ 0 \in 0..Len(b)
      BY <1>1, <1>3, <1>5 DEF Beginnings
    <3>2. Join(u[Len(a)], Whole(<<>>)) = u[Len(a)]
      BY <1>6, JoinEmpty
    <3> QED  BY <3>1, <3>2
  <2>2. ASSUME NEW i \in 1..Len(b), i - 1 \in P PROVE i \in P
    <3>1. /\ Len(a) + i \in 1..Len(c) /\ i \in 0..Len(b) /\ i - 1 \in 0..Len(b)
          /\ Len(a) + i - 1 = Len(a) + (i - 1)
          /\ c[Len(a) + i] = b[i] /\ b[i] \in Texts
      BY <1>1
    <3>2. /\ w[Len(a) + i] = Join(w[Len(a) + (i - 1)], b[i])
          /\ v[i] = Join(v[i - 1], b[i]) /\ v[i - 1] \in Texts
      <4>1. w[Len(a) + i] = Join(w[Len(a) + i - 1], c[Len(a) + i])
        BY <1>4, <3>1, SMTT(20) DEF Beginnings
      <4>2. v[i] = Join(v[i - 1], b[i]) /\ v[i - 1] \in Texts
        BY <1>3, <3>1 DEF Beginnings
      <4> QED  BY <3>1, <4>1, <4>2
    <3>3. w[Len(a) + (i - 1)] = Join(u[Len(a)], v[i - 1])
      BY <2>2
    <3>4. Join(Join(u[Len(a)], v[i - 1]), b[i]) = Join(u[Len(a)], Join(v[i - 1], b[i]))
      BY <1>6, <3>1, <3>2, JoinAssociative
    <3> QED  BY <3>1, <3>2, <3>3, <3>4
  <2>3. \A i \in 0..Len(b) : i \in P
    <3> HIDE DEF P
    <3> QED  BY <1>1, <2>1, <2>2, InductionUpTo
  <2> QED  BY <2>3
<1>8. w[Len(c)] = Join(u[Len(a)], v[Len(b)])
  BY <1>1, <1>7
<1> QED  BY <1>2, <1>3, <1>4, <1>8 DEF c

LEMMA JoinedFew ==
  ASSUME NEW x \in Texts, NEW y \in Texts
  PROVE  Joined(<<>>) = Whole(<<>>) /\ Joined(<<x>>) = x /\ Joined(<<x, y>>) = Join(x, y)
<1>1. Joined(<<>>) = Whole(<<>>)
  <2>1. PICK t : t = <<>>
    OBVIOUS
  <2>2. t \in Seq(Texts) /\ Len(t) = 0
    BY <2>1
  <2>3. PICK u : Beginnings(u, t) /\ Joined(t) = u[Len(t)]
    BY <2>2, JoinedStep
  <2> QED  BY <2>1, <2>2, <2>3 DEF Beginnings
<1>2. ASSUME NEW z \in Texts PROVE Joined(<<z>>) = z
  <2>1. PICK t : t = <<z>>
    OBVIOUS
  <2>2. t \in Seq(Texts) /\ Len(t) = 1 /\ t[1] = z
    BY <2>1
  <2>3. PICK u : Beginnings(u, t) /\ Joined(t) = u[Len(t)]
    BY <2>2, JoinedStep
  <2>4. 1 \in 1..Len(t) /\ 1 - 1 = 0
    BY <2>2
  <2>5. u[1] = Join(Whole(<<>>), z)
    BY <2>2, <2>3, <2>4 DEF Beginnings
  <2> QED  BY <2>1, <2>2, <2>3, <2>5, JoinEmpty
<1>3. Joined(<<x, y>>) = Join(x, y)
  <2>1. PICK t : t = <<x, y>>
    OBVIOUS
  <2>2. t \in Seq(Texts) /\ Len(t) = 2 /\ t[1] = x /\ t[2] = y
    BY <2>1
  <2>3. PICK u : Beginnings(u, t) /\ Joined(t) = u[Len(t)]
    BY <2>2, JoinedStep
  <2>4. 1 \in 1..Len(t) /\ 1 - 1 = 0 /\ 2 \in 1..Len(t) /\ 2 - 1 = 1
    BY <2>2
  <2>5. u[1] = Join(Whole(<<>>), x) /\ u[2] = Join(u[1], y)
    BY <2>2, <2>3, <2>4 DEF Beginnings
  <2> QED  BY <2>1, <2>2, <2>3, <2>5, JoinEmpty
<1> QED  BY <1>1, <1>2, <1>3

-----------------------------------------------------------------------------
(* The text of a string, level by level.                                   *)

PartTexts(s, of) == [i \in 1..Len(s) |-> PartText(s[i], of)]

LEMMA PartTyped ==
  ASSUME job \in Job, NEW of \in [Str -> Texts], NEW p \in Lit \cup {Escape} \cup Var
  PROVE  PartText(p, of) \in Texts
<1>1. CASE p \in Lit
  <2>1. <<p>> \in Seq(Lit)
    BY <1>1
  <2>2. p # Escape
    BY <1>1, ExpandAssumption
  <2>3. PartText(p, of) = Whole(<<p>>)
    BY <1>1, <2>2 DEF PartText
  <2> QED  BY <2>1, <2>3, WholeTyped
<1>2. CASE p = Escape
  <2>1. <<Dollar>> \in Seq(Lit) /\ p \notin Lit
    BY <1>2, ExpandAssumption
  <2> QED  BY <1>2, <2>1, WholeTyped DEF PartText
<1>3. CASE p \in Var
  <2>1. p \notin Lit /\ p # Escape
    BY <1>3, ExpandAssumption
  <2>2. Lookup(job, p) \in Str \cup {Undefined}
    BY <1>3, LookupTyped
  <2> QED  BY <2>1, <2>2, EmptyText DEF PartText
<1> QED  BY <1>1, <1>2, <1>3

LEMMA PartTextsTyped ==
  ASSUME job \in Job, NEW of \in [Str -> Texts], NEW s \in Str
  PROVE  /\ PartTexts(s, of) \in Seq(Texts) /\ Len(PartTexts(s, of)) = Len(s) /\ Len(s) \in Nat
         /\ \A i \in 1..Len(s) : PartTexts(s, of)[i] = PartText(s[i], of)
         /\ Joined(PartTexts(s, of)) \in Texts
<1>1. Len(s) \in Nat /\ \A i \in 1..Len(s) : s[i] \in Lit \cup {Escape} \cup Var
  BY DEF Str
<1>2. PartTexts(s, of) \in [1..Len(s) -> Texts]
  BY <1>1, PartTyped DEF PartTexts
<1>3. PartTexts(s, of) \in Seq(Texts) /\ Len(PartTexts(s, of)) = Len(s)
  BY <1>1, <1>2, FunctionIsSeq
<1>4. Joined(PartTexts(s, of)) \in Texts
  BY <1>3, JoinedTyped
<1>5. \A i \in 1..Len(s) : PartTexts(s, of)[i] = PartText(s[i], of)
  BY DEF PartTexts
<1> QED  BY <1>1, <1>3, <1>4, <1>5

LEMMA ExpansionStep ==
  ASSUME job \in Job
  PROVE  /\ Expansion \in [Nat -> [Str -> Texts]]
         /\ \A s \in Str : Expansion[0][s] = Cut
         /\ \A n \in Nat : \A s \in Str :
              Expansion[n + 1][s] = Joined(PartTexts(s, Expansion[n]))
<1> DEFINE S == [Str -> Texts]
           Value(f, n) == [s \in Str |-> IF n = 0 THEN Cut
                                         ELSE Joined([i \in 1..Len(s) |-> PartText(s[i], f[n - 1])])]
<1>1. PICK base : base = [s \in Str |-> Cut]
  OBVIOUS
<1>2. PICK next : next = [n \in Nat |-> [g \in S |-> [s \in Str |-> Joined(PartTexts(s, g))]]]
  OBVIOUS
<1>3. base \in S
  BY <1>1, EmptyText
<1>4. next \in [Nat -> [S -> S]]
  <2>1. \A g \in S : [s \in Str |-> Joined(PartTexts(s, g))] \in S
    BY PartTextsTyped
  <2> HIDE DEF S
  <2> QED  BY <1>2, <2>1
<1>5. PICK f : Runs(f, S, base, next)
  <2> HIDE DEF S
  <2> QED  BY <1>3, <1>4, RunExists
<1>6. \A g, n : n # 0 => Value(g, n) = [s \in Str |-> Joined(PartTexts(s, g[n - 1]))]
  BY DEF PartTexts
<1>7. f = [n \in Nat |-> Value(f, n)]
  <2> SUFFICES ASSUME NEW n \in Nat PROVE f[n] = Value(f, n)
    BY <1>5 DEF Runs
  <2>1. CASE n = 0
    BY <1>1, <1>5, <2>1 DEF Runs
  <2>2. CASE n # 0
    <3>1. n - 1 \in Nat /\ n - 1 + 1 = n
      BY <2>2
    <3>2. f[n] = next[n - 1][f[n - 1]] /\ f[n - 1] \in S
      <4> HIDE DEF S
      <4> QED  BY <1>5, <3>1 DEF Runs
    <3>3. next[n - 1][f[n - 1]] = [s \in Str |-> Joined(PartTexts(s, f[n - 1]))]
      <4> HIDE DEF S
      <4> QED  BY <1>2, <3>1, <3>2
    <3>4. Value(f, n) = [s \in Str |-> Joined(PartTexts(s, f[n - 1]))]
      <4> HIDE DEF Value
      <4> QED  BY <1>6, <2>2
    <3> HIDE DEF Value
    <3> QED  BY <3>2, <3>3, <3>4
  <2> QED  BY <2>1, <2>2
<1> DEFINE h == CHOOSE h : h = [n \in Nat |-> Value(h, n)]
<1>8. Expansion = h
  BY DEF Expansion
<1>9. h = [n \in Nat |-> Value(h, n)]
  <2> HIDE DEF Value
  <2> QED  BY <1>7
<1> HIDE DEF h
<1>10. \A n \in Nat : h[n] = Value(h, n)
  <2> HIDE DEF Value
  <2> QED  BY <1>9, Zenon
<1>11. \A s \in Str : h[0][s] = Cut
  <2>1. h[0] = Value(h, 0)
    BY <1>10
  <2> QED  BY <2>1
<1>12. \A n \in Nat : h[n + 1] = [s \in Str |-> Joined(PartTexts(s, h[n]))]
  <2> TAKE n \in Nat
  <2>1. n + 1 \in Nat /\ n + 1 # 0 /\ n + 1 - 1 = n
    OBVIOUS
  <2>2. h[n + 1] = Value(h, n + 1)
    BY <1>10, <2>1
  <2>3. Value(h, n + 1) = [s \in Str |-> Joined(PartTexts(s, h[n + 1 - 1]))]
    <3> HIDE DEF Value
    <3> QED  BY <1>6, <2>1
  <2> HIDE DEF Value
  <2> QED  BY <2>1, <2>2, <2>3
<1>13. \A n \in Nat : h[n] \in S
  <2> DEFINE P == {n \in Nat : h[n] \in S}
  <2>1. 0 \in P
    <3>1. h[0] = Value(h, 0)
      BY <1>10
    <3> QED  BY <3>1, EmptyText
  <2>2. \A n \in Nat : n \in P => n + 1 \in P
    <3> SUFFICES ASSUME NEW n \in Nat, h[n] \in S PROVE h[n + 1] \in S
      OBVIOUS
    <3>1. \A s \in Str : Joined(PartTexts(s, h[n])) \in Texts
      BY PartTextsTyped
    <3> QED  BY <1>12, <3>1
  <2>3. \A n \in Nat : n \in P
    <3> HIDE DEF P
    <3> QED  BY <2>1, <2>2, InductionNat
  <2> QED  BY <2>3
<1>14. h \in [Nat -> S]
  <2> HIDE DEF S, Value
  <2> QED  BY <1>9, <1>13
<1>15. \A n \in Nat : \A s \in Str : h[n + 1][s] = Joined(PartTexts(s, h[n]))
  BY <1>12
<1> QED  BY <1>8, <1>11, <1>14, <1>15

(* The text of a string without marks is the string.                       *)
LEMMA PlainText ==
  ASSUME job \in Job, NEW of \in [Str -> Texts], NEW s \in Str, Plain(s)
  PROVE  Joined(PartTexts(s, of)) = Whole(s)
<1> DEFINE N == Len(s)
<1>1. N \in Nat /\ DOMAIN s = 1..N /\ s \in Seq(Lit \cup {Escape} \cup Var)
  BY DEF Str
<1>2. \A i \in 1..N : s[i] \in Lit
  BY <1>1 DEF Plain
<1>3. s \in Seq(Lit)
  <2>1. s = [i \in 1..N |-> s[i]]
    BY <1>1
  <2>2. s \in [1..N -> Lit]
    BY <1>2, <2>1
  <2> HIDE DEF N
  <2> QED  BY <1>1, <2>2, FunctionIsSeq
<1>4. PICK t : t = PartTexts(s, of)
  OBVIOUS
<1>5. t \in Seq(Texts) /\ Len(t) = N
  BY <1>4, PartTextsTyped
<1>6. \A i \in 1..N : t[i] = Whole(<<s[i]>>)
  <2> TAKE i \in 1..N
  <2>1. t[i] = PartText(s[i], of)
    BY <1>4, PartTextsTyped
  <2>2. s[i] \in Lit /\ s[i] # Escape
    BY <1>2, ExpandAssumption
  <2> QED  BY <2>1, <2>2 DEF PartText
<1>7. PICK u : Beginnings(u, t) /\ Joined(t) = u[N]
  BY <1>5, JoinedStep
<1> DEFINE Copies(a, i) == /\ a.whole = TRUE /\ a.text \in Seq(Lit) /\ Len(a.text) = i
                           /\ \A k \in 1..i : a.text[k] = s[k]
           P == {i \in 0..N : Copies(u[i], i)}
<1>8. 0 \in P
  <2>1. u[0].text = <<>> /\ u[0].whole = TRUE
    BY <1>7, EmptyText, WholeTyped DEF Beginnings
  <2>2. PICK a : a = u[0].text
    OBVIOUS
  <2>3. a \in Seq(Lit) /\ Len(a) = 0 /\ \A k \in 1..0 : a[k] = s[k]
    BY <2>1, <2>2
  <2>4. Copies(u[0], 0)
    BY <2>1, <2>2, <2>3, Zenon
  <2>5. 0 \in 0..N
    BY <1>1
  <2> QED  BY <2>4, <2>5
<1>9. ASSUME NEW i \in 1..N, i - 1 \in P PROVE i \in P
  <2>1. i \in 0..N /\ i - 1 \in 0..N /\ s[i] \in Lit /\ <<s[i]>> \in Seq(Lit)
    BY <1>1, <1>2
  <2>2. u[i] = Join(u[i - 1], t[i]) /\ u[i - 1] \in Texts /\ u[i] \in Texts
    BY <1>5, <1>7, <2>1 DEF Beginnings
  <2>3. t[i] \in Texts /\ t[i].text = <<s[i]>> /\ t[i].whole = TRUE
    BY <1>6, <2>1, WholeTyped
  <2>4. PICK a, b : a = u[i - 1].text /\ b = u[i].text
    OBVIOUS
  <2>5. Copies(u[i - 1], i - 1)
    BY <1>9
  <2>6. u[i].whole = TRUE /\ b = a \o <<s[i]>>
    <3>1. u[i - 1].whole = TRUE
      BY <2>5
    <3>2. u[i].text = u[i - 1].text \o t[i].text /\ u[i].whole = t[i].whole
      <4>1. PICK x, y \in Texts : x = u[i - 1] /\ y = t[i]
        BY <2>2, <2>3
      <4>2. x.whole = TRUE
        BY <3>1, <4>1
      <4>3. Join(x, y).text = x.text \o y.text /\ Join(x, y).whole = y.whole
        BY <4>2, JoinTyped
      <4> QED  BY <2>2, <4>1, <4>3, Zenon
    <3> QED  BY <2>3, <2>4, <3>2, Zenon
  <2>7. a \in Seq(Lit) /\ Len(a) = i - 1 /\ \A k \in 1..(i - 1) : a[k] = s[k]
    BY <2>4, <2>5
  <2>8. a \o <<s[i]>> = Append(a, s[i])
    BY <2>1, <2>7, AppendIsConcat
  <2>9. b \in Seq(Lit) /\ Len(b) = i /\ \A k \in 1..i : b[k] = s[k]
    <3>1. b = Append(a, s[i])
      BY <2>6, <2>8
    <3>2. b \in Seq(Lit) /\ Len(b) = Len(a) + 1 /\ b[Len(a) + 1] = s[i]
          /\ \A k \in 1..Len(a) : b[k] = a[k]
      BY <2>1, <2>7, <3>1
    <3> QED  BY <2>1, <2>7, <3>2
  <2>10. Copies(u[i], i)
    BY <2>4, <2>6, <2>9, Zenon
  <2> QED  BY <2>1, <2>10
<1>10. \A i \in 0..N : i \in P
  <2> HIDE DEF P, N
  <2> QED  BY <1>1, <1>8, <1>9, InductionUpTo
<1>11. N \in 0..N
  BY <1>1
<1>12. Copies(u[N], N) /\ u[N] \in Texts
  <2>1. Copies(u[N], N)
    BY <1>10, <1>11
  <2>2. u[N] \in Texts
    BY <1>5, <1>7, <1>11 DEF Beginnings
  <2> QED  BY <2>1, <2>2, Zenon
<1>13. PICK a : a = u[N].text
  OBVIOUS
<1>14. a = s
  <2>1. a \in Seq(Lit) /\ Len(a) = N /\ \A k \in 1..N : a[k] = s[k]
    BY <1>12, <1>13
  <2> QED  BY <1>3, <2>1, SeqEqual
<1>15. u[N] = [text |-> s, whole |-> TRUE]
  <2>1. u[N] = [text |-> u[N].text, whole |-> u[N].whole]
    BY <1>12, TextParts
  <2>2. u[N].whole = TRUE
    BY <1>12
  <2> QED  BY <1>13, <1>14, <2>1, <2>2, Zenon
<1> QED  BY <1>4, <1>7, <1>15 DEF Whole

(* The text of a string is what stands before its first mark, what the     *)
(* mark stands for and the text of the rest.                               *)
LEMMA SplitText ==
  ASSUME job \in Job, NEW of \in [Str -> Texts], NEW s \in Str, ~Plain(s)
  PROVE  Joined(PartTexts(s, of)) =
           Join(Whole(Before(s)),
                Join(PartText(Mark(s), of), Joined(PartTexts(After(s), of))))
<1> DEFINE m == FirstMark(s)
           N == Len(s)
<1>1. m \in 1..N /\ N \in Nat /\ Mark(s) \in Var \cup {Escape} /\ Mark(s) = s[m]
  BY MarkFound, PartTextsTyped DEF Mark
<1>2. /\ Before(s) \in Seq(Lit) /\ Len(Before(s)) = m - 1
      /\ \A k \in 1..(m - 1) : Before(s)[k] = s[k]
      /\ After(s) \in Str /\ Len(After(s)) = N - m
      /\ \A k \in 1..(N - m) : After(s)[k] = s[m + k]
  BY Parts
<1> HIDE DEF m, N
<1>3. Before(s) \in Str /\ Plain(Before(s))
  <2>1. Before(s) \in Seq(Lit \cup {Escape} \cup Var)
    BY <1>2
  <2>2. \A i \in DOMAIN Before(s) : Before(s)[i] \in Lit
    BY <1>2
  <2> QED  BY <2>1, <2>2 DEF Str, Plain
<1>4. PICK p : p = PartTexts(s, of)
  OBVIOUS
<1>5. PICK a : a = PartTexts(Before(s), of)
  OBVIOUS
<1>6. PICK b : b = PartTexts(After(s), of)
  OBVIOUS
<1>7. PICK x : x = PartText(Mark(s), of)
  OBVIOUS
<1>8. /\ p \in Seq(Texts) /\ Len(p) = N /\ \A i \in 1..N : p[i] = PartText(s[i], of)
  BY <1>4, PartTextsTyped DEF N
<1>9. a \in Seq(Texts) /\ Len(a) = m - 1 /\ \A i \in 1..(m - 1) : a[i] = p[i]
  <2>1. a \in Seq(Texts) /\ Len(a) = m - 1
        /\ \A i \in 1..(m - 1) : a[i] = PartText(Before(s)[i], of)
    BY <1>2, <1>3, <1>5, PartTextsTyped
  <2> QED  BY <1>1, <1>2, <1>8, <2>1
<1>10. b \in Seq(Texts) /\ Len(b) = N - m /\ \A k \in 1..(N - m) : b[k] = p[m + k]
  <2>1. b \in Seq(Texts) /\ Len(b) = N - m
        /\ \A i \in 1..(N - m) : b[i] = PartText(After(s)[i], of)
    BY <1>2, <1>6, PartTextsTyped
  <2>2. \A k \in 1..(N - m) : m + k \in 1..N
    BY <1>1
  <2> QED  BY <1>2, <1>8, <2>1, <2>2
<1>11. x \in Texts /\ x = p[m]
  BY <1>1, <1>7, <1>8, PartTyped
<1>12. PICK c : c = <<x>> \o b
  OBVIOUS
<1>13. /\ c \in Seq(Texts) /\ Len(c) = N - m + 1 /\ c[1] = x
       /\ \A k \in 1..(N - m) : c[1 + k] = b[k]
       /\ Joined(c) = Join(x, Joined(b))
  <2>1. <<x>> \in Seq(Texts) /\ Len(<<x>>) = 1 /\ <<x>>[1] = x
    BY <1>11
  <2>2. Joined(c) = Join(x, Joined(b))
    <3>1. Joined(<<x>> \o b) = Join(Joined(<<x>>), Joined(b))
      BY <1>10, <2>1, JoinedConcat
    <3>2. Joined(<<x>>) = x
      BY <1>11, JoinedFew
    <3> QED  BY <1>12, <3>1, <3>2
  <2>3. PICK y : y = <<x>>
    OBVIOUS
  <2>4. y \in Seq(Texts) /\ Len(y) = 1 /\ y[1] = x /\ c = y \o b
    BY <1>12, <2>1, <2>3
  <2>5. /\ c \in Seq(Texts) /\ Len(c) = Len(y) + Len(b)
        /\ \A i \in 1..Len(y) : c[i] = y[i]
        /\ \A i \in 1..Len(b) : c[Len(y) + i] = b[i]
    <3>1. IsConcat(c, y, b, Texts)
      BY <1>10, <2>4, ConcatElements
    <3> QED  BY <3>1 DEF IsConcat
  <2> QED  BY <1>1, <1>10, <2>2, <2>4, <2>5
<1>14. PICK d : d = a \o c
  OBVIOUS
<1>15. /\ d \in Seq(Texts) /\ Len(d) = N
       /\ \A i \in 1..(m - 1) : d[i] = a[i]
       /\ \A j \in 1..(N - m + 1) : d[m - 1 + j] = c[j]
       /\ Joined(d) = Join(Joined(a), Joined(c))
  <2>1. Joined(d) = Join(Joined(a), Joined(c))
    BY <1>9, <1>13, <1>14, JoinedConcat
  <2>2. /\ d \in Seq(Texts) /\ Len(d) = Len(a) + Len(c)
        /\ \A i \in 1..Len(a) : d[i] = a[i]
        /\ \A i \in 1..Len(c) : d[Len(a) + i] = c[i]
    <3>1. IsConcat(d, a, c, Texts)
      BY <1>9, <1>13, <1>14, ConcatElements
    <3> QED  BY <3>1 DEF IsConcat
  <2> QED  BY <1>1, <1>9, <1>13, <2>1, <2>2
<1>16. p = d
  <2>1. ASSUME NEW i \in 1..N PROVE p[i] = d[i]
    <3>1. CASE i < m
      <4>1. i \in 1..(m - 1)
        BY <1>1, <3>1
      <4> QED  BY <1>9, <1>15, <4>1
    <3>2. CASE i = m
      <4>1. 1 \in 1..(N - m + 1) /\ m - 1 + 1 = m
        BY <1>1
      <4> QED  BY <1>11, <1>13, <1>15, <3>2, <4>1
    <3>3. CASE i > m
      <4>1. i - m \in 1..(N - m) /\ 1 + (i - m) \in 1..(N - m + 1)
            /\ m - 1 + (1 + (i - m)) = i /\ m + (i - m) = i
        BY <1>1, <3>3
      <4> QED  BY <1>10, <1>13, <1>15, <4>1
    <3> QED  BY <1>1, <3>1, <3>2, <3>3
  <2> QED  BY <1>8, <1>15, <2>1, SeqEqual
<1>17. Joined(a) = Whole(Before(s))
  BY <1>3, <1>5, PlainText
<1> QED  BY <1>4, <1>6, <1>7, <1>13, <1>15, <1>16, <1>17

-----------------------------------------------------------------------------
(* The texts the frames of a stack stand for, its top first: e is the      *)
(* expansion level by level.  FramesUnder leaves the top out.              *)
FrameTexts(e, s) == [k \in 1..Len(s) |-> e[Cap - Len(s) + k][s[Len(s) + 1 - k]]]
FramesUnder(e, s) == [k \in 1..(Len(s) - 1) |-> e[Cap - Len(s) + 1 + k][s[Len(s) - k]]]

LEMMA FramesTyped ==
  ASSUME NEW e \in [Nat -> [Str -> Texts]], NEW s \in Seq(Str), Len(s) <= Cap
  PROVE  /\ FrameTexts(e, s) \in Seq(Texts) /\ Len(FrameTexts(e, s)) = Len(s)
         /\ s # <<>> => /\ FramesUnder(e, s) \in Seq(Texts)
                        /\ Len(FramesUnder(e, s)) = Len(s) - 1
<1> DEFINE L == Len(s)
<1>1. L \in Nat /\ L <= Cap /\ Cap \in Nat /\ \A k \in 1..L : s[k] \in Str
  <2> HIDE DEF Str
  <2> QED  BY CapPositive
<1> HIDE DEF L
<1>2. \A n \in Nat : \A t \in Str : e[n][t] \in Texts
  OBVIOUS
<1>3. \A k \in 1..L : Cap - L + k \in Nat /\ L + 1 - k \in 1..L
  BY <1>1
<1>4. [k \in 1..L |-> e[Cap - L + k][s[L + 1 - k]]] \in [1..L -> Texts]
  BY <1>1, <1>2, <1>3
<1>5. FrameTexts(e, s) \in Seq(Texts) /\ Len(FrameTexts(e, s)) = L
  BY <1>1, <1>4, FunctionIsSeq DEF FrameTexts, L
<1>6. ASSUME s # <<>> PROVE FramesUnder(e, s) \in Seq(Texts) /\ Len(FramesUnder(e, s)) = L - 1
  <2>1. L - 1 \in Nat
    <3> HIDE DEF Str
    <3> QED  BY <1>6, StackParts DEF L
  <2>2. \A k \in 1..(L - 1) : Cap - L + 1 + k \in Nat /\ L - k \in 1..L
    BY <1>1
  <2>3. [k \in 1..(L - 1) |-> e[Cap - L + 1 + k][s[L - k]]] \in [1..(L - 1) -> Texts]
    BY <1>1, <1>2, <2>2
  <2>4. PICK u : u = [k \in 1..(L - 1) |-> e[Cap - L + 1 + k][s[L - k]]]
    OBVIOUS
  <2>5. u \in Seq(Texts) /\ Len(u) = L - 1
    BY <2>1, <2>3, <2>4, FunctionIsSeq
  <2> QED  BY <2>4, <2>5 DEF FramesUnder, L
<1> QED  BY <1>5, <1>6 DEF L

LEMMA TopFirst ==
  ASSUME NEW e \in [Nat -> [Str -> Texts]], NEW s \in Seq(Str), Len(s) <= Cap, s # <<>>
  PROVE  /\ e[Cap - Len(s) + 1][s[Len(s)]] \in Texts
         /\ FrameTexts(e, s) = <<e[Cap - Len(s) + 1][s[Len(s)]]>> \o FramesUnder(e, s)
         /\ Joined(FramesUnder(e, s)) \in Texts
         /\ Joined(FrameTexts(e, s)) =
              Join(e[Cap - Len(s) + 1][s[Len(s)]], Joined(FramesUnder(e, s)))
<1> DEFINE L == Len(s)
           x == e[Cap - L + 1][s[L]]
           f == FrameTexts(e, s)
           u == FramesUnder(e, s)
<1>1. L \in Nat \ {0} /\ L <= Cap /\ Cap \in Nat /\ s[L] \in Str
  <2> HIDE DEF Str
  <2> QED  BY CapPositive, StackParts
<1>2. f \in Seq(Texts) /\ Len(f) = L /\ u \in Seq(Texts) /\ Len(u) = L - 1
  BY FramesTyped
<1>3. /\ \A k \in 1..L : f[k] = e[Cap - L + k][s[L + 1 - k]]
      /\ \A k \in 1..(L - 1) : u[k] = e[Cap - L + 1 + k][s[L - k]]
  BY DEF FrameTexts, FramesUnder
<1> HIDE DEF f, u
<1>4. x \in Texts
  <2>1. Cap - L + 1 \in Nat
    BY <1>1
  <2> HIDE DEF L
  <2> QED  BY <1>1, <2>1
<1>5. f[1] = x
  <2>1. 1 \in 1..L /\ L + 1 - 1 = L
    BY <1>1
  <2> HIDE DEF L
  <2> QED  BY <1>3, <2>1
<1>6. \A k \in 1..(L - 1) : f[1 + k] = u[k]
  <2> TAKE k \in 1..(L - 1)
  <2>1. 1 + k \in 1..L /\ Cap - L + (1 + k) = Cap - L + 1 + k /\ L + 1 - (1 + k) = L - k
    BY <1>1
  <2> HIDE DEF L
  <2> QED  BY <1>3, <2>1
<1> HIDE DEF x, L
<1>7. PICK g : g = <<x>> \o u
  OBVIOUS
<1>8. <<x>> \in Seq(Texts) /\ Len(<<x>>) = 1 /\ <<x>>[1] = x
  BY <1>4
<1>9. g \in Seq(Texts) /\ Len(g) = L /\ g[1] = x /\ \A k \in 1..(L - 1) : g[1 + k] = u[k]
  BY <1>1, <1>2, <1>7, <1>8
<1>10. f = g
  <2>1. ASSUME NEW i \in 1..L PROVE f[i] = g[i]
    <3>1. CASE i = 1
      BY <1>5, <1>9, <3>1
    <3>2. CASE i # 1
      <4>1. i - 1 \in 1..(L - 1) /\ 1 + (i - 1) = i
        BY <1>1, <3>2
      <4> QED  BY <1>6, <1>9, <4>1
    <3> QED  BY <3>1, <3>2
  <2> QED  BY <1>2, <1>9, <2>1, SeqEqual
<1>11. Joined(f) = Join(x, Joined(u)) /\ Joined(u) \in Texts
  <2>1. Joined(<<x>>) = x
    BY <1>4, JoinedFew
  <2>2. Joined(<<x>> \o u) = Join(Joined(<<x>>), Joined(u))
    BY <1>2, <1>8, JoinedConcat
  <2> QED  BY <1>2, <1>7, <1>10, <2>1, <2>2, JoinedTyped
<1> QED  BY <1>4, <1>7, <1>10, <1>11 DEF f, u, x, L

-----------------------------------------------------------------------------
(* Printing moves text from what is still to be printed to what has been.  *)
LEMMA Printed ==
  ASSUME NEW o \in Seq(Lit), NEW t \in Seq(Lit), NEW x \in Texts
  PROVE  o \o t \in Seq(Lit) /\ Join(Whole(o), Join(Whole(t), x)) = Join(Whole(o \o t), x)
<1>1. o \o t \in Seq(Lit)
  BY ConcatProperties
<1>2. PICK a, b \in Texts : a = Whole(o) /\ b = Whole(t)
  BY WholeTyped
<1>3. a.whole = TRUE /\ a.text = o /\ b.whole = TRUE /\ b.text = t
  BY <1>2, WholeTyped, Zenon
<1>4. Join(a, b) = [text |-> a.text \o b.text, whole |-> b.whole]
  BY <1>3, JoinTyped
<1>5. Join(a, b) = Whole(o \o t)
  BY <1>3, <1>4, Zenon DEF Whole
<1>6. Join(Join(a, b), x) = Join(a, Join(b, x))
  BY JoinAssociative
<1> QED  BY <1>1, <1>2, <1>5, <1>6

(* What cannot be followed ends the text, whatever comes behind it.        *)
LEMMA Stopped ==
  ASSUME NEW o \in Seq(Lit), NEW t \in Seq(Lit), NEW x \in Texts, NEW y \in Texts
  PROVE  Join(Whole(o), Join(Join(Whole(t), Join(Cut, x)), y)) = [text |-> o \o t, whole |-> FALSE]
<1>1. Join(Cut, x) = Cut /\ Join(Cut, y) = Cut /\ Cut \in Texts /\ Whole(t) \in Texts
  BY EmptyText, JoinEmpty, WholeTyped
<1>2. Join(Join(Whole(t), Cut), y) = Join(Whole(t), Cut)
  BY <1>1, JoinAssociative
<1>3. o \o t \in Seq(Lit) /\ Join(Whole(o), Join(Whole(t), Cut)) = Join(Whole(o \o t), Cut)
  BY <1>1, Printed
<1>4. PICK p \in Seq(Lit) : p = o \o t
  BY <1>3
<1>5. Join(Whole(p), Cut) = [text |-> p, whole |-> FALSE]
  <2>1. PICK a, c \in Texts : a = Whole(p) /\ c = Cut
    BY EmptyText, WholeTyped
  <2>2. a.whole = TRUE /\ a.text = p
    BY <2>1, WholeTyped, Zenon
  <2>3. c.text = <<>> /\ c.whole = FALSE
    BY <2>1 DEF Cut
  <2>4. Join(a, c) = [text |-> a.text \o c.text, whole |-> c.whole]
    BY <2>2, JoinTyped
  <2>5. p \o <<>> = p
    BY ConcatEmptySeq
  <2> QED  BY <2>1, <2>2, <2>3, <2>4, <2>5, Zenon
<1> QED  BY <1>1, <1>2, <1>3, <1>4, <1>5

(* Three texts, of which the first is printed.                             *)
LEMMA PrintedFirst ==
  ASSUME NEW o \in Seq(Lit), NEW t \in Seq(Lit), NEW x \in Texts, NEW y \in Texts
  PROVE  Join(Whole(o), Join(Join(Whole(t), x), y)) = Join(Whole(o \o t), Join(x, y))
<1>1. Whole(t) \in Texts /\ Join(x, y) \in Texts
  BY WholeTyped, JoinTyped
<1>2. Join(Join(Whole(t), x), y) = Join(Whole(t), Join(x, y))
  BY <1>1, JoinAssociative
<1> QED  BY <1>1, <1>2, Printed

-----------------------------------------------------------------------------
(* What the proofs of the steps share.  The values of the expansion, of    *)
(* what has been printed and of what lies under the top are given names,   *)
(* as they are spoken of before and after the step.                        *)
Scene(e, text, o, L, n, top, under) ==
  /\ e = Expansion /\ e \in [Nat -> [Str -> Texts]]
  /\ \A m \in Nat : \A s \in Str : e[m + 1][s] = Joined(PartTexts(s, e[m]))
  /\ \A s \in Str : e[0][s] = Cut
  /\ text = e[Cap][job.str]
  /\ o = out /\ o \in Seq(Lit)
  /\ stack \in Seq(Str) /\ stack # <<>>
  /\ L = Len(stack) /\ L \in Nat \ {0} /\ L <= Cap
  /\ n = Cap - L /\ n \in Nat
  /\ top = Top /\ top \in Str
  /\ under = Joined(FramesUnder(e, stack)) /\ under \in Texts
  /\ text = Join(Whole(o), Join(Joined(PartTexts(top, e[n])), under))

LEMMA SceneSet ==
  ASSUME LimitInv, OutputPreserved, status = "running", stack # <<>>
  PROVE  \E e, text, o, L, n, top, under : Scene(e, text, o, L, n, top, under)
<1>1. job \in Job /\ stack \in Seq(Str) /\ out \in Seq(Lit) /\ Len(stack) <= Cap
  BY DEF LimitInv, TypeInv
<1>2. PICK e : e = Expansion
  OBVIOUS
<1>3. PICK text : text = e[Cap][job.str]
  OBVIOUS
<1>4. PICK o : o = out
  OBVIOUS
<1>5. PICK L : L = Len(stack)
  OBVIOUS
<1>6. PICK n : n = Cap - L
  OBVIOUS
<1>7. PICK top : top = Top
  OBVIOUS
<1>8. PICK under : under = Joined(FramesUnder(e, stack))
  OBVIOUS
<1>9. /\ e \in [Nat -> [Str -> Texts]]
      /\ \A s \in Str : e[0][s] = Cut
      /\ \A m \in Nat : \A s \in Str : e[m + 1][s] = Joined(PartTexts(s, e[m]))
  BY <1>1, <1>2, ExpansionStep
<1>10. L \in Nat \ {0} /\ top \in Str /\ top = stack[L] /\ L <= Cap
  <2> HIDE DEF Str
  <2>1. L \in Nat \ {0} /\ stack[L] \in Str
    BY <1>1, <1>5, StackParts
  <2> QED  BY <1>1, <1>5, <1>7, <2>1 DEF Top
<1>11. n \in Nat /\ n + 1 = Cap - L + 1
  BY <1>6, <1>10, CapPositive
<1>12. /\ Joined(FrameTexts(e, stack)) = Join(e[Cap - L + 1][stack[L]], under)
       /\ under \in Texts
  <2>1. PICK s : s = stack
    OBVIOUS
  <2>2. s \in Seq(Str) /\ Len(s) <= Cap /\ s # <<>>
    BY <1>1, <2>1
  <2>3. /\ Joined(FrameTexts(e, s)) = Join(e[Cap - Len(s) + 1][s[Len(s)]], Joined(FramesUnder(e, s)))
        /\ Joined(FramesUnder(e, s)) \in Texts
    BY <1>9, <2>2, TopFirst
  <2> QED  BY <1>5, <1>8, <2>1, <2>3
<1>13. e[Cap - L + 1][stack[L]] = Joined(PartTexts(top, e[n]))
  BY <1>9, <1>10, <1>11
<1>14. Remaining = Joined(FrameTexts(e, stack))
  BY <1>2 DEF Remaining, FrameTexts
<1>15. text = Join(Whole(o), Remaining)
  BY <1>2, <1>3, <1>4 DEF OutputPreserved
<1>16. text = Join(Whole(o), Join(Joined(PartTexts(top, e[n])), under))
  BY <1>12, <1>13, <1>14, <1>15
<1>17. Scene(e, text, o, L, n, top, under)
  BY <1>1, <1>2, <1>3, <1>4, <1>5, <1>6, <1>7, <1>8, <1>9, <1>10, <1>11, <1>12, <1>16
     DEF Scene
<1> QED  BY <1>17

(* A running state after the step: what its frames stand for.              *)
LEMMA StillPreserved ==
  ASSUME NEW e, e = Expansion', NEW text, text = e[Cap][job'.str],
         NEW s, s = stack', NEW o, o = out', status' = "running",
         text = Join(Whole(o), Joined(FrameTexts(e, s)))
  PROVE  OutputPreserved'
<1>1. Remaining' = Joined(FrameTexts(e, s))
  BY DEF Remaining, FrameTexts
<1>2. (Join(Whole(out), Remaining))' = Join(Whole(o), Joined(FrameTexts(e, s)))
  BY <1>1 DEF Join, Whole
<1> QED  BY <1>2 DEF OutputPreserved

LEMMA ExpansionStays ==
  ASSUME job' = job
  PROVE  Expansion' = Expansion
BY DEF Expansion, PartText, Lookup, Joined, Join, Whole, Cut

LEMMA OutputPlain ==
  ASSUME LimitInv, OutputPreserved, PrintPlain, LimitInv'
  PROVE  OutputPreserved'
<1>1. /\ status = "running" /\ stack # <<>> /\ Plain(Top) /\ out' = out \o Top
      /\ stack' = Below /\ job' = job /\ status' = "running" /\ job \in Job
  BY DEF PrintPlain, LimitInv, TypeInv
<1>2. PICK e, text, o, L, n, top, under : Scene(e, text, o, L, n, top, under)
  BY <1>1, SceneSet
<1>3. Joined(PartTexts(top, e[n])) = Whole(top)
  BY <1>1, <1>2, PlainText DEF Scene
<1>4. top \in Seq(Lit)
  <2>1. Len(top) \in Nat /\ top = [i \in 1..Len(top) |-> top[i]] /\ DOMAIN top = 1..Len(top)
    BY <1>2 DEF Str, Scene
  <2>2. top \in [1..Len(top) -> Lit]
    BY <1>1, <1>2, <2>1 DEF Plain, Scene
  <2> QED  BY <2>1, <2>2, FunctionIsSeq
<1>5. text = Join(Whole(o \o top), under)
  BY <1>2, <1>3, <1>4, Printed DEF Scene
<1>6. PICK s : s = stack'
  OBVIOUS
<1>7. FrameTexts(e, s) = FramesUnder(e, stack)
  <2>1. /\ s \in Seq(Str) /\ Len(s) = L - 1
        /\ \A k \in 1..(L - 1) : s[k] = stack[k]
    <3>1. s = Bottom(stack)
      BY <1>1, <1>6 DEF Below, Bottom
    <3> HIDE DEF Str
    <3> QED  BY <1>2, <3>1, StackParts, ZenonT(40) DEF Scene
  <2>2. L \in Nat \ {0} /\ L = Len(stack) /\ Cap \in Nat
    BY <1>2, CapPositive DEF Scene
  <2>3. ASSUME NEW k \in 1..(L - 1)
        PROVE  e[Cap - Len(s) + k][s[Len(s) + 1 - k]] = e[Cap - Len(stack) + 1 + k][stack[Len(stack) - k]]
    <3>1. Cap - (L - 1) + k = Cap - L + 1 + k /\ L - 1 + 1 - k = L - k /\ L - k \in 1..(L - 1)
      BY <2>2
    <3> QED  BY <2>1, <2>2, <3>1
  <2> QED  BY <2>1, <2>2, <2>3 DEF FrameTexts, FramesUnder
<1>8. text = Join(Whole(o \o top), Joined(FrameTexts(e, s)))
  BY <1>2, <1>5, <1>7 DEF Scene
<1>9. /\ e = Expansion' /\ text = e[Cap][job'.str] /\ o \o top = out'
  BY <1>1, <1>2, ExpansionStays DEF Scene
<1> QED  BY <1>1, <1>6, <1>8, <1>9, StillPreserved

LEMMA OutputDollar ==
  ASSUME LimitInv, OutputPreserved, PrintDollar, LimitInv'
  PROVE  OutputPreserved'
<1>1. /\ status = "running" /\ stack # <<>> /\ ~Plain(Top) /\ Mark(Top) = Escape
      /\ out' = out \o Append(Before(Top), Dollar) /\ stack' = Append(Below, After(Top))
      /\ job' = job /\ status' = "running" /\ job \in Job
  BY DEF PrintDollar, LimitInv, TypeInv
<1>2. PICK e, text, o, L, n, top, under : Scene(e, text, o, L, n, top, under)
  BY <1>1, SceneSet
<1>3. PICK before : before = Before(top)
  OBVIOUS
<1>4. PICK after : after = After(top)
  OBVIOUS
<1>5. before \in Seq(Lit) /\ after \in Str /\ e[n] \in [Str -> Texts]
  BY <1>1, <1>2, <1>3, <1>4, Parts DEF Scene
<1>6. PICK rest : rest = Joined(PartTexts(after, e[n]))
  OBVIOUS
<1>7. rest \in Texts
  BY <1>1, <1>5, <1>6, PartTextsTyped
<1>8. PICK printed : printed = before \o <<Dollar>>
  OBVIOUS
<1>9. printed \in Seq(Lit) /\ printed = Append(before, Dollar) /\ <<Dollar>> \in Seq(Lit)
  <2>1. <<Dollar>> \in Seq(Lit) /\ Dollar \in Lit
    BY ExpandAssumption
  <2> QED  BY <1>5, <1>8, <2>1, AppendIsConcat, ConcatProperties
<1>10. Joined(PartTexts(top, e[n])) = Join(Whole(printed), rest)
  <2>1. PartText(Escape, e[n]) = Whole(<<Dollar>>)
    BY ExpandAssumption DEF PartText
  <2>2. Joined(PartTexts(top, e[n])) = Join(Whole(before), Join(Whole(<<Dollar>>), rest))
    <3>1. top \in Str /\ ~Plain(top) /\ Mark(top) = Escape
      BY <1>1, <1>2 DEF Scene
    <3>2. Joined(PartTexts(top, e[n])) =
            Join(Whole(Before(top)), Join(PartText(Mark(top), e[n]), Joined(PartTexts(After(top), e[n]))))
      BY <1>1, <1>5, <3>1, SplitText
    <3> QED  BY <1>3, <1>4, <1>6, <2>1, <3>1, <3>2, Zenon
  <2>3. Join(Whole(before), Join(Whole(<<Dollar>>), rest)) = Join(Whole(before \o <<Dollar>>), rest)
    BY <1>5, <1>7, <1>9, Printed
  <2> QED  BY <1>8, <2>2, <2>3
<1>11. text = Join(Whole(o \o printed), Join(rest, under))
  <2>1. /\ o \in Seq(Lit) /\ under \in Texts
        /\ text = Join(Whole(o), Join(Joined(PartTexts(top, e[n])), under))
    BY <1>2 DEF Scene
  <2>2. Join(Whole(o), Join(Join(Whole(printed), rest), under)) = Join(Whole(o \o printed), Join(rest, under))
    BY <1>7, <1>9, <2>1, PrintedFirst, ZenonT(40)
  <2> QED  BY <1>10, <2>1, <2>2
<1>12. PICK s : s = stack'
  OBVIOUS
<1>13. /\ s \in Seq(Str) /\ Len(s) = L /\ s[L] = after
       /\ \A k \in 1..(L - 1) : s[k] = stack[k]
  <2>1. s = Append(Bottom(stack), after)
    BY <1>1, <1>2, <1>4, <1>12 DEF Below, Bottom, Scene
  <2>2. Replaced(s, stack, after, Str)
    <3> HIDE DEF Str
    <3> QED  BY <1>2, <1>5, <2>1, TopReplaced DEF Scene
  <2> QED  BY <1>2, <2>2 DEF Replaced, Scene
<1>14. FramesUnder(e, s) = FramesUnder(e, stack)
  <2>1. L \in Nat \ {0} /\ L = Len(stack)
    BY <1>2 DEF Scene
  <2>2. \A k \in 1..(L - 1) : s[L - k] = stack[L - k]
    BY <1>13, <2>1
  <2> QED  BY <1>13, <2>1, <2>2 DEF FramesUnder
<1>15. Joined(FrameTexts(e, s)) = Join(rest, under)
  <2>1. s # <<>> /\ Len(s) <= Cap
    BY <1>2, <1>13 DEF Scene
  <2>2. Joined(FrameTexts(e, s)) = Join(e[Cap - L + 1][after], Joined(FramesUnder(e, s)))
    BY <1>2, <1>13, <2>1, TopFirst DEF Scene
  <2>3. n \in Nat /\ Cap - L + 1 = n + 1
    BY <1>2 DEF Scene
  <2>4. e[n + 1][after] = rest
    BY <1>2, <1>5, <1>6, <2>3 DEF Scene
  <2> QED  BY <1>2, <1>14, <2>2, <2>3, <2>4 DEF Scene
<1>16. /\ e = Expansion' /\ text = e[Cap][job'.str] /\ o \o printed = out'
  BY <1>1, <1>2, <1>3, <1>9, ExpansionStays DEF Scene
<1> QED  BY <1>1, <1>11, <1>12, <1>15, <1>16, StillPreserved

(* A reference that is refused or leads nowhere ends the text there.       *)
LEMMA OutputEnded ==
  ASSUME LimitInv, OutputPreserved, Refer, LimitInv',
         Deep \/ Lookup(job, Mark(Top)) = Undefined
  PROVE  OutputPreserved'
<1>1. /\ status = "running" /\ stack # <<>> /\ ~Plain(Top) /\ Mark(Top) \in Var
      /\ job' = job /\ stack' = stack /\ job \in Job
      /\ Deep => status' = "max recursion" /\ out' = out
      /\ ~Deep => status' = "undefined variable" /\ out' = out \o Before(Top)
  BY DEF Refer, LimitInv, TypeInv
<1>2. PICK e, text, o, L, n, top, under : Scene(e, text, o, L, n, top, under)
  BY <1>1, SceneSet
<1>3. PICK before : before = Before(top)
  OBVIOUS
<1>4. PICK after : after = After(top)
  OBVIOUS
<1>5. /\ before \in Seq(Lit) /\ after \in Str /\ e[n] \in [Str -> Texts]
      /\ top \in Str /\ ~Plain(top) /\ Mark(top) \in Var
  BY <1>1, <1>2, <1>3, <1>4, Parts DEF Scene
<1>6. PICK rest : rest = Joined(PartTexts(after, e[n]))
  OBVIOUS
<1>7. rest \in Texts
  BY <1>1, <1>5, <1>6, PartTextsTyped
<1>8. PartText(Mark(top), e[n]) = Cut
  <2>1. Mark(top) \notin Lit /\ Mark(top) # Escape
    BY <1>5, ExpandAssumption
  <2>2. CASE Lookup(job, Mark(top)) = Undefined
    BY <2>1, <2>2 DEF PartText
  <2>3. CASE Lookup(job, Mark(top)) # Undefined
    <3>1. Deep
      BY <1>2, <2>3 DEF Scene
    <3>2. n = 0
      <4>1. Len(stack) >= Cap
        BY <3>1 DEF Deep
      <4>2. L = Len(stack) /\ L \in Nat /\ L <= Cap /\ n = Cap - L /\ Cap \in Nat
        BY <1>2, CapPositive DEF Scene
      <4> QED  BY <4>1, <4>2
    <3>3. Lookup(job, Mark(top)) \in Str
      BY <1>1, <1>5, <2>3, LookupTyped
    <3>4. e[0][Lookup(job, Mark(top))] = Cut
      BY <1>2, <3>3 DEF Scene
    <3> QED  BY <2>1, <2>3, <3>2, <3>4 DEF PartText
  <2> QED  BY <2>2, <2>3
<1>9. Joined(PartTexts(top, e[n])) = Join(Whole(before), Join(Cut, rest))
  <2>1. Joined(PartTexts(top, e[n])) =
          Join(Whole(Before(top)), Join(PartText(Mark(top), e[n]), Joined(PartTexts(After(top), e[n]))))
    BY <1>1, <1>5, SplitText
  <2> QED  BY <1>3, <1>4, <1>6, <1>8, <2>1, Zenon
<1>10. text = [text |-> o \o before, whole |-> FALSE]
  <2>1. /\ o \in Seq(Lit) /\ under \in Texts
        /\ text = Join(Whole(o), Join(Joined(PartTexts(top, e[n])), under))
    BY <1>2 DEF Scene
  <2>2. Join(Whole(o), Join(Join(Whole(before), Join(Cut, rest)), under))
          = [text |-> o \o before, whole |-> FALSE]
    BY <1>5, <1>7, <2>1, Stopped
  <2> QED  BY <1>9, <2>1, <2>2
<1>11. /\ Expansion' = e /\ text = e[Cap][job.str] /\ o = out /\ before = Before(Top)
  BY <1>1, <1>2, <1>3, ExpansionStays DEF Scene
<1>12. CASE Deep
  <2>1. (out \o Before(Top))' = out \o Before(Top)
    BY <1>1, <1>12 DEF Before, Top, FirstMark
  <2> QED  BY <1>1, <1>10, <1>11, <1>12, <2>1 DEF OutputPreserved
<1>13. CASE ~Deep
  BY <1>1, <1>10, <1>11, <1>13 DEF OutputPreserved
<1> QED  BY <1>12, <1>13

LEMMA OutputEntered ==
  ASSUME LimitInv, OutputPreserved, Refer, LimitInv', ~Deep, Lookup(job, Mark(Top)) # Undefined
  PROVE  OutputPreserved'
<1>1. /\ status = "running" /\ stack # <<>> /\ ~Plain(Top) /\ Mark(Top) \in Var
      /\ out' = out \o Before(Top) /\ stack' = Below \o <<After(Top), Lookup(job, Mark(Top))>>
      /\ job' = job /\ status' = "running" /\ job \in Job
  BY DEF Refer, LimitInv, TypeInv
<1>2. PICK e, text, o, L, n, top, under : Scene(e, text, o, L, n, top, under)
  BY <1>1, SceneSet
<1>3. PICK before : before = Before(top)
  OBVIOUS
<1>4. PICK after : after = After(top)
  OBVIOUS
<1>5. /\ before \in Seq(Lit) /\ after \in Str /\ e[n] \in [Str -> Texts]
      /\ top \in Str /\ ~Plain(top) /\ Mark(top) \in Var
  BY <1>1, <1>2, <1>3, <1>4, Parts DEF Scene
<1>6. PICK rest : rest = Joined(PartTexts(after, e[n]))
  OBVIOUS
<1>7. rest \in Texts
  BY <1>1, <1>5, <1>6, PartTextsTyped
<1>8. PICK value : value = Lookup(job, Mark(top))
  OBVIOUS
<1>9. value \in Str /\ value # Undefined
  BY <1>1, <1>2, <1>5, <1>8, LookupTyped DEF Scene
<1>10. PICK inner : inner = e[n][value]
  OBVIOUS
<1>11. inner \in Texts
  BY <1>5, <1>9, <1>10
<1>12. PartText(Mark(top), e[n]) = inner
  <2>1. Mark(top) \notin Lit /\ Mark(top) # Escape
    BY <1>5, ExpandAssumption
  <2> QED  BY <1>8, <1>9, <1>10, <2>1 DEF PartText
<1>13. Joined(PartTexts(top, e[n])) = Join(Whole(before), Join(inner, rest))
  <2>1. Joined(PartTexts(top, e[n])) =
          Join(Whole(Before(top)), Join(PartText(Mark(top), e[n]), Joined(PartTexts(After(top), e[n]))))
    BY <1>1, <1>5, SplitText
  <2> QED  BY <1>3, <1>4, <1>6, <1>12, <2>1, Zenon
<1>14. text = Join(Whole(o \o before), Join(inner, Join(rest, under)))
  <2>1. /\ o \in Seq(Lit) /\ under \in Texts
        /\ text = Join(Whole(o), Join(Joined(PartTexts(top, e[n])), under))
    BY <1>2 DEF Scene
  <2>2. Join(inner, rest) \in Texts
    BY <1>7, <1>11, JoinTyped
  <2>3. Join(Whole(o), Join(Join(Whole(before), Join(inner, rest)), under))
          = Join(Whole(o \o before), Join(Join(inner, rest), under))
    BY <1>5, <2>1, <2>2, PrintedFirst
  <2>4. Join(Join(inner, rest), under) = Join(inner, Join(rest, under))
    BY <1>7, <1>11, <2>1, JoinAssociative
  <2> QED  BY <1>13, <2>1, <2>3, <2>4
<1>15. PICK s : s = stack'
  OBVIOUS
<1>16. L = Len(stack) /\ L \in Nat \ {0} /\ L < Cap /\ n = Cap - L /\ n \in Nat \ {0} /\ Cap \in Nat
  <2>1. L = Len(stack) /\ L \in Nat \ {0} /\ n = Cap - L /\ Cap \in Nat
    BY <1>2, CapPositive DEF Scene
  <2>2. ~(Len(stack) >= Cap)
    BY DEF Deep
  <2> QED  BY <2>1, <2>2
<1>17. /\ s \in Seq(Str) /\ Len(s) = L + 1 /\ s[L] = after /\ s[L + 1] = value
       /\ \A k \in 1..(L - 1) : s[k] = stack[k]
  <2>1. s = Bottom(stack) \o <<after, value>>
    BY <1>1, <1>2, <1>4, <1>8, <1>15 DEF Below, Bottom, Scene
  <2>2. Pushed(s, stack, after, value, Str)
    <3> HIDE DEF Str
    <3> QED  BY <1>2, <1>5, <1>9, <2>1, TopReplaced DEF Scene
  <2> QED  BY <1>16, <2>2 DEF Pushed
<1>18. PICK r : r = SubSeq(s, 1, L)
  OBVIOUS
<1>19. /\ r \in Seq(Str) /\ Len(r) = L /\ r[L] = after
       /\ \A k \in 1..(L - 1) : r[k] = stack[k]
      /\ \A k \in 1..L : r[k] = s[k]
  <2>1. r = Bottom(s) /\ s # <<>>
    BY <1>16, <1>17, <1>18 DEF Bottom
  <2>2. r \in Seq(Str) /\ Len(r) = Len(s) - 1 /\ \A k \in 1..(Len(s) - 1) : r[k] = s[k]
    <3> HIDE DEF Str
    <3> QED  BY <1>17, <2>1, StackParts
  <2> QED  BY <1>16, <1>17, <2>2
<1>20. FramesUnder(e, r) = FramesUnder(e, stack)
  <2>1. \A k \in 1..(L - 1) : r[L - k] = stack[L - k]
    BY <1>16, <1>19
  <2> QED  BY <1>16, <1>19, <2>1 DEF FramesUnder
<1>21. Joined(FrameTexts(e, r)) = Join(rest, under)
  <2>1. r # <<>> /\ Len(r) <= Cap
    BY <1>16, <1>19
  <2>2. Joined(FrameTexts(e, r)) = Join(e[Cap - L + 1][after], Joined(FramesUnder(e, r)))
    BY <1>2, <1>19, <2>1, TopFirst DEF Scene
  <2>3. n \in Nat /\ Cap - L + 1 = n + 1
    BY <1>16
  <2>4. e[n + 1][after] = rest
    BY <1>2, <1>5, <1>6, <2>3 DEF Scene
  <2> QED  BY <1>2, <1>20, <2>2, <2>3, <2>4 DEF Scene
<1>22. FramesUnder(e, s) = FrameTexts(e, r)
  <2>1. ASSUME NEW k \in 1..L
        PROVE  e[Cap - Len(s) + 1 + k][s[Len(s) - k]] = e[Cap - Len(r) + k][r[Len(r) + 1 - k]]
    <3>1. Cap - (L + 1) + 1 + k = Cap - L + k /\ L + 1 - k \in 1..L
      BY <1>16
    <3> QED  BY <1>17, <1>19, <3>1
  <2>2. Len(s) - 1 = L /\ Len(r) = L
    BY <1>16, <1>17, <1>19
  <2> QED  BY <2>1, <2>2 DEF FrameTexts, FramesUnder
<1>23. Joined(FrameTexts(e, s)) = Join(inner, Join(rest, under))
  <2>1. s # <<>> /\ Len(s) <= Cap
    BY <1>16, <1>17
  <2>2. Joined(FrameTexts(e, s)) = Join(e[Cap - Len(s) + 1][s[Len(s)]], Joined(FramesUnder(e, s)))
    BY <1>2, <1>17, <2>1, TopFirst DEF Scene
  <2>3. Cap - Len(s) + 1 = n
    BY <1>16, <1>17
  <2> QED  BY <1>10, <1>17, <1>21, <1>22, <2>2, <2>3
<1>24. /\ e = Expansion' /\ text = e[Cap][job'.str] /\ o \o before = out'
  BY <1>1, <1>2, <1>3, ExpansionStays DEF Scene
<1> QED  BY <1>1, <1>14, <1>15, <1>23, <1>24, StillPreserved

LEMMA OutputReturn ==
  ASSUME LimitInv, OutputPreserved, Return, LimitInv'
  PROVE  OutputPreserved'
<1>1. /\ status = "running" /\ stack = <<>> /\ status' = "done"
      /\ job' = job /\ out' = out /\ out \in Seq(Lit)
  BY DEF Return, LimitInv, TypeInv
<1>2. Remaining = Whole(<<>>)
  <2>1. Remaining = Joined(<<>>)
    <3>1. Len(stack) = 0
      BY <1>1
    <3>2. [k \in 1..0 |-> Expansion[Cap - 0 + k][stack[0 + 1 - k]]] = <<>>
      OBVIOUS
    <3> QED  BY <3>1, <3>2 DEF Remaining
  <2> QED  BY <2>1, EmptyText, JoinedFew
<1>3. Expansion[Cap][job.str] = Whole(out)
  BY <1>1, <1>2, WholeTyped, JoinEmpty DEF OutputPreserved
<1> QED  BY <1>1, <1>3, ExpansionStays DEF OutputPreserved, Whole

LEMMA OutputInit ==
  ASSUME Init
  PROVE  OutputPreserved
<1>1. /\ job \in Job /\ job.str \in Str /\ stack = <<job.str>> /\ out = <<>> /\ status = "running"
  BY ExpandAssumption DEF Init, Job
<1>2. PICK e : e = Expansion
  OBVIOUS
<1>3. PICK s : s = stack
  OBVIOUS
<1>4. PICK str : str = job.str
  OBVIOUS
<1>5. e \in [Nat -> [Str -> Texts]]
  BY <1>1, <1>2, ExpansionStep
<1>6. s \in Seq(Str) /\ Len(s) = 1 /\ s[1] = str /\ s # <<>>
  <2> HIDE DEF Str
  <2> QED  BY <1>1, <1>3, <1>4
<1>7. Cap \in Nat /\ 1 <= Cap /\ Cap - 1 + 1 = Cap
  BY ExpandAssumption
<1>8. /\ e[Cap][str] \in Texts
      /\ Joined(FrameTexts(e, s)) = Join(e[Cap][str], Joined(FramesUnder(e, s)))
  BY <1>5, <1>6, <1>7, TopFirst
<1>9. FramesUnder(e, s) = <<>>
  BY <1>6, <1>7 DEF FramesUnder
<1>10. Joined(FrameTexts(e, s)) = e[Cap][str]
  BY <1>8, <1>9, EmptyText, JoinedFew, JoinEmpty
<1>11. Remaining = Joined(FrameTexts(e, s))
  BY <1>2, <1>3 DEF Remaining, FrameTexts
<1>12. Join(Whole(out), Remaining) = e[Cap][str]
  BY <1>1, <1>8, <1>10, <1>11, JoinEmpty
<1> QED  BY <1>1, <1>2, <1>4, <1>12 DEF OutputPreserved

LEMMA OutputStep ==
  ASSUME LimitInv, LimitInv', OutputPreserved, [Next]_vars
  PROVE  OutputPreserved'
<1>1. CASE PrintPlain
  BY <1>1, OutputPlain
<1>2. CASE PrintDollar
  BY <1>2, OutputDollar
<1>3. CASE Refer
  BY <1>3, OutputEnded, OutputEntered
<1>4. CASE Return
  BY <1>4, OutputReturn
<1>5. CASE UNCHANGED vars
  <2>1. job' = job /\ stack' = stack /\ out' = out /\ status' = status
    BY <1>5 DEF vars
  <2>2. Expansion' = Expansion
    BY <2>1, ExpansionStays
  <2>3. Remaining' = Remaining
    BY <2>1, <2>2 DEF Remaining
  <2>4. (Join(Whole(out), Remaining))' = Join(Whole(out), Remaining) /\ (Whole(out))' = Whole(out)
    BY <2>1, <2>3 DEF Join, Whole
  <2>5. (out \o Before(Top))' = out \o Before(Top)
    BY <2>1 DEF Before, Top, FirstMark
  <2> QED  BY <2>1, <2>2, <2>4, <2>5 DEF OutputPreserved
<1> QED  BY <1>1, <1>2, <1>3, <1>4, <1>5 DEF Next

(* For every string, every set of definitions and a stack of any size the  *)
(* loop prints exactly the text recursion would compute, and of a string   *)
(* that fails exactly what stands in front of the offending reference.     *)
THEOREM OutputIsPreserved == Spec => []OutputPreserved
<1>1. Init => OutputPreserved
  BY OutputInit
<1>2. LimitInv /\ LimitInv' /\ OutputPreserved /\ [Next]_vars => OutputPreserved'
  BY OutputStep
<1> QED  BY <1>1, <1>2, LimitInvariant, PTL DEF Spec
=============================================================================
