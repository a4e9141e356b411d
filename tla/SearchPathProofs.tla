-------------------------- MODULE SearchPathProofs --------------------------
(***************************************************************************)
(* Proofs about SearchPath: between any two steps the linked list holds    *)
(* the directories in their order of precedence, and a lookup finds the    *)
(* first place of that order that has the package.                         *)
(***************************************************************************)
EXTENDS SearchPath, Recursion

-----------------------------------------------------------------------------
(* The reference definitions have their equations.                         *)

(* The directories of a path, component by component.                      *)
LEMMA NamedStep ==
  ASSUME NEW path \in Path
  PROVE  /\ Named(path) \in [0..Len(path) -> Seq(Dir)]
         /\ Named(path)[0] = <<>>
         /\ \A n \in 1..Len(path) :
              Named(path)[n] = IF path[n] = Empty THEN Named(path)[n - 1]
                               ELSE Append(Named(path)[n - 1], path[n])
<1> DEFINE N == Len(path)
           S == Seq(Dir)
           Value(f, n) == IF n = 0 THEN <<>>
                          ELSE IF path[n] = Empty THEN f[n - 1]
                          ELSE Append(f[n - 1], path[n])
           next == [n \in Nat |-> [s \in S |->
                      IF n < N /\ path[n + 1] # Empty THEN Append(s, path[n + 1]) ELSE s]]
<1>1. N \in Nat /\ \A n \in 1..N : path[n] \in Dir \cup {Empty}
  BY DEF Path
<1>2. <<>> \in S
  OBVIOUS
<1>3. next \in [Nat -> [S -> S]]
  <2> SUFFICES ASSUME NEW n \in Nat, NEW s \in S, n < N, path[n + 1] # Empty
               PROVE  Append(s, path[n + 1]) \in S
    BY DEF Path
  <2>1. path[n + 1] \in Dir
    BY <1>1
  <2> QED  BY <2>1
<1>4. PICK f \in [Nat -> S] : f[0] = <<>> /\ \A n \in Nat : f[n + 1] = next[n][f[n]]
  <2> DEFINE base == <<>>
  <2>1. \E f \in [Nat -> S] : f[0] = base /\ \A n \in Nat : f[n + 1] = next[n][f[n]]
    <3>1. base \in S
      OBVIOUS
    <3> HIDE DEF next, S, base
    <3> QED  BY <3>1, <1>3, RecursionExists
  <2> QED  BY <2>1
<1> DEFINE g == [n \in 0..N |-> f[n]]
<1>5. g = [n \in 0..N |-> Value(g, n)]
  <2> SUFFICES ASSUME NEW n \in 0..N PROVE f[n] = Value(g, n)
    OBVIOUS
  <2>1. CASE n = 0
    BY <2>1, <1>4
  <2>2. CASE n # 0
    <3>1. n - 1 \in Nat /\ n - 1 < N /\ n - 1 + 1 = n /\ n - 1 \in 0..N
      BY <1>1, <2>2
    <3>2. f[n] = next[n - 1][f[n - 1]] /\ f[n - 1] \in S
      <4> HIDE DEF next, S
      <4> QED  BY <1>4, <3>1
    <3>3. g[n - 1] = f[n - 1]
      BY <3>1
    <3>4. next[n - 1][f[n - 1]] = IF path[n] = Empty THEN f[n - 1] ELSE Append(f[n - 1], path[n])
      BY <3>1, <3>2
    <3> QED  BY <2>2, <3>2, <3>3, <3>4
  <2> QED  BY <2>1, <2>2
<1> DEFINE h == CHOOSE h : h = [n \in 0..N |-> Value(h, n)]
<1>6. Named(path) = h
  BY DEF Named
<1>7. h = [n \in 0..N |-> Value(h, n)]
  <2> HIDE DEF g
  <2> QED  BY <1>5
<1> HIDE DEF h
<1>8. h[0] = <<>> /\ \A n \in 1..N : h[n] = Value(h, n)
  <2>1. \A n \in 0..N : h[n] = Value(h, n)
    <3> HIDE DEF N, Value
    <3> QED  BY <1>7, Zenon
  <2>2. 0 \in 0..N /\ \A n \in 1..N : n \in 0..N
    BY <1>1
  <2>3. Value(h, 0) = <<>>
    OBVIOUS
  <2> HIDE DEF N, Value
  <2> QED  BY <2>1, <2>2, <2>3
<1>9. \A n \in 0..N : h[n] \in S
  <2> DEFINE P == {n \in 0..N : h[n] \in S}
  <2>1. 0 \in P
    <3>1. 0 \in 0..N /\ h[0] \in S
      BY <1>1, <1>2, <1>8
    <3> HIDE DEF N, S
    <3> QED  BY <3>1
  <2>2. ASSUME NEW n \in 1..N, n - 1 \in P PROVE n \in P
    <3>1. h[n] = IF path[n] = Empty THEN h[n - 1] ELSE Append(h[n - 1], path[n])
      BY <1>8
    <3>2. path[n] \in Dir \cup {Empty} /\ h[n - 1] \in S
      BY <1>1, <2>2
    <3>3. n \in 0..N
      BY <1>1
    <3>4. h[n] \in S
      <4>1. CASE path[n] = Empty
        BY <3>1, <3>2, <4>1
      <4>2. CASE path[n] # Empty
        <5>1. Append(h[n - 1], path[n]) \in Seq(Dir)
          <6> HIDE DEF h
          <6> QED  BY <3>2, <4>2, AppendProperties
        <5> QED  BY <3>1, <4>2, <5>1
      <4> QED  BY <4>1, <4>2
    <3> HIDE DEF N, S
    <3> QED  BY <3>3, <3>4
  <2>3. \A n \in 0..N : n \in P
    <3> HIDE DEF P, N
    <3> QED  BY <1>1, <2>1, <2>2, InductionUpTo
  <2> QED  BY <2>3
<1>10. h \in [0..N -> S]
  <2> HIDE DEF S
  <2> QED  BY <1>7, <1>9
<1> QED  BY <1>1, <1>6, <1>8, <1>10

PathsType(j) ==
  /\ Paths(j) \in Seq([how : {"append", "prepend"}, path : Path])
  /\ Len(Paths(j)) = 2 + Len(j.withpaths)
  /\ Paths(j)[1] = [how |-> "append", path |-> FromEnv(j.envpath, <<>>)]
  /\ Paths(j)[2] = [how |-> "append", path |-> FixedPath(j)]
  /\ \A i \in 1..Len(j.withpaths) :
       Paths(j)[2 + i] = [how |-> "prepend", path |-> j.withpaths[i]]

LEMMA PathsTyped ==
  ASSUME NEW j \in Job
  PROVE  PathsType(j)
<1> DEFINE first == <<[how |-> "append", path |-> FromEnv(j.envpath, <<>>)],
                      [how |-> "append", path |-> FixedPath(j)]>>
           given == [i \in DOMAIN j.withpaths |-> [how |-> "prepend", path |-> j.withpaths[i]]]
           Item == [how : {"append", "prepend"}, path : Path]
<1>1. j.withpaths \in Seq(Path) /\ j.envpath.value \in Path /\ j.libdir.value \in Path
      /\ DefaultPath \in Path /\ <<>> \in Path
  BY SearchPathAssumption DEF Job, Variable, Path
<1>2. FromEnv(j.envpath, <<>>) \in Path /\ FixedPath(j) \in Path
  BY <1>1 DEF FromEnv, FixedPath
<1>3. first \in Seq(Item) /\ Len(first) = 2
  BY <1>2
<1>4. given \in Seq(Item) /\ Len(given) = Len(j.withpaths)
  <2>1. Len(j.withpaths) \in Nat /\ given \in [1..Len(j.withpaths) -> Item]
    BY <1>1
  <2> HIDE DEF given, Item
  <2> QED  BY <2>1, FunctionIsSeq
<1>5. Paths(j) = first \o given
  BY DEF Paths
<1>6. \A i \in 1..Len(j.withpaths) : given[i] = [how |-> "prepend", path |-> j.withpaths[i]]
  BY <1>1
<1>7. /\ first[1] = [how |-> "append", path |-> FromEnv(j.envpath, <<>>)]
      /\ first[2] = [how |-> "append", path |-> FixedPath(j)]
  OBVIOUS
<1>8. Len(j.withpaths) \in Nat
  BY <1>1
<1> HIDE DEF first, given, Item
<1>9. /\ Paths(j) \in Seq(Item)
      /\ Len(Paths(j)) = 2 + Len(j.withpaths)
      /\ Paths(j)[1] = first[1]
      /\ Paths(j)[2] = first[2]
      /\ \A i \in 1..Len(j.withpaths) : Paths(j)[2 + i] = given[i]
  <2>1. /\ first \o given \in Seq(Item)
        /\ Len(first \o given) = Len(first) + Len(given)
        /\ \A i \in 1..(Len(first) + Len(given)) :
             (first \o given)[i] = IF i <= Len(first) THEN first[i] ELSE given[i - Len(first)]
    <3>1. first \in Seq(Item) /\ given \in Seq(Item)
      BY <1>3, <1>4
    <3> QED  BY <3>1, ConcatProperties, Zenon
  <2>2. Paths(j)[1] = first[1] /\ Paths(j)[2] = first[2]
    <3>1. /\ 1 \in 1..(Len(first) + Len(given)) /\ 1 <= Len(first)
          /\ 2 \in 1..(Len(first) + Len(given)) /\ 2 <= Len(first)
      BY <1>3, <1>4, <1>8
    <3> QED  BY <1>5, <2>1, <3>1, Zenon
  <2>3. ASSUME NEW i \in 1..Len(j.withpaths) PROVE Paths(j)[2 + i] = given[i]
    <3>1. /\ 2 + i \in 1..(Len(first) + Len(given)) /\ ~(2 + i <= Len(first))
          /\ 2 + i - Len(first) = i
      BY <1>3, <1>4, <1>8
    <3>2. (first \o given)[2 + i] = given[2 + i - Len(first)]
      BY <2>1, <3>1
    <3> QED  BY <1>5, <3>1, <3>2, Zenon
  <2>4. Len(Paths(j)) = 2 + Len(j.withpaths)
    BY <1>3, <1>4, <1>5, <2>1
  <2> QED  BY <1>5, <2>1, <2>2, <2>3, <2>4
<1> QED  BY <1>6, <1>7, <1>9 DEF PathsType, Item

(* All directories of the n-th path of a run.                              *)
Dirs(j, n) == Named(Paths(j)[n].path)[Len(Paths(j)[n].path)]

LEMMA DirsTyped ==
  ASSUME NEW j \in Job, NEW n \in 1..Len(Paths(j))
  PROVE  /\ Paths(j)[n].path \in Path /\ Len(Paths(j)[n].path) \in Nat
         /\ Paths(j)[n].how \in {"append", "prepend"}
         /\ Dirs(j, n) \in Seq(Dir)
<1>1. Paths(j)[n] \in [how : {"append", "prepend"}, path : Path]
  <2>1. Paths(j) \in Seq([how : {"append", "prepend"}, path : Path])
    BY PathsTyped DEF PathsType
  <2> QED  BY <2>1, ElementOfSeq, Zenon
<1> DEFINE path == Paths(j)[n].path
<1>2. path \in Path /\ Paths(j)[n].how \in {"append", "prepend"}
  BY <1>1
<1>3. Len(path) \in Nat
  BY <1>2 DEF Path
<1>4. Named(path)[Len(path)] \in Seq(Dir)
  <2> HIDE DEF path
  <2>1. Named(path) \in [0..Len(path) -> Seq(Dir)]
    BY <1>2, NamedStep
  <2>2. Len(path) \in 0..Len(path)
    BY <1>3
  <2> QED  BY <2>1, <2>2, Zenon
<1> QED  BY <1>2, <1>3, <1>4 DEF Dirs

(* The search order, path by path.                                         *)
LEMMA PrecedenceStep ==
  ASSUME NEW j \in Job
  PROVE  /\ Len(Paths(j)) \in Nat
         /\ Precedence(j) \in [0..Len(Paths(j)) -> Seq(Dir)]
         /\ Precedence(j)[0] = <<>>
         /\ \A n \in 1..Len(Paths(j)) :
              Precedence(j)[n] = IF Paths(j)[n].how = "append"
                                 THEN Precedence(j)[n - 1] \o Dirs(j, n)
                                 ELSE Dirs(j, n) \o Precedence(j)[n - 1]
<1> DEFINE N == Len(Paths(j))
           S == Seq(Dir)
           Appends(n) == Paths(j)[n].how = "append"
           Join(n, s) == IF Appends(n) THEN s \o Dirs(j, n) ELSE Dirs(j, n) \o s
           Value(f, n) == IF n = 0 THEN <<>>
                          ELSE IF Appends(n) THEN f[n - 1] \o Dirs(j, n)
                          ELSE Dirs(j, n) \o f[n - 1]
           next == [n \in Nat |-> [s \in S |-> IF n < N THEN Join(n + 1, s) ELSE s]]
<1>1. N \in Nat /\ \A n \in 1..N : Dirs(j, n) \in S
  <2>1. N \in Nat
    BY PathsTyped DEF PathsType
  <2> QED  BY <2>1, DirsTyped
<1>2. <<>> \in S
  OBVIOUS
<1>3. \A n \in 1..N, s \in S : Join(n, s) \in S
  <2> SUFFICES ASSUME NEW n \in 1..N, NEW s \in S PROVE Join(n, s) \in S
    OBVIOUS
  <2>1. Dirs(j, n) \in S
    BY <1>1
  <2>2. s \o Dirs(j, n) \in S /\ Dirs(j, n) \o s \in S
    BY <2>1, ConcatProperties, Zenon
  <2> QED  BY <2>2, Zenon
<1>4. next \in [Nat -> [S -> S]]
  <2> SUFFICES ASSUME NEW n \in Nat, NEW s \in S, n < N PROVE Join(n + 1, s) \in S
    <3> HIDE DEF Join, N, S
    <3> QED  OBVIOUS
  <2>1. n + 1 \in 1..N
    BY <1>1
  <2> HIDE DEF Join, N, S
  <2> QED  BY <1>3, <2>1
<1>5. PICK f \in [Nat -> S] : f[0] = <<>> /\ \A n \in Nat : f[n + 1] = next[n][f[n]]
  <2> DEFINE base == <<>>
  <2>1. \E f \in [Nat -> S] : f[0] = base /\ \A n \in Nat : f[n + 1] = next[n][f[n]]
    <3>1. base \in S
      OBVIOUS
    <3> HIDE DEF next, S, base
    <3> QED  BY <3>1, <1>4, RecursionExists
  <2> QED  BY <2>1
<1> DEFINE g == [n \in 0..N |-> f[n]]
<1>6. g = [n \in 0..N |-> Value(g, n)]
  <2> SUFFICES ASSUME NEW n \in 0..N PROVE f[n] = Value(g, n)
    OBVIOUS
  <2>1. CASE n = 0
    BY <2>1, <1>5
  <2>2. CASE n # 0
    <3>1. n - 1 \in Nat /\ n - 1 < N /\ n - 1 + 1 = n /\ n - 1 \in 0..N
      <4>1. N \in Nat
        BY <1>1
      <4> HIDE DEF N, S, g
      <4> QED  BY <2>2, <4>1
    <3>2. f[n - 1 + 1] = next[n - 1][f[n - 1]] /\ f[n - 1] \in S
      <4> HIDE DEF next, S
      <4> QED  BY <1>5, <3>1
    <3>3. g[n - 1] = f[n - 1]
      <4> HIDE DEF N, S
      <4> QED  BY <3>1
    <3>4. next[n - 1][f[n - 1]] = Join(n - 1 + 1, f[n - 1])
      <4> HIDE DEF Join, N, S
      <4> QED  BY <3>1, <3>2
    <3>5. f[n] = Join(n, f[n - 1])
      <4> HIDE DEF Join, next, g
      <4> QED  BY <3>1, <3>2, <3>4
    <3> HIDE DEF g
    <3> QED  BY <2>2, <3>3, <3>5
  <2> QED  BY <2>1, <2>2
<1> DEFINE h == CHOOSE h : h = [n \in 0..N |-> Value(h, n)]
<1>7. Precedence(j) = h
  BY DEF Precedence, Dirs
<1>8. h = [n \in 0..N |-> Value(h, n)]
  <2> HIDE DEF g
  <2> QED  BY <1>6
<1> HIDE DEF h
<1>9. h[0] = <<>> /\ \A n \in 1..N : h[n] = Join(n, h[n - 1])
  <2>1. \A n \in 0..N : h[n] = Value(h, n)
    <3> HIDE DEF N, Value
    <3> QED  BY <1>8, Zenon
  <2>2. 0 \in 0..N /\ \A n \in 1..N : n \in 0..N
    BY <1>1
  <2>3. Value(h, 0) = <<>>
    OBVIOUS
  <2>4. \A n \in 1..N : Value(h, n) = Join(n, h[n - 1])
    BY <1>1
  <2> HIDE DEF N, Value, Join
  <2> QED  BY <2>1, <2>2, <2>3, <2>4
<1>10. \A n \in 0..N : h[n] \in S
  <2> DEFINE P == {n \in 0..N : h[n] \in S}
  <2>1. 0 \in P
    <3>1. 0 \in 0..N /\ h[0] \in S
      BY <1>1, <1>2, <1>9
    <3> HIDE DEF N, S
    <3> QED  BY <3>1
  <2>2. ASSUME NEW n \in 1..N, n - 1 \in P PROVE n \in P
    <3>1. n \in 0..N
      BY <1>1
    <3>2. h[n] = Join(n, h[n - 1])
      BY <1>9
    <3>3. h[n - 1] \in S
      BY <2>2
    <3> HIDE DEF N, S, Join
    <3> QED  BY <1>3, <3>1, <3>2, <3>3
  <2>3. \A n \in 0..N : n \in P
    <3> HIDE DEF P, N
    <3> QED  BY <1>1, <2>1, <2>2, InductionUpTo
  <2> QED  BY <2>3
<1>11. h \in [0..N -> S]
  <2> HIDE DEF S, N, Value
  <2> QED  BY <1>8, <1>10
<1> QED  BY <1>1, <1>7, <1>9, <1>11

-----------------------------------------------------------------------------
(* Linked lists.                                                           *)

Nodes(N) == [str : Dir, next : 0..N]

(* The nodes of a list, one after the other.                               *)
Follows(f, nds, head) ==
  /\ f[0] = head
  /\ \A n \in Nat : f[n + 1] = IF f[n] = Null THEN Null ELSE nds[f[n]].next

LEMMA NthExists ==
  ASSUME NEW nds, NEW N \in Nat, NEW head \in 0..N,
         \A p \in 1..N : nds[p].next \in 0..N
  PROVE  \E f \in [Nat -> 0..N] : Follows(f, nds, head)
<1> DEFINE S == 0..N
           After(p) == IF p = Null THEN Null ELSE nds[p].next
           next == [n \in Nat |-> [p \in S |-> After(p)]]
           base == head
<1>1. \A p \in S : After(p) \in S
  BY DEF Null
<1>2. next \in [Nat -> [S -> S]]
  <2> HIDE DEF S, After
  <2> QED  BY <1>1
<1>3. base \in S
  OBVIOUS
<1>4. PICK f \in [Nat -> S] : f[0] = base /\ \A n \in Nat : f[n + 1] = next[n][f[n]]
  <2> HIDE DEF next, S, base
  <2>1. \E f \in [Nat -> S] : f[0] = base /\ \A n \in Nat : f[n + 1] = next[n][f[n]]
    BY <1>2, <1>3, RecursionExists, SMTT(20)
  <2> QED  BY <2>1
<1>5. ASSUME NEW n \in Nat PROVE f[n + 1] = After(f[n])
  <2>1. f[n + 1] = next[n][f[n]] /\ f[n] \in S
    <3> HIDE DEF next, S
    <3> QED  BY <1>4
  <2>2. next[n][f[n]] = After(f[n])
    <3> HIDE DEF S, After
    <3> QED  BY <2>1
  <2> QED  BY <2>1, <2>2, Zenon
<1> QED  BY <1>4, <1>5 DEF Follows

LEMMA NthStep ==
  ASSUME nodes \in Seq(Nodes(Len(nodes))), NEW list, list.head \in 0..Len(nodes)
  PROVE  /\ Nth(list)[1] = list.head
         /\ \A i \in Nat \ {0} :
              Nth(list)[i + 1] = IF Nth(list)[i] = Null THEN Null ELSE nodes[Nth(list)[i]].next
<1> DEFINE D == Nat \ {0}
           After(p) == IF p = Null THEN Null ELSE nodes[p].next
           Value(f, i) == IF i = 1 THEN list.head ELSE After(f[i - 1])
<1>1. Len(nodes) \in Nat
  BY LenProperties
<1>2. \A p \in 1..Len(nodes) : nodes[p].next \in 0..Len(nodes)
  <2> SUFFICES ASSUME NEW p \in 1..Len(nodes) PROVE nodes[p].next \in 0..Len(nodes)
    OBVIOUS
  <2>1. nodes[p] \in Nodes(Len(nodes))
    BY ElementOfSeq, Zenon
  <2> QED  BY <2>1 DEF Nodes
<1>3. PICK f \in [Nat -> 0..Len(nodes)] : Follows(f, nodes, list.head)
  <2>1. PICK nds, N, head : nds = nodes /\ N = Len(nodes) /\ head = list.head
    OBVIOUS
  <2>2. N \in Nat /\ head \in 0..N /\ \A p \in 1..N : nds[p].next \in 0..N
    BY <1>1, <1>2, <2>1
  <2>3. \E f \in [Nat -> 0..N] : Follows(f, nds, head)
    BY <2>2, NthExists
  <2> QED  BY <2>1, <2>3
<1> DEFINE g == [i \in D |-> f[i - 1]]
<1>4. g = [i \in D |-> Value(g, i)]
  <2> SUFFICES ASSUME NEW i \in D PROVE f[i - 1] = Value(g, i)
    OBVIOUS
  <2>1. CASE i = 1
    BY <2>1, <1>3 DEF Follows
  <2>2. CASE i # 1
    <3>1. i - 1 \in D /\ i - 1 - 1 \in Nat /\ i - 1 - 1 + 1 = i - 1
      BY <2>2
    <3>2. f[i - 1 - 1 + 1] = After(f[i - 1 - 1])
      BY <1>3, <3>1 DEF Follows
    <3>3. g[i - 1] = f[i - 1 - 1]
      BY <3>1
    <3> HIDE DEF g, After
    <3> QED  BY <2>2, <3>1, <3>2, <3>3
  <2> QED  BY <2>1, <2>2
<1> DEFINE h == CHOOSE h : h = [i \in D |-> Value(h, i)]
<1>5. Nth(list) = h
  BY DEF Nth
<1>6. h = [i \in D |-> Value(h, i)]
  <2> HIDE DEF g
  <2> QED  BY <1>4
<1> HIDE DEF h
<1>7. \A i \in D : h[i] = Value(h, i)
  <2> HIDE DEF D, Value
  <2> QED  BY <1>6, Zenon
<1>8. h[1] = list.head
  BY <1>7
<1>9. ASSUME NEW i \in D PROVE h[i + 1] = After(h[i])
  <2>1. i + 1 \in D /\ i + 1 # 1 /\ h[i + 1 - 1] = h[i]
    OBVIOUS
  <2>2. h[i + 1] = Value(h, i + 1)
    <3> HIDE DEF D, Value
    <3> QED  BY <1>7, <2>1, Zenon
  <2>3. Value(h, i + 1) = IF i + 1 = 1 THEN list.head ELSE After(h[i + 1 - 1])
    <3> HIDE DEF After
    <3> QED  OBVIOUS
  <2>4. Value(h, i + 1) = After(h[i + 1 - 1])
    <3> HIDE DEF After, Value
    <3> QED  BY <2>1, <2>3
  <2>5. After(h[i + 1 - 1]) = After(h[i])
    <3> HIDE DEF After
    <3> QED BY <2>1
  <2> HIDE DEF After, Value
  <2> QED  BY <2>2, <2>4, <2>5, Zenon
<1> QED  BY <1>5, <1>8, <1>9

(* A list that links, in order, the nodes at, which name the directories s;*)
(* nds is the memory they are in.                                          *)
Chain(nds, list, s, at) ==
  /\ at \in [1..Len(s) -> 1..Len(nds)]
  /\ \A i \in 1..Len(s) : /\ nds[at[i]].str = s[i]
                          /\ nds[at[i]].next = IF i = Len(s) THEN Null ELSE at[i + 1]
  /\ list.head = IF s = <<>> THEN Null ELSE at[1]
  /\ list.tail = IF s = <<>> THEN Null ELSE at[Len(s)]

(* Such a list holds s in the sense of the specification.                  *)
LEMMA ChainHolds ==
  ASSUME nodes \in Seq(Nodes(Len(nodes))), NEW list \in List, NEW s \in Seq(Dir),
         NEW at, Chain(nodes, list, s, at)
  PROVE  Holds(list, s)
<1> DEFINE nth == Nth(list)
<1>1. Len(nodes) \in Nat /\ Len(s) \in Nat /\ (s = <<>> <=> Len(s) = 0)
  BY EmptySeq, LenProperties
<1>2. /\ nth[1] = list.head
      /\ \A i \in Nat \ {0} : nth[i + 1] = IF nth[i] = Null THEN Null ELSE nodes[nth[i]].next
  BY NthStep DEF List
<1> HIDE DEF nth
<1>3. CASE s = <<>>
  <2>1. nth[Len(s) + 1] = Null /\ list.tail = Null
    BY <1>1, <1>2, <1>3 DEF Chain
  <2> QED  BY <1>1, <1>3, <2>1 DEF Holds, nth
<1>4. CASE s # <<>>
  <2> DEFINE P == {n \in 0..(Len(s) - 1) : nth[n + 1] = at[n + 1]}
  <2>1. 0 \in P
    BY <1>1, <1>2, <1>4 DEF Chain
  <2>2. ASSUME NEW n \in 1..(Len(s) - 1), n - 1 \in P PROVE n \in P
    <3>1. n \in 0..(Len(s) - 1) /\ n \in 1..Len(s) /\ n # Len(s) /\ n - 1 + 1 = n
          /\ n \in Nat \ {0}
      BY <1>1
    <3>2. nth[n] = at[n]
      BY <2>2, <3>1
    <3>3. nodes[at[n]].next = at[n + 1]
      BY <3>1 DEF Chain
    <3>4. at[n] # Null
      <4>1. at[n] \in 1..Len(nodes)
        BY <3>1 DEF Chain
      <4> QED  BY <1>1, <4>1 DEF Null
    <3>5. nth[n + 1] = at[n + 1]
      BY <1>2, <3>1, <3>2, <3>3, <3>4
    <3> QED  BY <3>1, <3>5
  <2>3. \A n \in 0..(Len(s) - 1) : n \in P
    <3>1. Len(s) - 1 \in Nat
      BY <1>1, <1>4
    <3> HIDE DEF P
    <3> QED  BY <2>1, <2>2, <3>1, InductionUpTo
  <2>4. ASSUME NEW i \in 1..Len(s) PROVE nth[i] = at[i]
    <3>1. i - 1 \in 0..(Len(s) - 1) /\ i - 1 + 1 = i
      BY <1>1
    <3> QED  BY <2>3, <3>1
  <2>5. \A i \in 1..Len(s) : nth[i] # Null /\ nodes[nth[i]].str = s[i]
    BY <1>1, <2>4 DEF Chain, Null
  <2>6. nth[Len(s)] = at[Len(s)] /\ Len(s) \in 1..Len(s) /\ Len(s) \in Nat \ {0}
    BY <1>1, <1>4, <2>4
  <2>7. nth[Len(s) + 1] = Null
    BY <1>2, <2>6 DEF Chain
  <2>8. list.tail = nth[Len(s)]
    BY <1>4, <2>6 DEF Chain
  <2> QED  BY <1>4, <2>5, <2>7, <2>8 DEF Holds, nth
<1> QED  BY <1>3, <1>4

(* What Linked leaves in the memory.                                       *)
LEMMA LinkedNodes ==
  ASSUME nodes \in Seq(Nodes(Len(nodes))), NEW list \in List, NEW d \in Dir
  PROVE  LET new == Len(nodes) + 1
             after == Linked(list, new, d)
         IN /\ Len(nodes) \in Nat
            /\ after \in Seq(Nodes(new)) /\ Len(after) = new
            /\ \A i \in 1..Len(nodes) :
                 /\ after[i].str = nodes[i].str
                 /\ after[i].next = IF i = list.tail THEN new ELSE nodes[i].next
            /\ after[new].str = d /\ after[new].next = Null
<1> DEFINE N == Len(nodes)
           new == N + 1
           old == [i \in DOMAIN nodes |-> IF i = list.tail THEN [nodes[i] EXCEPT !.next = new]
                                         ELSE nodes[i]]
           last == [str |-> d, next |-> Null]
<1>1. N \in Nat /\ DOMAIN nodes = 1..N /\ \A i \in 1..N : nodes[i] \in Nodes(N)
  BY LenProperties, ElementOfSeq
<1>2. \A i \in 1..N : /\ old[i] \in Nodes(new)
                      /\ old[i].str = nodes[i].str
                      /\ old[i].next = IF i = list.tail THEN new ELSE nodes[i].next
  <2> SUFFICES ASSUME NEW i \in 1..N
               PROVE  /\ old[i] \in Nodes(new)
                      /\ old[i].str = nodes[i].str
                      /\ old[i].next = IF i = list.tail THEN new ELSE nodes[i].next
    OBVIOUS
  <2>1. nodes[i] \in Nodes(N)
    BY <1>1
  <2>2. old[i] = IF i = list.tail THEN [nodes[i] EXCEPT !.next = new] ELSE nodes[i]
    BY <1>1
  <2> HIDE DEF old
  <2> QED  BY <1>1, <2>1, <2>2 DEF Nodes
<1>3. old \in [1..N -> Nodes(new)]
  <2>1. DOMAIN old = 1..N /\ old = [i \in 1..N |-> old[i]]
    BY <1>1
  <2> HIDE DEF old
  <2> QED  BY <1>2, <2>1
<1>4. old \in Seq(Nodes(new)) /\ Len(old) = N
  <2> HIDE DEF old, new
  <2> QED  BY <1>1, <1>3, FunctionIsSeq
<1>5. last \in Nodes(new) /\ last.str = d /\ last.next = Null
  BY <1>1 DEF Nodes, Null
<1>6. Linked(list, new, d) = Append(old, last)
  BY DEF Linked
<1> HIDE DEF old, last
<1>7. /\ Append(old, last) \in Seq(Nodes(new))
      /\ Len(Append(old, last)) = Len(old) + 1
      /\ \A i \in 1..Len(old) : Append(old, last)[i] = old[i]
      /\ Append(old, last)[Len(old) + 1] = last
  <2> HIDE DEF new
  <2> QED  BY <1>4, <1>5, AppendProperties
<1> QED  BY <1>1, <1>2, <1>4, <1>5, <1>6, <1>7, ZenonT(40)

(* Appending a directory to a list makes its chain one longer.             *)
LEMMA AppendChain ==
  ASSUME nodes \in Seq(Nodes(Len(nodes))), NEW list \in List, NEW d \in Dir,
         NEW s \in Seq(Dir), NEW at, Chain(nodes, list, s, at)
  PROVE  LET new == Len(nodes) + 1
         IN \E at2 : Chain(Linked(list, new, d), Appended(list, new), Append(s, d), at2)
<1> DEFINE N == Len(nodes)
           new == N + 1
           m == Len(s)
           after == Linked(list, new, d)
           at2 == [i \in 1..(m + 1) |-> IF i = m + 1 THEN new ELSE at[i]]
           longer == Append(s, d)
<1>1. /\ N \in Nat
      /\ Len(after) = new
      /\ \A i \in 1..N : /\ after[i].str = nodes[i].str
                         /\ after[i].next = IF i = list.tail THEN new ELSE nodes[i].next
      /\ after[new].str = d /\ after[new].next = Null
  BY LinkedNodes
<1>2. m \in Nat /\ (s = <<>> <=> m = 0)
  BY EmptySeq, LenProperties
<1>3. /\ Len(longer) = m + 1 /\ longer # <<>>
      /\ \A i \in 1..m : longer[i] = s[i]
      /\ longer[m + 1] = d
  BY AppendProperties
<1>4. /\ \A i \in 1..m : at[i] \in 1..N
      /\ \A i \in 1..m : /\ nodes[at[i]].str = s[i]
                         /\ nodes[at[i]].next = IF i = m THEN Null ELSE at[i + 1]
      /\ list.head = IF s = <<>> THEN Null ELSE at[1]
      /\ list.tail = IF s = <<>> THEN Null ELSE at[m]
  BY DEF Chain
<1> HIDE DEF after, longer, N, m
<1>5. \A i \in 1..m : at2[i] = at[i] /\ at2[i] \in 1..N /\ i # m + 1
  BY <1>2, <1>4
<1>6. at2[m + 1] = new
  BY <1>2
<1>7. at2 \in [1..(m + 1) -> 1..new]
  BY <1>1, <1>2, <1>4
<1> HIDE DEF at2
<1>8. ASSUME NEW i \in 1..(m + 1)
      PROVE  /\ after[at2[i]].str = longer[i]
             /\ after[at2[i]].next = IF i = m + 1 THEN Null ELSE at2[i + 1]
  <2>1. CASE i = m + 1
    BY <1>1, <1>3, <1>6, <2>1
  <2>2. CASE i # m + 1
    <3>1. i \in 1..m
      BY <1>2, <2>2
    <3>2. at2[i] = at[i] /\ at[i] \in 1..N /\ longer[i] = s[i] /\ nodes[at[i]].str = s[i]
      BY <1>3, <1>4, <1>5, <3>1
    <3>3. after[at2[i]].str = longer[i]
      BY <1>1, <3>2
    <3>4. CASE i = m
      <4>1. list.tail = at[i]
        BY <1>2, <1>4, <3>1, <3>4
      <4>2. after[at[i]].next = new
        BY <1>1, <3>2, <4>1
      <4> QED  BY <1>6, <2>2, <3>2, <3>3, <3>4, <4>2
    <3>5. CASE i # m
      <4>1. i + 1 \in 1..m /\ m \in 1..m
        BY <1>2, <3>1, <3>5
      <4>2. nodes[at[i]].next = at[i + 1] /\ at[i + 1] \in 1..N /\ nodes[at[m]].next = Null
        BY <1>4, <3>1, <3>5, <4>1
      <4>3. at[i] # list.tail
        <5>1. at[i + 1] # Null
          BY <1>1, <4>2 DEF Null
        <5> QED  BY <1>2, <1>4, <4>1, <4>2, <5>1
      <4>4. after[at[i]].next = at[i + 1] /\ at2[i + 1] = at[i + 1]
        BY <1>1, <1>5, <3>2, <4>1, <4>2, <4>3
      <4> QED  BY <2>2, <3>2, <3>3, <4>4
    <3> QED  BY <3>4, <3>5
  <2> QED  BY <2>1, <2>2
<1>9. Appended(list, new).tail = at2[m + 1]
  BY <1>6 DEF Appended
<1>10. Appended(list, new).head = at2[1]
  <2>1. CASE m = 0
    BY <1>2, <1>4, <1>6, <2>1 DEF Appended
  <2>2. CASE m # 0
    <3>1. 1 \in 1..m /\ m \in 1..m
      BY <1>2, <2>2
    <3>2. list.tail # Null
      BY <1>1, <1>2, <1>4, <2>2, <3>1 DEF Null
    <3> QED  BY <1>2, <1>4, <1>5, <2>2, <3>1, <3>2 DEF Appended
  <2> QED  BY <2>1, <2>2
<1>11. Chain(after, Appended(list, new), longer, at2)
  <2>1. at2 \in [1..Len(longer) -> 1..Len(after)]
    BY <1>1, <1>3, <1>7
  <2> QED  BY <1>3, <1>8, <1>9, <1>10, <2>1 DEF Chain
<1> QED  BY <1>11 DEF after, longer, N

(* ... and another list stays as it is, unless it ends in the same node.   *)
LEMMA OtherChain ==
  ASSUME nodes \in Seq(Nodes(Len(nodes))), NEW list \in List, NEW d \in Dir,
         NEW s \in Seq(Dir), NEW at, Chain(nodes, list, s, at),
         NEW other \in List, NEW s2 \in Seq(Dir), NEW at2, Chain(nodes, other, s2, at2),
         list.tail # other.tail \/ s = <<>>
  PROVE  Chain(Linked(list, Len(nodes) + 1, d), other, s2, at2)
<1> DEFINE N == Len(nodes)
           new == N + 1
           m == Len(s)
           n == Len(s2)
           after == Linked(list, new, d)
<1>1. /\ N \in Nat
      /\ Len(after) = new
      /\ \A i \in 1..N : /\ after[i].str = nodes[i].str
                         /\ after[i].next = IF i = list.tail THEN new ELSE nodes[i].next
  BY LinkedNodes
<1>2. m \in Nat /\ (s = <<>> <=> m = 0) /\ n \in Nat /\ (s2 = <<>> <=> n = 0)
  BY EmptySeq, LenProperties
<1>3. /\ \A i \in 1..m : at[i] \in 1..N
      /\ \A i \in 1..m : nodes[at[i]].next = IF i = m THEN Null ELSE at[i + 1]
      /\ list.tail = IF s = <<>> THEN Null ELSE at[m]
  BY DEF Chain
<1>4. /\ at2 \in [1..n -> 1..N]
      /\ \A i \in 1..n : at2[i] \in 1..N
      /\ \A i \in 1..n : /\ nodes[at2[i]].str = s2[i]
                         /\ nodes[at2[i]].next = IF i = n THEN Null ELSE at2[i + 1]
      /\ other.head = IF s2 = <<>> THEN Null ELSE at2[1]
      /\ other.tail = IF s2 = <<>> THEN Null ELSE at2[n]
  BY DEF Chain
<1> HIDE DEF after, N, m, n
<1>5. at2 \in [1..n -> 1..new]
  BY <1>1, <1>4
<1>6. ASSUME NEW i \in 1..n
      PROVE  /\ after[at2[i]].str = s2[i]
             /\ after[at2[i]].next = IF i = n THEN Null ELSE at2[i + 1]
  <2>1. at2[i] # list.tail
    <3>1. CASE s = <<>>
      BY <1>1, <1>3, <1>4, <3>1 DEF Null
    <3>2. CASE s # <<>> /\ i = n
      BY <1>2, <1>4, <3>2
    <3>3. CASE s # <<>> /\ i # n
      <4>1. i + 1 \in 1..n /\ m \in 1..m
        BY <1>2, <3>3
      <4>2. nodes[at2[i]].next = at2[i + 1] /\ at2[i + 1] \in 1..N
        BY <1>4, <3>3, <4>1
      <4>3. list.tail = at[m] /\ nodes[at[m]].next = Null
        BY <1>3, <3>3, <4>1
      <4> QED  BY <1>1, <4>2, <4>3 DEF Null
    <3> QED  BY <3>1, <3>2, <3>3
  <2>2. at2[i] \in 1..N
    BY <1>4
  <2> QED  BY <1>1, <1>4, <2>1, <2>2
<1>7. Chain(after, other, s2, at2)
  BY <1>1, <1>4, <1>5, <1>6 DEF Chain, n
<1> QED  BY <1>7 DEF after, N

(* A nonempty list can be spliced in front of another.                     *)
LEMMA TransplantChain ==
  ASSUME nodes \in Seq(Nodes(Len(nodes))),
         NEW s1 \in Seq(Dir), NEW at1, Chain(nodes, temp, s1, at1), s1 # <<>>,
         NEW s2 \in Seq(Dir), NEW at2, Chain(nodes, dirs, s2, at2), s2 # <<>>,
         temp.tail # dirs.tail, temp \in List, dirs \in List
  PROVE  \E at : Chain([nodes EXCEPT ![temp.tail].next = dirs.head],
                      [dirs EXCEPT !.head = temp.head], s1 \o s2, at)
<1> DEFINE N == Len(nodes)
           m == Len(s1)
           n == Len(s2)
           both == s1 \o s2
           after == [nodes EXCEPT ![temp.tail].next = dirs.head]
           list == [dirs EXCEPT !.head = temp.head]
           at == [i \in 1..(m + n) |-> IF i <= m THEN at1[i] ELSE at2[i - m]]
<1>1. m \in Nat \ {0} /\ n \in Nat \ {0} /\ N \in Nat
  BY EmptySeq, LenProperties
<1>2. \A i \in 1..N : nodes[i] \in Nodes(N)
  BY ElementOfSeq
<1>3. /\ \A i \in 1..m : at1[i] \in 1..N
      /\ \A i \in 1..m : /\ nodes[at1[i]].str = s1[i]
                         /\ nodes[at1[i]].next = IF i = m THEN Null ELSE at1[i + 1]
      /\ temp.head = at1[1] /\ temp.tail = at1[m]
  BY DEF Chain
<1>4. /\ \A i \in 1..n : at2[i] \in 1..N
      /\ \A i \in 1..n : /\ nodes[at2[i]].str = s2[i]
                         /\ nodes[at2[i]].next = IF i = n THEN Null ELSE at2[i + 1]
      /\ dirs.head = at2[1] /\ dirs.tail = at2[n]
  BY DEF Chain
<1>5. /\ Len(both) = m + n /\ both # <<>>
      /\ \A i \in 1..m : both[i] = s1[i]
      /\ \A i \in 1..n : both[m + i] = s2[i]
  <2>1. /\ both \in Seq(Dir) /\ Len(both) = m + n
        /\ \A i \in 1..(m + n) : both[i] = IF i <= m THEN s1[i] ELSE s2[i - m]
    BY ConcatProperties
  <2>2. both # <<>>
    BY <1>1, <2>1, EmptySeq
  <2> HIDE DEF both, m, n
  <2>3. ASSUME NEW i \in 1..m PROVE both[i] = s1[i]
    BY <1>1, <2>1
  <2>4. ASSUME NEW i \in 1..n PROVE both[m + i] = s2[i]
    <3>1. m + i \in 1..(m + n) /\ ~(m + i <= m) /\ m + i - m = i
      BY <1>1
    <3> QED  BY <1>1, <2>1, <3>1
  <2> QED  BY <2>1, <2>2, <2>3, <2>4
<1>6. /\ Len(after) = N
      /\ \A i \in 1..N : /\ after[i].str = nodes[i].str
                         /\ after[i].next = IF i = temp.tail THEN dirs.head ELSE nodes[i].next
  <2>1. DOMAIN nodes = 1..N
    BY LenProperties
  <2>2. ASSUME NEW i \in 1..N
        PROVE  /\ after[i].str = nodes[i].str
               /\ after[i].next = IF i = temp.tail THEN dirs.head ELSE nodes[i].next
    <3>1. after[i] = IF i = temp.tail THEN [nodes[i] EXCEPT !.next = dirs.head] ELSE nodes[i]
      BY <2>1
    <3> HIDE DEF after
    <3> QED  BY <1>2, <3>1 DEF Nodes
  <2>3. Len(after) = N
    <3>1. after \in [1..N -> {after[i] : i \in 1..N}]
      BY <2>1
    <3> HIDE DEF after
    <3> QED  BY <1>1, <3>1, FunctionIsSeq
  <2> QED  BY <2>2, <2>3
<1>7. list.head = temp.head /\ list.tail = dirs.tail
  BY DEF List
<1> HIDE DEF N, m, n, both, after, list
<1>8. \A i \in 1..m : at[i] = at1[i] /\ at[i] \in 1..N
  BY <1>1, <1>3
<1>9. \A i \in 1..n : at[m + i] = at2[i]
  <2> SUFFICES ASSUME NEW i \in 1..n PROVE at[m + i] = at2[i]
    OBVIOUS
  <2>1. m + i \in 1..(m + n) /\ ~(m + i <= m) /\ m + i - m = i
    BY <1>1
  <2> QED  BY <1>1, <2>1
<1>10. at \in [1..(m + n) -> 1..N]
  <2> SUFFICES ASSUME NEW i \in 1..(m + n) PROVE (IF i <= m THEN at1[i] ELSE at2[i - m]) \in 1..N
    OBVIOUS
  <2>1. CASE i <= m
    BY <1>1, <1>3, <2>1
  <2>2. CASE ~(i <= m)
    <3>1. i - m \in 1..n
      BY <1>1, <2>2
    <3> QED  BY <1>4, <2>2, <3>1
  <2> QED  BY <2>1, <2>2
<1> HIDE DEF at
<1>11. ASSUME NEW i \in 1..m
       PROVE  /\ after[at[i]].str = both[i]
              /\ after[at[i]].next = at[i + 1]
  <2>1. at[i] = at1[i] /\ at1[i] \in 1..N /\ both[i] = s1[i] /\ nodes[at1[i]].str = s1[i]
    BY <1>3, <1>5, <1>8
  <2>2. CASE i = m
    <3>1. 1 \in 1..n
      BY <1>1
    <3>2. after[at[i]].next = dirs.head /\ at[m + 1] = at2[1]
      BY <1>3, <1>6, <1>9, <2>1, <2>2, <3>1
    <3> QED  BY <1>4, <1>6, <2>1, <2>2, <3>2
  <2>3. CASE i # m
    <3>1. i + 1 \in 1..m /\ m \in 1..m
      BY <1>1, <2>3
    <3>2. nodes[at1[i]].next = at1[i + 1] /\ at1[i + 1] \in 1..N /\ nodes[temp.tail].next = Null
      BY <1>3, <2>3, <3>1
    <3>3. at1[i] # temp.tail
      BY <1>1, <3>2 DEF Null
    <3>4. at[i + 1] = at1[i + 1]
      BY <1>8, <3>1
    <3>5. after[at1[i]].next = at1[i + 1] /\ after[at1[i]].str = s1[i]
      BY <1>6, <2>1, <3>2, <3>3
    <3> QED  BY <2>1, <3>4, <3>5
  <2> QED  BY <2>2, <2>3
<1>12. ASSUME NEW i \in 1..n
       PROVE  /\ after[at[m + i]].str = both[m + i]
              /\ after[at[m + i]].next = IF i = n THEN Null ELSE at[m + (i + 1)]
  <2>1. at[m + i] = at2[i] /\ at2[i] \in 1..N /\ both[m + i] = s2[i] /\ nodes[at2[i]].str = s2[i]
    BY <1>4, <1>5, <1>9
  <2>2. m \in 1..m /\ nodes[temp.tail].next = Null
    BY <1>1, <1>3
  <2>3. CASE i = n
    <3>1. nodes[at2[i]].next = Null /\ at2[i] # temp.tail
      BY <1>4, <2>3
    <3> QED  BY <1>6, <2>1, <2>3, <3>1
  <2>4. CASE i # n
    <3>1. i + 1 \in 1..n
      BY <1>1, <2>4
    <3>2. nodes[at2[i]].next = at2[i + 1] /\ at2[i + 1] \in 1..N
      BY <1>4, <2>4, <3>1
    <3>3. at2[i] # temp.tail
      BY <1>1, <2>2, <3>2 DEF Null
    <3>4. at[m + (i + 1)] = at2[i + 1]
      BY <1>9, <3>1
    <3>5. after[at2[i]].next = at2[i + 1] /\ after[at2[i]].str = s2[i]
      BY <1>6, <2>1, <3>2, <3>3
    <3> QED  BY <2>1, <2>4, <3>4, <3>5
  <2> QED  BY <2>3, <2>4
<1>13. ASSUME NEW i \in 1..(m + n)
       PROVE  /\ after[at[i]].str = both[i]
              /\ after[at[i]].next = IF i = m + n THEN Null ELSE at[i + 1]
  <2>1. CASE i <= m
    <3>1. i \in 1..m /\ i # m + n
      BY <1>1, <2>1
    <3> QED  BY <1>11, <3>1
  <2>2. CASE ~(i <= m)
    <3>1. PICK k \in 1..n : i = m + k
      <4>1. i - m \in 1..n /\ i = m + (i - m)
        BY <1>1, <2>2
      <4> QED  BY <4>1
    <3>2. m + (k + 1) = i + 1 /\ (k = n <=> i = m + n)
      BY <1>1, <3>1
    <3> QED  BY <1>12, <3>1, <3>2
  <2> QED  BY <2>1, <2>2
<1>14. list.head = at[1] /\ list.tail = at[m + n]
  BY <1>1, <1>3, <1>4, <1>7, <1>8, <1>9
<1>15. Chain(after, list, both, at)
  <2>1. at \in [1..Len(both) -> 1..Len(after)]
    BY <1>5, <1>6, <1>10
  <2> QED  BY <1>5, <1>13, <1>14, <2>1 DEF Chain
<1> QED  BY <1>15 DEF after, list, both

-----------------------------------------------------------------------------
(* The inductive invariant.                                                *)

(* What is left of p when it is taken up from its front.                   *)
SuffixOf(t, p) ==
  /\ Len(t) <= Len(p)
  /\ \A i \in 1..Len(t) : t[i] = p[Len(p) - Len(t) + i]

LEMMA SuffixTail ==
  ASSUME NEW S, NEW p \in Seq(S), NEW t \in Seq(S), SuffixOf(t, p), t # <<>>
  PROVE  /\ Len(p) - Len(t) + 1 \in 1..Len(p)
         /\ Head(t) = p[Len(p) - Len(t) + 1] /\ Head(t) \in S
         /\ Tail(t) \in Seq(S) /\ Len(Tail(t)) = Len(t) - 1
         /\ SuffixOf(Tail(t), p)
<1> DEFINE m == Len(p)
           n == Len(t)
<1>1. m \in Nat /\ n \in Nat \ {0}
  BY EmptySeq, LenProperties
<1>2. Head(t) = t[1] /\ Head(t) \in S
  BY HeadTailProperties
<1>3. /\ Tail(t) \in Seq(S) /\ Len(Tail(t)) = n - 1
      /\ \A i \in 1..(n - 1) : Tail(t)[i] = t[i + 1]
  BY HeadTailProperties
<1>4. n <= m /\ \A i \in 1..n : t[i] = p[m - n + i]
  BY DEF SuffixOf
<1> HIDE DEF m, n
<1>5. m - n + 1 \in 1..m /\ 1 \in 1..n
  BY <1>1, <1>4
<1>6. Head(t) = p[m - n + 1]
  BY <1>2, <1>4, <1>5
<1>7. SuffixOf(Tail(t), p)
  <2>1. Len(Tail(t)) <= Len(p)
    BY <1>1, <1>3, <1>4 DEF m
  <2>2. ASSUME NEW i \in 1..(n - 1) PROVE Tail(t)[i] = p[m - (n - 1) + i]
    <3>1. i + 1 \in 1..n /\ m - n + (i + 1) = m - (n - 1) + i
      BY <1>1
    <3> QED  BY <1>3, <1>4, <3>1
  <2> QED  BY <1>3, <2>1, <2>2 DEF SuffixOf, m
<1> QED  BY <1>2, <1>3, <1>5, <1>6, <1>7 DEF m, n

Held(list, s) == \E at : Chain(nodes, list, s, at)

ThePath == Paths(job)[Added].path
Before  == Precedence(job)[Added - 1]
Given   == Named(ThePath)[Len(ThePath) - Len(rest)]

(* The lists are chains of nodes: between two paths, the list in use holds *)
(* the precedence of the paths added; while a path is appended, with the   *)
(* part of it that was taken up; and while it is collected apart from the  *)
(* list in use, the two lists end in different nodes.                      *)
ListInv ==
  /\ TypeOK
  /\ SuffixOf(todo, Paths(job))
  /\ status \notin {"building", "null store"} => target = "none" /\ todo = <<>>
  /\ target # "none" => Added >= 1 /\ SuffixOf(rest, ThePath)
  /\ status # "null store" =>
       /\ target = "none" => rest = <<>> /\ Held(dirs, Precedence(job)[Added])
       /\ target = "dirs" => /\ Paths(job)[Added].how = "append" \/ Before = <<>>
                             /\ Held(dirs, Before \o Given)
       /\ target = "temp" => /\ Paths(job)[Added].how = "prepend" /\ Before # <<>>
                             /\ Held(dirs, Before) /\ Held(temp, Given)
                             /\ temp.tail # dirs.tail

(* What a round of appendpath() finds.                                     *)
LEMMA Collecting ==
  ASSUME ListInv, target # "none"
  PROVE  /\ job \in Job /\ Added \in 1..Len(Paths(job)) /\ Added \in Nat /\ Added - 1 \in Nat
         /\ ThePath \in Path /\ rest \in Path
         /\ Before \in Seq(Dir) /\ Given \in Seq(Dir)
         /\ rest = <<>> => Given = Dirs(job, Added)
         /\ rest # <<>> =>
              /\ Head(rest) \in Dir \cup {Empty} /\ Tail(rest) \in Path
              /\ SuffixOf(Tail(rest), ThePath)
              /\ Named(ThePath)[Len(ThePath) - Len(Tail(rest))]
                   = IF Head(rest) = Empty THEN Given ELSE Append(Given, Head(rest))
<1> DEFINE N == Len(Paths(job))
           item == [how : {"append", "prepend"}, path : Path]
           p == ThePath
<1>1. job \in Job /\ rest \in Path /\ todo \in Seq(item) /\ Added >= 1 /\ SuffixOf(rest, p)
      /\ SuffixOf(todo, Paths(job))
  BY DEF ListInv, TypeOK
<1>2. N \in Nat /\ Len(todo) \in Nat
  BY <1>1, PrecedenceStep, LenProperties
<1>3. Added \in 1..N /\ Added \in Nat /\ Added - 1 \in Nat /\ Added - 1 \in 0..N
  BY <1>1, <1>2 DEF Added
<1>4. p \in Path /\ Len(p) \in Nat
  BY <1>1, <1>3, DirsTyped DEF ThePath
<1>5. Precedence(job) \in [0..N -> Seq(Dir)]
  BY <1>1, PrecedenceStep
<1>6. Before \in Seq(Dir)
  BY <1>3, <1>5 DEF Before
<1> HIDE DEF p
<1>7. /\ Named(p) \in [0..Len(p) -> Seq(Dir)]
      /\ \A n \in 1..Len(p) : Named(p)[n] = IF p[n] = Empty THEN Named(p)[n - 1]
                                            ELSE Append(Named(p)[n - 1], p[n])
  BY <1>4, NamedStep
<1>8. Len(rest) \in Nat /\ Len(rest) <= Len(p)
  <2>1. Len(rest) \in Nat
    BY <1>1, LenProperties DEF Path
  <2> QED  BY <1>1, <2>1 DEF SuffixOf
<1> DEFINE c == Len(p) - Len(rest)
<1>9. c \in 0..Len(p)
  BY <1>4, <1>8
<1>10. Given = Named(p)[c] /\ Given \in Seq(Dir)
  <2>1. Given = Named(p)[c]
    BY DEF Given, p
  <2>2. Named(p)[c] \in Seq(Dir)
    <3> HIDE DEF c
    <3> QED  BY <1>7, <1>9
  <2> QED  BY <2>1, <2>2
<1>11. ASSUME rest = <<>> PROVE Given = Dirs(job, Added)
  <2>1. Len(rest) = 0
    BY <1>11
  <2>2. c = Len(p)
    BY <1>4, <2>1
  <2> QED  BY <1>10, <2>2 DEF Dirs, p, ThePath
<1>12. ASSUME rest # <<>>
       PROVE  /\ Head(rest) \in Dir \cup {Empty} /\ Tail(rest) \in Path
              /\ SuffixOf(Tail(rest), p)
              /\ Named(p)[Len(p) - Len(Tail(rest))]
                   = IF Head(rest) = Empty THEN Given ELSE Append(Given, Head(rest))
  <2>1. /\ c + 1 \in 1..Len(p)
        /\ Head(rest) = p[c + 1] /\ Head(rest) \in Dir \cup {Empty}
        /\ Tail(rest) \in Path /\ Len(Tail(rest)) = Len(rest) - 1
        /\ SuffixOf(Tail(rest), p)
    BY <1>1, <1>4, <1>12, SuffixTail DEF Path
  <2>2. Len(p) - Len(Tail(rest)) = c + 1 /\ c + 1 - 1 = c
    <3>1. Len(Tail(rest)) = Len(rest) - 1 /\ Len(rest) \in Nat /\ Len(p) \in Nat
      BY <1>4, <1>8, <2>1
    <3>2. \A x, y \in Nat : x - (y - 1) = x - y + 1 /\ x - y + 1 - 1 = x - y
      OBVIOUS
    <3> QED  BY <3>1, <3>2, Zenon
  <2>3. Named(p)[c + 1] = IF p[c + 1] = Empty THEN Named(p)[c + 1 - 1]
                          ELSE Append(Named(p)[c + 1 - 1], p[c + 1])
    BY <1>7, <2>1
  <2> HIDE DEF c
  <2> QED  BY <1>10, <2>1, <2>2, <2>3
<1> QED  BY <1>1, <1>3, <1>4, <1>6, <1>10, <1>11, <1>12 DEF p

LEMMA ListInvInit == Init => ListInv
<1> SUFFICES ASSUME Init PROVE ListInv
  OBVIOUS
<1>1. job \in Job
  BY SearchPathAssumption DEF Init
<1>2. todo = Paths(job) /\ Paths(job) \in Seq([how : {"append", "prepend"}, path : Path])
  BY <1>1, PathsTyped DEF Init, PathsType
<1>3. Len(Paths(job)) \in Nat
  BY <1>1, PrecedenceStep
<1>4. nodes = <<>> /\ nodes \in Seq(Nodes(Len(nodes))) /\ Len(nodes) = 0
  BY EmptySeq DEF Init
<1>5. TypeOK
  <2>1. dirs \in List /\ temp \in List /\ node \in 0..Len(nodes)
    BY <1>4 DEF Init, List, NewList, Null
  <2>2. rest \in Path
    BY DEF Init, Path
  <2>3. nodes \in Seq([str : Dir, next : 0..Len(nodes)])
    BY <1>4 DEF Nodes
  <2> QED  BY <1>1, <1>2, <2>1, <2>2, <2>3 DEF Init, TypeOK
<1>6. SuffixOf(todo, Paths(job))
  <2>1. \A n \in Nat : n <= n /\ \A i \in 1..n : n - n + i = i
    OBVIOUS
  <2> QED  BY <1>2, <1>3, <2>1 DEF SuffixOf
<1>7. Held(dirs, Precedence(job)[Added])
  <2>1. Added = 0
    BY <1>2, <1>3 DEF Added
  <2>2. Precedence(job)[Added] = <<>>
    BY <1>1, <2>1, PrecedenceStep
  <2>3. Chain(nodes, dirs, <<>>, [i \in 1..0 |-> 1])
    BY <1>4 DEF Init, NewList, Chain
  <2> QED  BY <2>2, <2>3 DEF Held
<1> QED  BY <1>5, <1>6, <1>7 DEF Init, ListInv

(* What both ways to begin with a path do.                                 *)
LEMMA PathBegun ==
  ASSUME ListInv, target = "none", status = "building", todo # <<>>,
         rest' = Head(todo).path, todo' = Tail(todo), job' = job
  PROVE  /\ Added' \in Nat /\ Added' >= 1
         /\ rest' \in Path /\ SuffixOf(rest, ThePath)'
         /\ todo' \in Seq([how : {"append", "prepend"}, path : Path])
         /\ SuffixOf(todo, Paths(job))'
         /\ Paths(job)'[Added'].how = Head(todo).how
         /\ Before' = Precedence(job)[Added] /\ Before' \in Seq(Dir) /\ Given' = <<>>
<1> DEFINE item == [how : {"append", "prepend"}, path : Path]
           N == Len(Paths(job))
           n == Len(todo)
<1>1. job \in Job /\ todo \in Seq(item) /\ SuffixOf(todo, Paths(job))
  BY DEF ListInv, TypeOK
<1>2. Paths(job) \in Seq(item)
  BY <1>1, PathsTyped DEF PathsType
<1>3. /\ N - n + 1 \in 1..N
      /\ Head(todo) = Paths(job)[N - n + 1] /\ Head(todo) \in item
      /\ Tail(todo) \in Seq(item) /\ Len(Tail(todo)) = n - 1
      /\ SuffixOf(Tail(todo), Paths(job))
  BY <1>1, <1>2, SuffixTail
<1>4. N \in Nat /\ n \in Nat
  BY <1>1, <1>2, LenProperties
<1>5. Added = N - n /\ Added' = N - n + 1 /\ Added' - 1 = Added /\ Added' \in 1..N
  <2>1. \A x, y \in Nat : x - (y - 1) = x - y + 1 /\ x - y + 1 - 1 = x - y
    OBVIOUS
  <2>2. Added = N - n /\ Added' = N - Len(Tail(todo))
    BY DEF Added
  <2> QED  BY <1>3, <1>4, <2>1, <2>2
<1>6. ThePath' = rest' /\ rest' \in Path /\ Paths(job)'[Added'].how = Head(todo).how
  BY <1>3, <1>5 DEF ThePath
<1>7. Before' = Precedence(job)[Added] /\ Before' \in Seq(Dir)
  <2>1. Before' = Precedence(job)[Added]
    BY <1>5 DEF Before
  <2>2. Precedence(job) \in [0..N -> Seq(Dir)] /\ Added \in 0..N
    BY <1>1, <1>3, <1>4, <1>5, PrecedenceStep
  <2> HIDE DEF N
  <2> QED  BY <2>1, <2>2
<1>8. Given' = <<>>
  <2>1. Len(rest') \in Nat
    BY <1>6, LenProperties DEF Path
  <2>2. Len(ThePath') - Len(rest') = 0
    BY <1>6, <2>1
  <2> QED  BY <1>6, <2>2, NamedStep DEF Given
<1>9. SuffixOf(rest, ThePath)'
  <2>1. Len(rest') \in Nat
    BY <1>6, LenProperties DEF Path
  <2>2. \A x \in Nat : x <= x /\ \A i \in 1..x : x - x + i = i
    OBVIOUS
  <2> QED  BY <1>6, <2>1, <2>2 DEF SuffixOf
<1>10. SuffixOf(todo, Paths(job))'
  BY <1>3
<1>11. Added' \in Nat /\ Added' >= 1
  BY <1>4, <1>5
<1> QED  BY <1>3, <1>6, <1>7, <1>8, <1>9, <1>10, <1>11

LEMMA BeginAppendKeeps ==
  ASSUME ListInv, BeginAppend
  PROVE  ListInv'
<1>1. /\ todo # <<>> /\ target = "none" /\ status = "building"
      /\ Held(dirs, Precedence(job)[Added])
      /\ rest' = Head(todo).path /\ todo' = Tail(todo) /\ target' = "dirs"
      /\ UNCHANGED <<job, nodes, dirs, temp, node, origin, status>>
  BY DEF ListInv, BeginAppend
<1>2. /\ Added' \in Nat /\ Added' >= 1
      /\ rest' \in Path /\ SuffixOf(rest, ThePath)'
      /\ todo' \in Seq([how : {"append", "prepend"}, path : Path])
      /\ SuffixOf(todo, Paths(job))'
      /\ Paths(job)'[Added'].how = Head(todo).how
      /\ Before' = Precedence(job)[Added] /\ Before' \in Seq(Dir) /\ Given' = <<>>
  BY <1>1, PathBegun
<1>3. Held(dirs, Before \o Given)'
  <2>1. Before' \o Given' = Precedence(job)[Added]
    BY <1>2, ConcatEmptySeq
  <2> QED  BY <1>1, <2>1 DEF Held
<1>4. Paths(job)'[Added'].how = "append" \/ Before' = <<>>
  <2>1. Head(todo).how = "append" \/ dirs.head = Null
    BY DEF BeginAppend
  <2>2. ASSUME dirs.head = Null PROVE Before' = <<>>
    <3>1. PICK at : Chain(nodes, dirs, Before', at)
      BY <1>1, <1>2 DEF Held
    <3> SUFFICES ASSUME Before' # <<>> PROVE FALSE
      OBVIOUS
    <3>2. 1 \in 1..Len(Before')
      BY <1>2, EmptySeq
    <3>3. dirs.head = at[1] /\ at[1] \in 1..Len(nodes)
      BY <3>1, <3>2 DEF Chain
    <3> QED  BY <2>2, <3>3 DEF Null
  <2> QED  BY <1>2, <2>1, <2>2
<1>5. TypeOK'
  BY <1>1, <1>2 DEF ListInv, TypeOK, List
<1> QED  BY <1>1, <1>2, <1>3, <1>4, <1>5 DEF ListInv

LEMMA BeginPrependKeeps ==
  ASSUME ListInv, BeginPrepend
  PROVE  ListInv'
<1>1. /\ todo # <<>> /\ target = "none" /\ status = "building"
      /\ Held(dirs, Precedence(job)[Added])
      /\ Head(todo).how = "prepend" /\ dirs.head # Null
      /\ rest' = Head(todo).path /\ todo' = Tail(todo) /\ target' = "temp" /\ temp' = NewList
      /\ UNCHANGED <<job, nodes, dirs, node, origin, status>>
  BY DEF ListInv, BeginPrepend
<1>2. /\ Added' \in Nat /\ Added' >= 1
      /\ rest' \in Path /\ SuffixOf(rest, ThePath)'
      /\ todo' \in Seq([how : {"append", "prepend"}, path : Path])
      /\ SuffixOf(todo, Paths(job))'
      /\ Paths(job)'[Added'].how = Head(todo).how
      /\ Before' = Precedence(job)[Added] /\ Before' \in Seq(Dir) /\ Given' = <<>>
  BY <1>1, PathBegun
<1>3. Held(dirs, Before)' /\ Before' # <<>> /\ dirs.tail # Null
  <2>1. PICK at : Chain(nodes, dirs, Before', at)
    BY <1>1, <1>2 DEF Held
  <2>2. Before' # <<>>
    BY <1>1, <2>1 DEF Chain
  <2>3. Len(Before') \in 1..Len(Before')
    BY <1>2, <2>2, EmptySeq
  <2>4. dirs.tail \in 1..Len(nodes)
    BY <2>1, <2>2, <2>3 DEF Chain
  <2> QED  BY <1>1, <2>1, <2>2, <2>4 DEF Held, Null
<1>4. Held(temp, Given)' /\ temp'.tail # dirs'.tail
  <2>1. Chain(nodes', temp', <<>>, [i \in 1..0 |-> 1])
    BY <1>1 DEF NewList, Chain
  <2> QED  BY <1>1, <1>2, <1>3, <2>1 DEF Held, NewList
<1>5. TypeOK'
  <2>1. temp' \in List'
    <3>1. Len(nodes) \in Nat
      BY LenProperties DEF ListInv, TypeOK
    <3> QED  BY <1>1, <3>1 DEF List, NewList, Null
  <2> QED  BY <1>1, <1>2, <2>1 DEF ListInv, TypeOK, List
<1> QED  BY <1>1, <1>2, <1>3, <1>4, <1>5 DEF ListInv

LEMMA SkipEmptyKeeps ==
  ASSUME ListInv, SkipEmpty
  PROVE  ListInv'
<1>1. /\ rest # <<>> /\ Head(rest) = Empty /\ rest' = Tail(rest) /\ status = "building"
      /\ UNCHANGED <<job, todo, nodes, dirs, temp, target, node, origin, status>>
  BY DEF SkipEmpty
<1>2. target # "none"
  BY <1>1 DEF ListInv
<1>3. /\ rest' \in Path
      /\ SuffixOf(rest', ThePath)
      /\ Named(ThePath)[Len(ThePath) - Len(rest')] = Given
  BY <1>1, <1>2, Collecting
<1>4. Added' = Added /\ ThePath' = ThePath /\ Before' = Before
  BY <1>1 DEF Added, ThePath, Before
<1>5. Given' = Given
  BY <1>3, <1>4 DEF Given
<1>6. TypeOK'
  BY <1>1, <1>3 DEF ListInv, TypeOK, List
<1>7. \A list, s : Held(list, s) => \E at : Chain(nodes', list, s, at)
  BY <1>1 DEF Held
<1>8. target = "dirs" => Held(dirs, Before \o Given)'
  BY <1>1, <1>4, <1>5, <1>7 DEF ListInv, Held
<1>9. target = "temp" => Held(dirs, Before)' /\ Held(temp, Given)'
  BY <1>1, <1>4, <1>5, <1>7 DEF ListInv, Held
<1> QED  BY <1>1, <1>2, <1>3, <1>4, <1>6, <1>8, <1>9 DEF ListInv

LEMMA EndAppendKeeps ==
  ASSUME ListInv, EndAppend
  PROVE  ListInv'
<1>1. /\ target = "dirs" /\ rest = <<>> /\ target' = "none" /\ status = "building"
      /\ UNCHANGED <<job, todo, rest, nodes, dirs, temp, node, origin, status>>
  BY DEF EndAppend
<1>2. /\ job \in Job /\ Added \in 1..Len(Paths(job))
      /\ Before \in Seq(Dir) /\ Given \in Seq(Dir) /\ Given = Dirs(job, Added)
  BY <1>1, Collecting
<1>3. Held(dirs, Before \o Given) /\ (Paths(job)[Added].how = "append" \/ Before = <<>>)
  BY <1>1 DEF ListInv
<1>4. Precedence(job)[Added] = IF Paths(job)[Added].how = "append"
                               THEN Before \o Given ELSE Given \o Before
  BY <1>2, PrecedenceStep DEF Before
<1>5. Precedence(job)[Added] = Before \o Given
  <2>1. <<>> \o Given = Given /\ Given \o <<>> = Given
    BY <1>2, ConcatEmptySeq
  <2> QED  BY <1>3, <1>4, <2>1
<1>6. Added' = Added
  BY <1>1 DEF Added
<1>7. Held(dirs, Precedence(job)[Added])'
  BY <1>1, <1>3, <1>5, <1>6 DEF Held
<1>8. TypeOK'
  BY <1>1 DEF ListInv, TypeOK, List
<1> QED  BY <1>1, <1>7, <1>8 DEF ListInv

LEMMA AppendDirKeeps ==
  ASSUME ListInv, AppendDir
  PROVE  ListInv'
<1> DEFINE new == Len(nodes) + 1
           d == Head(rest)
           list == IF target = "dirs" THEN dirs ELSE temp
<1>1. /\ rest # <<>> /\ d # Empty /\ rest' = Tail(rest) /\ status = "building"
      /\ nodes' = Linked(list, new, d)
      /\ target = "dirs" => dirs' = Appended(dirs, new) /\ temp' = temp
      /\ target # "dirs" => temp' = Appended(temp, new) /\ dirs' = dirs
      /\ UNCHANGED <<job, todo, target, node, origin, status>>
  BY DEF AppendDir
<1>2. target \in {"dirs", "temp"}
  BY <1>1 DEF ListInv, TypeOK
<1>3. /\ Before \in Seq(Dir) /\ Given \in Seq(Dir)
      /\ d \in Dir /\ rest' \in Path
      /\ SuffixOf(rest', ThePath)
      /\ Named(ThePath)[Len(ThePath) - Len(rest')] = Append(Given, d)
  BY <1>1, <1>2, Collecting
<1>4. Added' = Added /\ ThePath' = ThePath /\ Before' = Before
  BY <1>1 DEF Added, ThePath, Before
<1>5. Given' = Append(Given, d)
  BY <1>3, <1>4 DEF Given
<1>6. nodes \in Seq(Nodes(Len(nodes))) /\ dirs \in List /\ temp \in List
  BY DEF ListInv, TypeOK, Nodes
<1>7. list \in List
  BY <1>6
<1>8. Len(nodes) \in Nat /\ nodes' \in Seq(Nodes(new)) /\ Len(nodes') = new
  <2> HIDE DEF list, new, d
  <2> QED  BY <1>1, <1>3, <1>6, <1>7, LinkedNodes DEF new
<1>9. Appended(list, new) \in [head : 0..new, tail : 0..new] /\ Appended(list, new).tail = new
  <2>1. list.head \in 0..new /\ new \in 0..new
    BY <1>7, <1>8 DEF List
  <2> HIDE DEF list, new
  <2> QED  BY <2>1 DEF Appended
<1>10. TypeOK'
  <2>1. nodes' \in Seq([str : Dir, next : 0..Len(nodes')])
    BY <1>8 DEF Nodes
  <2>2. dirs' \in List' /\ temp' \in List'
    <3>1. dirs \in [head : 0..new, tail : 0..new] /\ temp \in [head : 0..new, tail : 0..new]
      BY <1>6, <1>8 DEF List
    <3>2. List' = [head : 0..new, tail : 0..new]
      BY <1>8 DEF List
    <3>3. CASE target = "dirs"
      BY <1>1, <1>9, <3>1, <3>2, <3>3
    <3>4. CASE target = "temp"
      BY <1>1, <1>9, <3>1, <3>2, <3>4
    <3> QED  BY <1>2, <3>3, <3>4
  <2>3. node' \in 0..Len(nodes')
    BY <1>1, <1>8 DEF ListInv, TypeOK
  <2> QED  BY <1>1, <1>3, <2>1, <2>2, <2>3 DEF ListInv, TypeOK
<1>11. CASE target = "dirs"
  <2>1. PICK at : Chain(nodes, dirs, Before \o Given, at)
    BY <1>1, <1>11 DEF ListInv, Held
  <2>2. Before \o Given \in Seq(Dir)
    BY <1>3, ConcatProperties
  <2>3. \E at2 : Chain(Linked(dirs, new, d), Appended(dirs, new), Append(Before \o Given, d), at2)
    <3> HIDE DEF d
    <3> QED  BY <1>3, <1>6, <2>1, <2>2, AppendChain
  <2>4. Append(Before \o Given, d) = Before \o Append(Given, d)
    <3> HIDE DEF d
    <3>1. <<d>> \in Seq(Dir)
      BY <1>3
    <3>2. Append(Before \o Given, d) = (Before \o Given) \o <<d>>
      BY <1>3, <2>2, AppendIsConcat
    <3>3. Append(Given, d) = Given \o <<d>>
      BY <1>3, AppendIsConcat
    <3> QED  BY <1>3, <3>1, <3>2, <3>3, ConcatAssociative
  <2>5. nodes' = Linked(dirs, new, d) /\ dirs' = Appended(dirs, new)
    BY <1>1, <1>11
  <2>6. Held(dirs, Before \o Given)'
    <3> HIDE DEF d, new
    <3> QED  BY <1>4, <1>5, <2>3, <2>4, <2>5 DEF Held
  <2> QED  BY <1>1, <1>3, <1>4, <1>10, <1>11, <2>6 DEF ListInv
<1>12. CASE target = "temp"
  <2>1. PICK at : Chain(nodes, temp, Given, at)
    BY <1>1, <1>12 DEF ListInv, Held
  <2>2. PICK at2 : Chain(nodes, dirs, Before, at2)
    BY <1>1, <1>12 DEF ListInv, Held
  <2>3. temp.tail # dirs.tail
    BY <1>1, <1>12 DEF ListInv
  <2>4. nodes' = Linked(temp, new, d) /\ temp' = Appended(temp, new) /\ dirs' = dirs
    BY <1>1, <1>12
  <2>5. \E at3 : Chain(Linked(temp, new, d), Appended(temp, new), Append(Given, d), at3)
    <3> HIDE DEF d
    <3> QED  BY <1>3, <1>6, <2>1, AppendChain
  <2>6. Held(temp, Given)'
    <3> HIDE DEF d, new
    <3> QED  BY <1>5, <2>4, <2>5 DEF Held
  <2>7. Chain(Linked(temp, Len(nodes) + 1, d), dirs, Before, at2)
    <3> HIDE DEF d
    <3> QED  BY <1>3, <1>6, <2>1, <2>2, <2>3, OtherChain
  <2>8. Held(dirs, Before)'
    BY <1>4, <2>4, <2>7 DEF Held
  <2>9. temp'.tail # dirs'.tail
    <3>1. dirs.tail \in 0..Len(nodes)
      BY <1>6 DEF List
    <3>2. temp'.tail = new
      BY <1>9, <1>12, <2>4
    <3> QED  BY <1>8, <2>4, <3>1, <3>2
  <2> QED  BY <1>1, <1>3, <1>4, <1>10, <1>12, <2>6, <2>8, <2>9 DEF ListInv
<1> QED  BY <1>2, <1>11, <1>12

LEMMA TransplantKeeps ==
  ASSUME ListInv, Transplant
  PROVE  ListInv'
<1>1. /\ target = "temp" /\ rest = <<>> /\ target' = "none" /\ status = "building"
      /\ UNCHANGED <<job, todo, rest, temp, node, origin>>
  BY DEF Transplant
<1>2. nodes \in Seq(Nodes(Len(nodes))) /\ dirs \in List /\ temp \in List /\ Len(nodes) \in Nat
  BY LenProperties DEF ListInv, TypeOK, Nodes
<1>3. CASE temp.tail = Null
  <2>1. status' = "null store" /\ UNCHANGED <<nodes, dirs>>
    BY <1>3 DEF Transplant
  <2>2. TypeOK'
    BY <1>1, <2>1 DEF ListInv, TypeOK, List
  <2> QED  BY <1>1, <2>1, <2>2 DEF ListInv
<1>4. CASE temp.tail # Null
  <2>1. /\ nodes' = [nodes EXCEPT ![temp.tail].next = dirs.head]
        /\ dirs' = [dirs EXCEPT !.head = temp.head]
        /\ status' = status
    BY <1>4 DEF Transplant
  <2>2. /\ job \in Job /\ Added \in 1..Len(Paths(job))
        /\ Before \in Seq(Dir) /\ Given \in Seq(Dir) /\ Given = Dirs(job, Added)
    BY <1>1, Collecting
  <2>3. /\ Paths(job)[Added].how = "prepend" /\ Before # <<>>
        /\ Held(dirs, Before) /\ Held(temp, Given) /\ temp.tail # dirs.tail
    BY <1>1 DEF ListInv
  <2>4. PICK at1, at2 : Chain(nodes, temp, Given, at1) /\ Chain(nodes, dirs, Before, at2)
    BY <2>3 DEF Held
  <2>5. Given # <<>>
    BY <1>4, <2>4 DEF Chain
  <2>6. \E at : Chain(nodes', dirs', Given \o Before, at)
    BY <1>2, <2>1, <2>2, <2>3, <2>4, <2>5, TransplantChain
  <2>7. Precedence(job)[Added] = Given \o Before
    BY <2>2, <2>3, PrecedenceStep DEF Before
  <2>8. Added' = Added
    BY <1>1 DEF Added
  <2>9. Held(dirs, Precedence(job)[Added])'
    BY <1>1, <2>6, <2>7, <2>8 DEF Held
  <2>10. temp.tail \in 1..Len(nodes)
    BY <1>2, <1>4 DEF List, Null
  <2>11. nodes' \in Seq(Nodes(Len(nodes))) /\ Len(nodes') = Len(nodes)
    <3> DEFINE changed == [nodes[temp.tail] EXCEPT !.next = dirs.head]
    <3>1. nodes' = [nodes EXCEPT ![temp.tail] = changed]
      BY <2>1
    <3>2. changed \in Nodes(Len(nodes))
      <4>1. nodes[temp.tail] \in Nodes(Len(nodes))
        BY <1>2, <2>10, ElementOfSeq
      <4> QED  BY <1>2, <4>1 DEF Nodes, List
    <3> HIDE DEF changed
    <3> QED  BY <1>2, <2>10, <3>1, <3>2, ExceptSeq
  <2>12. TypeOK'
    <3>1. dirs' \in List' /\ temp' \in List' /\ node' \in 0..Len(nodes')
      BY <1>1, <1>2, <2>1, <2>11 DEF List, ListInv, TypeOK
    <3>2. nodes' \in Seq([str : Dir, next : 0..Len(nodes')])
      BY <2>11 DEF Nodes
    <3> QED  BY <1>1, <2>1, <3>1, <3>2 DEF ListInv, TypeOK
  <2> QED  BY <1>1, <2>1, <2>9, <2>12 DEF ListInv
<1> QED  BY <1>3, <1>4

-----------------------------------------------------------------------------
(* Looking a package up.                                                   *)

Order == Precedence(job)[Len(Paths(job))]

Places == (IF job.isPath THEN <<Itself>> ELSE <<>>) \o Order

First(outcome) ==
  \E i \in DOMAIN Places : /\ origin = Places[i] /\ job.disk[Places[i]] = outcome
                           /\ \A k \in 1..(i - 1) : job.disk[Places[k]] = "notfound"

(* While findpackage() searches, the package was in none of the places     *)
(* before the node it has come to.                                         *)
Searching ==
  /\ job.isPath => job.disk[Itself] = "notfound"
  /\ \E k \in 1..(Len(Order) + 1) :
       /\ \A i \in 1..(k - 1) : job.disk[Order[i]] = "notfound"
       /\ \E at : /\ Chain(nodes, dirs, Order, at)
                  /\ node = IF k = Len(Order) + 1 THEN Null ELSE at[k]

Answered ==
  /\ status = "found" => First("ok")
  /\ status = "read error" => First("readerr")
  /\ status = "not found" => \A i \in DOMAIN Places : job.disk[Places[i]] = "notfound"

FindInv ==
  /\ ListInv
  /\ status = "searching" => Searching
  /\ Answered

(* The path given by the user, and then the directories.                   *)
LEMMA PlacesInOrder ==
  ASSUME job \in Job
  PROVE  /\ Order \in Seq(Dir) /\ Len(Order) \in Nat
         /\ job.isPath => /\ DOMAIN Places = 1..(Len(Order) + 1)
                          /\ Places[1] = Itself
                          /\ \A i \in 1..Len(Order) : Places[i + 1] = Order[i]
         /\ ~job.isPath => Places = Order /\ DOMAIN Places = 1..Len(Order)
<1>1. Order \in Seq(Dir)
  <2>1. /\ Len(Paths(job)) \in Nat
        /\ Precedence(job) \in [0..Len(Paths(job)) -> Seq(Dir)]
    BY PrecedenceStep
  <2>2. Len(Paths(job)) \in 0..Len(Paths(job))
    BY <2>1
  <2> QED  BY <2>1, <2>2 DEF Order
<1>2. Len(Order) \in Nat
  BY <1>1, LenProperties
<1>3. ASSUME job.isPath
      PROVE  /\ DOMAIN Places = 1..(Len(Order) + 1)
             /\ Places[1] = Itself
             /\ \A i \in 1..Len(Order) : Places[i + 1] = Order[i]
  <2> DEFINE S == Dir \cup {Itself}
             own == <<Itself>>
             m == Len(Order)
  <2>1. own \in Seq(S) /\ Len(own) = 1 /\ own[1] = Itself
    OBVIOUS
  <2>2. Order \in Seq(S)
    BY <1>1, SeqMonotonic
  <2>3. Places = own \o Order
    BY <1>3 DEF Places
  <2> HIDE DEF S, own
  <2>4. /\ own \o Order \in Seq(S) /\ Len(own \o Order) = 1 + m
        /\ \A i \in 1..(1 + m) : (own \o Order)[i] = IF i <= 1 THEN own[i] ELSE Order[i - 1]
    BY <2>1, <2>2, ConcatProperties, SMTT(20)
  <2>5. DOMAIN (own \o Order) = 1..(m + 1)
    BY <1>2, <2>4, LenProperties
  <2> HIDE DEF m
  <2>6. m \in Nat
    BY <1>2 DEF m
  <2>7. (own \o Order)[1] = Itself
    BY <2>1, <2>4, <2>6
  <2>8. ASSUME NEW i \in 1..m PROVE (own \o Order)[i + 1] = Order[i]
    <3>1. i + 1 \in 1..(1 + m) /\ ~(i + 1 <= 1) /\ i + 1 - 1 = i
      BY <2>6
    <3> QED  BY <2>4, <2>6, <3>1
  <2> QED  BY <2>3, <2>5, <2>7, <2>8 DEF m
<1>4. ASSUME ~job.isPath PROVE Places = Order /\ DOMAIN Places = 1..Len(Order)
  <2>1. Places = Order
    BY <1>1, <1>4, ConcatEmptySeq DEF Places
  <2> QED  BY <1>1, <2>1, LenProperties
<1> QED  BY <1>1, <1>2, <1>3, <1>4

(* The first k directories, after the path given by the user, do not have  *)
(* the package; directory k + 1 answers.                                   *)
LEMMA FirstPlace ==
  ASSUME job \in Job, NEW k \in 1..Len(Order), NEW outcome,
         job.isPath => job.disk[Itself] = "notfound",
         \A i \in 1..(k - 1) : job.disk[Order[i]] = "notfound",
         job.disk[Order[k]] = outcome
  PROVE  \E i \in DOMAIN Places : /\ Order[k] = Places[i] /\ job.disk[Places[i]] = outcome
                                  /\ \A n \in 1..(i - 1) : job.disk[Places[n]] = "notfound"
<1>1. Len(Order) \in Nat
  BY PlacesInOrder
<1>2. CASE job.isPath
  <2>1. k + 1 \in DOMAIN Places /\ Places[k + 1] = Order[k]
    BY <1>1, <1>2, PlacesInOrder
  <2>2. ASSUME NEW n \in 1..(k + 1 - 1) PROVE job.disk[Places[n]] = "notfound"
    <3>1. CASE n = 1
      BY <1>2, <3>1, PlacesInOrder
    <3>2. CASE n # 1
      <4>1. n - 1 \in 1..(k - 1) /\ n - 1 \in 1..Len(Order) /\ n - 1 + 1 = n
        BY <1>1, <3>2
      <4>2. Places[n - 1 + 1] = Order[n - 1]
        BY <1>2, <4>1, PlacesInOrder
      <4> QED  BY <4>1, <4>2
    <3> QED  BY <3>1, <3>2
  <2> QED  BY <2>1, <2>2
<1>3. CASE ~job.isPath
  BY <1>1, <1>3, PlacesInOrder
<1> QED  BY <1>2, <1>3

LEMMA FindInvInit == Init => FindInv
BY ListInvInit DEF Init, FindInv, Answered

(* The steps that build the list.                                          *)
LEMMA BuildingKeeps ==
  ASSUME FindInv, BeginAppend \/ BeginPrepend \/ SkipEmpty \/ AppendDir \/ EndAppend \/ Transplant
  PROVE  FindInv'
<1>1. ListInv'
  BY BeginAppendKeeps, BeginPrependKeeps, SkipEmptyKeeps, AppendDirKeeps, EndAppendKeeps,
     TransplantKeeps DEF FindInv
<1>2. status' \in {"building", "null store"}
  BY DEF BeginAppend, BeginPrepend, SkipEmpty, AppendDir, EndAppend, Transplant
<1>3. Answered' /\ (status' # "searching")
  BY <1>2 DEF Answered
<1> QED  BY <1>1, <1>3 DEF FindInv

(* A lookup does not touch the lists.                                      *)
LEMMA LookupKeepsLists ==
  ASSUME ListInv, target = "none", todo = <<>>, status # "null store",
         UNCHANGED <<job, todo, rest, nodes, dirs, temp, target>>,
         node' \in 0..Len(nodes), origin' \in Dir \cup {Itself, Empty},
         status' \in {"searching", "found", "not found", "read error"}
  PROVE  ListInv'
<1>1. TypeOK'
  BY DEF ListInv, TypeOK, List
<1>2. Added' = Added
  BY DEF Added
<1>3. Held(dirs, Precedence(job)[Added])'
  BY <1>2 DEF ListInv, Held
<1> QED  BY <1>1, <1>3 DEF ListInv

LEMMA BeginLookupKeeps ==
  ASSUME FindInv, BeginLookup
  PROVE  FindInv'
<1>1. /\ status = "building" /\ target = "none" /\ todo = <<>> /\ node' = dirs.head
      /\ UNCHANGED <<job, todo, rest, nodes, dirs, temp, target>>
      /\ ListInv /\ job \in Job /\ dirs \in List /\ origin \in Dir \cup {Itself, Empty}
  BY DEF BeginLookup, FindInv, ListInv, TypeOK
<1>2. job.disk[Itself] \in Outcome
  BY <1>1 DEF Job
<1>3. Order' = Order /\ Places' = Places
  BY <1>1 DEF Order, Places
<1>4. Added = Len(Paths(job)) /\ Held(dirs, Order)
  <2>1. Len(Paths(job)) \in Nat
    BY <1>1, PrecedenceStep
  <2>2. Added = Len(Paths(job))
    BY <1>1, <2>1 DEF Added
  <2> QED  BY <1>1, <2>2 DEF ListInv, Order
<1>5. (job.isPath => job.disk[Itself] = "notfound") => Searching'
  <2>1. PICK at : Chain(nodes, dirs, Order, at)
    BY <1>4 DEF Held
  <2>2. Order \in Seq(Dir) /\ Len(Order) \in Nat /\ 1 \in 1..(Len(Order) + 1)
    BY <1>1, PlacesInOrder
  <2>3. Order = <<>> <=> 1 = Len(Order) + 1
    BY <2>2, EmptySeq
  <2>4. node' = IF 1 = Len(Order) + 1 THEN Null ELSE at[1]
    BY <1>1, <2>1, <2>3 DEF Chain
  <2>5. \A i \in 1..(1 - 1) : job.disk[Order[i]] = "notfound"
    OBVIOUS
  <2> SUFFICES ASSUME job.isPath => job.disk[Itself] = "notfound" PROVE Searching'
    OBVIOUS
  <2> QED  BY <1>1, <1>3, <2>1, <2>2, <2>4, <2>5 DEF Searching
<1>6. node' \in 0..Len(nodes)
  BY <1>1 DEF List
<1>7. CASE ~job.isPath
  <2>1. status' = "searching" /\ origin' = origin
    BY <1>7 DEF BeginLookup
  <2>2. ListInv'
    BY <1>1, <1>6, <2>1, LookupKeepsLists
  <2> QED  BY <1>5, <1>7, <2>1, <2>2 DEF FindInv, Answered
<1>8. CASE job.isPath
  <2>1. Read(Itself, "searching")
    BY <1>8 DEF BeginLookup
  <2>2. CASE job.disk[Itself] = "notfound"
    <3>1. status' = "searching" /\ origin' = origin
      BY <2>1, <2>2 DEF Read
    <3>2. ListInv'
      BY <1>1, <1>6, <3>1, LookupKeepsLists
    <3> QED  BY <1>5, <2>2, <3>1, <3>2 DEF FindInv, Answered
  <2>3. CASE job.disk[Itself] # "notfound"
    <3>1. /\ origin' = Itself
          /\ status' = IF job.disk[Itself] = "ok" THEN "found" ELSE "read error"
          /\ job.disk[Itself] \in {"ok", "readerr"}
      BY <1>2, <2>1, <2>3 DEF Read, Outcome
    <3>2. ListInv'
      BY <1>1, <1>6, <3>1, LookupKeepsLists
    <3>3. First(job.disk[Itself])'
      <4>1. 1 \in DOMAIN Places /\ Places[1] = Itself
        BY <1>1, <1>8, PlacesInOrder
      <4>2. \A k \in 1..(1 - 1) : job.disk[Places[k]] = "notfound"
        OBVIOUS
      <4> QED  BY <1>1, <1>3, <3>1, <4>1, <4>2 DEF First
    <3>4. Answered'
      BY <1>1, <3>1, <3>3 DEF Answered
    <3> QED  BY <3>1, <3>2, <3>4 DEF FindInv
  <2> QED  BY <2>2, <2>3
<1> QED  BY <1>7, <1>8

LEMMA TryDirKeeps ==
  ASSUME FindInv, TryDir
  PROVE  FindInv'
<1> DEFINE place == nodes[node].str
<1>1. /\ status = "searching" /\ node # Null /\ Read(place, "searching")
      /\ node' = nodes[node].next
      /\ UNCHANGED <<job, todo, rest, nodes, dirs, temp, target>>
      /\ ListInv /\ job \in Job /\ origin \in Dir \cup {Itself, Empty}
      /\ target = "none" /\ todo = <<>> /\ Searching
      /\ nodes \in Seq(Nodes(Len(nodes))) /\ node \in 0..Len(nodes)
  BY DEF TryDir, FindInv, ListInv, TypeOK, Nodes
<1>2. Order' = Order /\ Places' = Places
  BY <1>1 DEF Order, Places
<1>3. Order \in Seq(Dir) /\ Len(Order) \in Nat
  BY <1>1, PlacesInOrder
<1>4. PICK k, at :
        /\ k \in 1..(Len(Order) + 1)
        /\ \A i \in 1..(k - 1) : job.disk[Order[i]] = "notfound"
        /\ Chain(nodes, dirs, Order, at)
        /\ node = IF k = Len(Order) + 1 THEN Null ELSE at[k]
  BY <1>1 DEF Searching
<1>5. k \in 1..Len(Order) /\ node = at[k]
  BY <1>1, <1>3, <1>4
<1>6. place = Order[k] /\ node' = IF k = Len(Order) THEN Null ELSE at[k + 1]
  BY <1>1, <1>4, <1>5 DEF Chain
<1>7. node' \in 0..Len(nodes) /\ place \in Dir
  <2>1. node \in 1..Len(nodes)
    BY <1>1 DEF Null
  <2>2. nodes[node] \in Nodes(Len(nodes))
    BY <1>1, <2>1, ElementOfSeq
  <2> QED  BY <1>1, <2>2 DEF Nodes
<1>8. job.disk[place] \in Outcome
  BY <1>1, <1>7 DEF Job
<1> HIDE DEF place
<1>9. CASE job.disk[place] = "notfound"
  <2>1. status' = "searching" /\ origin' = origin
    BY <1>1, <1>9 DEF Read
  <2>2. ListInv'
    BY <1>1, <1>7, <2>1, LookupKeepsLists
  <2>3. k + 1 \in 1..(Len(Order) + 1) /\ (k = Len(Order) <=> k + 1 = Len(Order) + 1)
    BY <1>3, <1>5
  <2>4. \A i \in 1..(k + 1 - 1) : job.disk[Order[i]] = "notfound"
    BY <1>4, <1>6, <1>9
  <2>5. node' = IF k + 1 = Len(Order) + 1 THEN Null ELSE at[k + 1]
    BY <1>6, <2>3
  <2>6. Searching'
    BY <1>1, <1>2, <1>4, <2>3, <2>4, <2>5 DEF Searching
  <2> QED  BY <2>1, <2>2, <2>6 DEF FindInv, Answered
<1>10. CASE job.disk[place] # "notfound"
  <2>1. /\ origin' = place
        /\ status' = IF job.disk[place] = "ok" THEN "found" ELSE "read error"
        /\ job.disk[place] \in {"ok", "readerr"}
    BY <1>1, <1>8, <1>10 DEF Read, Outcome
  <2>2. ListInv'
    BY <1>1, <1>7, <2>1, LookupKeepsLists
  <2>3. job.isPath => job.disk[Itself] = "notfound"
    BY <1>1 DEF Searching
  <2>4. PICK outcome : outcome = job.disk[place]
    OBVIOUS
  <2>5. \E i \in DOMAIN Places :
          /\ Order[k] = Places[i] /\ job.disk[Places[i]] = outcome
          /\ \A n \in 1..(i - 1) : job.disk[Places[n]] = "notfound"
    BY <1>1, <1>4, <1>5, <1>6, <2>3, <2>4, FirstPlace
  <2>6. First(outcome)'
    BY <1>1, <1>2, <1>6, <2>1, <2>5 DEF First
  <2>7. status' = (IF outcome = "ok" THEN "found" ELSE "read error")
        /\ outcome \in {"ok", "readerr"}
    BY <2>1, <2>4
  <2>8. Answered'
    BY <2>6, <2>7 DEF Answered
  <2> QED  BY <2>2, <2>7, <2>8 DEF FindInv
<1> QED  BY <1>9, <1>10

LEMMA NotFoundKeeps ==
  ASSUME FindInv, NotFound
  PROVE  FindInv'
<1>1. /\ status = "searching" /\ node = Null /\ status' = "not found"
      /\ UNCHANGED <<job, todo, rest, nodes, dirs, temp, target, node, origin>>
      /\ ListInv /\ job \in Job /\ origin \in Dir \cup {Itself, Empty}
      /\ target = "none" /\ todo = <<>> /\ Searching /\ node \in 0..Len(nodes)
  BY DEF NotFound, FindInv, ListInv, TypeOK
<1>2. Places' = Places
  BY <1>1 DEF Order, Places
<1>3. Order \in Seq(Dir) /\ Len(Order) \in Nat
  BY <1>1, PlacesInOrder
<1>4. PICK k, at :
        /\ k \in 1..(Len(Order) + 1)
        /\ \A i \in 1..(k - 1) : job.disk[Order[i]] = "notfound"
        /\ Chain(nodes, dirs, Order, at)
        /\ node = IF k = Len(Order) + 1 THEN Null ELSE at[k]
  BY <1>1 DEF Searching
<1>5. k = Len(Order) + 1
  <2> SUFFICES ASSUME k # Len(Order) + 1 PROVE FALSE
    OBVIOUS
  <2>1. k \in 1..Len(Order)
    BY <1>3, <1>4
  <2>2. at[k] \in 1..Len(nodes) /\ node = at[k]
    BY <1>4, <2>1 DEF Chain
  <2>3. node # 0
    BY <2>2
  <2> QED  BY <1>1, <2>3 DEF Null
<1>6. \A i \in 1..Len(Order) : job.disk[Order[i]] = "notfound"
  BY <1>3, <1>4, <1>5
<1>7. \A i \in DOMAIN Places : job.disk[Places[i]] = "notfound"
  <2>1. CASE job.isPath
    <3> SUFFICES ASSUME NEW i \in DOMAIN Places PROVE job.disk[Places[i]] = "notfound"
      OBVIOUS
    <3>1. CASE i = 1
      BY <1>1, <2>1, <3>1, PlacesInOrder DEF Searching
    <3>2. CASE i # 1
      <4>1. i \in 1..(Len(Order) + 1)
        BY <1>1, <2>1, PlacesInOrder
      <4>2. i - 1 \in 1..Len(Order) /\ i - 1 + 1 = i
        BY <1>3, <3>2, <4>1
      <4>3. Places[i - 1 + 1] = Order[i - 1]
        BY <1>1, <2>1, <4>2, PlacesInOrder
      <4> QED  BY <1>6, <4>2, <4>3
    <3> QED  BY <3>1, <3>2
  <2>2. CASE ~job.isPath
    BY <1>1, <1>6, <2>2, PlacesInOrder
  <2> QED  BY <2>1, <2>2
<1>8. ListInv'
  BY <1>1, LookupKeepsLists
<1> QED  BY <1>1, <1>2, <1>7, <1>8 DEF FindInv, Answered

LEMMA FindInvStep == FindInv /\ [Next]_vars => FindInv'
<1> SUFFICES ASSUME FindInv, [Next]_vars PROVE FindInv'
  OBVIOUS
<1>1. CASE BeginAppend \/ BeginPrepend \/ SkipEmpty \/ AppendDir \/ EndAppend \/ Transplant
  BY <1>1, BuildingKeeps
<1>2. CASE BeginLookup
  BY <1>2, BeginLookupKeeps
<1>3. CASE TryDir
  BY <1>3, TryDirKeeps
<1>4. CASE NotFound
  BY <1>4, NotFoundKeeps
<1>5. CASE UNCHANGED vars
  BY <1>5, ZenonT(40) DEF vars, FindInv, ListInv, TypeOK, List, Held, Added, ThePath, Before, Given,
              Searching, Answered, First, Order, Places
<1> QED  BY <1>1, <1>2, <1>3, <1>4, <1>5 DEF Next

(* Between any two steps the linked list is the search order of the paths  *)
(* added so far, whatever lists were spliced in front of it, for every     *)
(* environment and every number of --with-path options.                    *)
THEOREM ListIsInOrder == Spec => []SearchInv
<1>1. FindInv => SearchInv
  <2> SUFFICES ASSUME FindInv PROVE SearchInv
    OBVIOUS
  <2>1. ListInv /\ TypeOK
    BY DEF FindInv, ListInv
  <2>2. nodes \in Seq(Nodes(Len(nodes))) /\ dirs \in List /\ temp \in List /\ job \in Job
        /\ target \in {"none", "dirs", "temp"}
    BY <2>1 DEF TypeOK, Nodes
  <2>3. ASSUME status # "null store", target = "none"
        PROVE  Holds(dirs, Precedence(job)[Added])
    <3>1. PICK at : Chain(nodes, dirs, Precedence(job)[Added], at)
      BY <2>1, <2>3 DEF ListInv, Held
    <3>2. Precedence(job)[Added] \in Seq(Dir)
      <4>1. /\ Len(Paths(job)) \in Nat
            /\ Precedence(job) \in [0..Len(Paths(job)) -> Seq(Dir)]
        BY <2>2, PrecedenceStep
      <4>2. Len(todo) \in Nat /\ Len(todo) <= Len(Paths(job))
        BY <2>1, LenProperties DEF ListInv, TypeOK, SuffixOf
      <4>3. Added \in 0..Len(Paths(job))
        BY <4>1, <4>2 DEF Added
      <4> QED  BY <4>1, <4>3
    <3> QED  BY <2>2, <3>1, <3>2, ChainHolds
  <2>4. ASSUME status # "null store", target = "temp"
        PROVE  Holds(dirs, Before) /\ Holds(temp, Given)
    <3>1. Before \in Seq(Dir) /\ Given \in Seq(Dir)
      BY <2>1, <2>4, Collecting
    <3>2. PICK at1, at2 : Chain(nodes, dirs, Before, at1) /\ Chain(nodes, temp, Given, at2)
      BY <2>1, <2>4 DEF ListInv, Held
    <3> QED  BY <2>2, <3>1, <3>2, ChainHolds
  <2>5. ListIsPrecedence
    <3>1. CASE status # "null store" /\ target = "none"
      BY <2>3, <3>1 DEF ListIsPrecedence
    <3>2. CASE status # "null store" /\ target = "temp"
      BY <2>4, <3>2 DEF ListIsPrecedence, Before, Given, ThePath
    <3>3. CASE status # "null store" /\ target = "dirs"
      BY <3>3 DEF ListIsPrecedence
    <3>4. CASE status = "null store"
      BY <3>4 DEF ListIsPrecedence
    <3> QED  BY <2>2, <3>1, <3>2, <3>3, <3>4
  <2> QED  BY <2>1, <2>5 DEF SearchInv
<1> QED  BY <1>1, FindInvInit, FindInvStep, PTL DEF Spec

(* A directory of the search order is a component of one of the paths.     *)
LEMMA NamedFrom ==
  ASSUME NEW path \in Path, NEW d \in Dir,
         \A i \in DOMAIN path : path[i] # d
  PROVE  \A n \in 0..Len(path), k \in Nat : k \in DOMAIN Named(path)[n] => Named(path)[n][k] # d
<1> DEFINE N == Len(path)
           f == Named(path)
           P == {n \in 0..N : \A k \in DOMAIN f[n] : f[n][k] # d}
<1>1. N \in Nat /\ DOMAIN path = 1..N /\ \A n \in 1..N : path[n] \in Dir \cup {Empty}
  BY LenProperties, ElementOfSeq DEF Path
<1>2. /\ f \in [0..N -> Seq(Dir)] /\ f[0] = <<>>
      /\ \A n \in 1..N : f[n] = IF path[n] = Empty THEN f[n - 1] ELSE Append(f[n - 1], path[n])
  BY NamedStep
<1> HIDE DEF N, f
<1>3. 0 \in P
  BY <1>1, <1>2
<1>4. ASSUME NEW n \in 1..N, n - 1 \in P PROVE n \in P
  <2>1. n \in 0..N /\ n - 1 \in 0..N
    BY <1>1
  <2>2. f[n - 1] \in Seq(Dir) /\ \A k \in DOMAIN f[n - 1] : f[n - 1][k] # d
    BY <1>2, <1>4, <2>1
  <2>3. CASE path[n] = Empty
    BY <1>2, <2>1, <2>2, <2>3
  <2>4. CASE path[n] # Empty
    <3>1. PICK s : s = f[n - 1]
      OBVIOUS
    <3>2. PICK t : t = Append(s, path[n])
      OBVIOUS
    <3>3. s \in Seq(Dir) /\ path[n] \in Dir /\ path[n] # d /\ \A k \in DOMAIN s : s[k] # d
      BY <1>1, <2>2, <2>4, <3>1
    <3>4. /\ t \in Seq(Dir) /\ Len(t) = Len(s) + 1 /\ Len(s) \in Nat
          /\ \A k \in 1..Len(s) : t[k] = s[k]
          /\ t[Len(s) + 1] = path[n]
      BY <3>2, <3>3, AppendProperties, LenProperties
    <3>5. DOMAIN t = 1..(Len(s) + 1) /\ DOMAIN s = 1..Len(s)
      BY <3>3, <3>4, LenProperties
    <3>6. \A k \in DOMAIN t : t[k] # d
      BY <3>3, <3>4, <3>5
    <3>7. f[n] = t
      BY <1>2, <2>4, <3>1, <3>2
    <3> QED  BY <2>1, <3>6, <3>7
  <2> QED  BY <2>3, <2>4
<1>5. \A n \in 0..N : n \in P
  <2> HIDE DEF P
  <2> QED  BY <1>1, <1>3, <1>4, InductionUpTo
<1> QED  BY <1>5 DEF N, f

LEMMA PrecedenceFrom ==
  ASSUME NEW j \in Job, NEW d \in Dir,
         \A m \in 1..Len(Paths(j)), i \in Nat : i \in DOMAIN Paths(j)[m].path => Paths(j)[m].path[i] # d
  PROVE  \A n \in 0..Len(Paths(j)), k \in Nat :
           k \in DOMAIN Precedence(j)[n] => Precedence(j)[n][k] # d
<1> DEFINE N == Len(Paths(j))
           f == Precedence(j)
           P == {n \in 0..N : \A k \in DOMAIN f[n] : f[n][k] # d}
<1>1. /\ N \in Nat /\ f \in [0..N -> Seq(Dir)] /\ f[0] = <<>>
      /\ \A n \in 1..N : f[n] = IF Paths(j)[n].how = "append" THEN f[n - 1] \o Dirs(j, n)
                                ELSE Dirs(j, n) \o f[n - 1]
  BY PrecedenceStep
<1>2. \A n \in 1..N : Dirs(j, n) \in Seq(Dir) /\ \A k \in DOMAIN Dirs(j, n) : Dirs(j, n)[k] # d
  <2> SUFFICES ASSUME NEW n \in 1..N
               PROVE  Dirs(j, n) \in Seq(Dir) /\ \A k \in DOMAIN Dirs(j, n) : Dirs(j, n)[k] # d
    OBVIOUS
  <2>1. PICK path : path = Paths(j)[n].path
    OBVIOUS
  <2>2. path \in Path /\ Len(path) \in Nat /\ Dirs(j, n) \in Seq(Dir)
    BY <2>1, DirsTyped
  <2>3. \A i \in DOMAIN path : path[i] # d
    <3>1. \A i \in DOMAIN path : i \in Nat
      BY <2>2, LenProperties DEF Path
    <3> QED  BY <2>1, <3>1
  <2>4. Dirs(j, n) = Named(path)[Len(path)] /\ Len(path) \in 0..Len(path)
    BY <2>1, <2>2 DEF Dirs
  <2>5. \A k \in Nat : k \in DOMAIN Dirs(j, n) => Dirs(j, n)[k] # d
    BY <2>2, <2>3, <2>4, NamedFrom
  <2>6. \A k \in DOMAIN Dirs(j, n) : k \in Nat
    BY <2>2, LenProperties
  <2> QED  BY <2>2, <2>5, <2>6
<1>3. ASSUME NEW s \in Seq(Dir), NEW t \in Seq(Dir),
             \A k \in DOMAIN s : s[k] # d, \A k \in DOMAIN t : t[k] # d
      PROVE  \A k \in DOMAIN (s \o t) : (s \o t)[k] # d
  <2>1. /\ Len(s) \in Nat /\ Len(t) \in Nat /\ DOMAIN s = 1..Len(s) /\ DOMAIN t = 1..Len(t)
        /\ DOMAIN (s \o t) = 1..(Len(s) + Len(t))
    BY LenProperties, ConcatProperties
  <2> SUFFICES ASSUME NEW k \in 1..(Len(s) + Len(t)) PROVE (s \o t)[k] # d
    BY <2>1
  <2>2. (s \o t)[k] = IF k <= Len(s) THEN s[k] ELSE t[k - Len(s)]
    BY ConcatProperties
  <2>3. k <= Len(s) => k \in 1..Len(s)
    BY <2>1
  <2>4. ~(k <= Len(s)) => k - Len(s) \in 1..Len(t)
    BY <2>1
  <2> QED  BY <1>3, <2>1, <2>2, <2>3, <2>4
<1> HIDE DEF N, f
<1>4. 0 \in P
  BY <1>1
<1>5. ASSUME NEW n \in 1..N, n - 1 \in P PROVE n \in P
  <2>1. n \in 0..N /\ n - 1 \in 0..N
    BY <1>1
  <2>2. f[n - 1] \in Seq(Dir) /\ \A k \in DOMAIN f[n - 1] : f[n - 1][k] # d
    BY <1>1, <1>5, <2>1
  <2>3. \A k \in DOMAIN f[n] : f[n][k] # d
    BY <1>1, <1>2, <1>3, <2>2
  <2> QED  BY <2>1, <2>3
<1>6. \A n \in 0..N : n \in P
  <2> HIDE DEF P
  <2> QED  BY <1>1, <1>4, <1>5, InductionUpTo
<1> QED  BY <1>6 DEF N, f

(* The lookup ends at the first place, in the order of precedence, that    *)
(* has the package, however many places there are and whatever the file    *)
(* system says of each; and with PKG_CONFIG_LIBDIR set, that place was     *)
(* named by the user.                                                      *)
THEOREM FirstMatchWins == Spec => []LookupExact
<1>1. FindInv => LookupExact
  <2> SUFFICES ASSUME FindInv PROVE LookupExact
    OBVIOUS
  <2>1. job \in Job /\ Answered
    BY DEF FindInv, ListInv, TypeOK
  <2>2. ASSUME status = "found", job.libdir.set, origin # Itself
        PROVE  \E path \in {job.withpaths[i] : i \in DOMAIN job.withpaths}
                             \cup {job.envpath.value, job.libdir.value} :
                 \E i \in DOMAIN path : path[i] = origin
    <3> DEFINE N == Len(Paths(job))
    <3>1. PICK n \in DOMAIN Places : origin = Places[n]
      BY <2>1, <2>2 DEF Answered, First
    <3>2. Order \in Seq(Dir) /\ Len(Order) \in Nat /\ DOMAIN Order = 1..Len(Order)
      BY <2>1, PlacesInOrder, LenProperties
    <3>3. PICK k \in 1..Len(Order) : origin = Order[k]
      <4>1. CASE job.isPath
        <5>1. n \in 1..(Len(Order) + 1) /\ n # 1
          BY <2>1, <2>2, <3>1, <4>1, PlacesInOrder
        <5>2. n - 1 \in 1..Len(Order) /\ n - 1 + 1 = n
          BY <3>2, <5>1
        <5>3. Places[n - 1 + 1] = Order[n - 1]
          BY <2>1, <4>1, <5>2, PlacesInOrder
        <5> QED  BY <3>1, <5>2, <5>3
      <4>2. CASE ~job.isPath
        BY <2>1, <3>1, <4>2, PlacesInOrder
      <4> QED  BY <4>1, <4>2
    <3>4. PICK d : d = origin
      OBVIOUS
    <3>5. d \in Dir /\ k \in DOMAIN Order /\ k \in Nat /\ Order[k] = d
      BY <3>2, <3>3, <3>4
    <3>6. N \in Nat /\ N \in 0..N
      <4>1. N \in Nat
        BY <2>1, PrecedenceStep
      <4> QED  BY <4>1
    <3>7. PICK m \in 1..N, i \in Nat : i \in DOMAIN Paths(job)[m].path /\ Paths(job)[m].path[i] = d
      <4> SUFFICES ASSUME \A m \in 1..N, i \in Nat :
                            i \in DOMAIN Paths(job)[m].path => Paths(job)[m].path[i] # d
                   PROVE  FALSE
        OBVIOUS
      <4>1. \A x \in 0..N, y \in Nat :
              y \in DOMAIN Precedence(job)[x] => Precedence(job)[x][y] # d
        BY <2>1, <3>5, PrecedenceFrom
      <4> QED  BY <3>5, <3>6, <4>1 DEF Order
    <3>8. PICK path : path = Paths(job)[m].path
      OBVIOUS
    <3>9. path \in {job.withpaths[x] : x \in DOMAIN job.withpaths}
                    \cup {job.envpath.value, job.libdir.value}
      <4>1. /\ N = 2 + Len(job.withpaths)
            /\ Paths(job)[1].path = FromEnv(job.envpath, <<>>)
            /\ Paths(job)[2].path = FixedPath(job)
            /\ \A x \in 1..Len(job.withpaths) : Paths(job)[2 + x].path = job.withpaths[x]
        <5>1. PathsType(job)
          BY <2>1, PathsTyped
        <5>2. /\ Paths(job)[1] = [how |-> "append", path |-> FromEnv(job.envpath, <<>>)]
              /\ Paths(job)[2] = [how |-> "append", path |-> FixedPath(job)]
              /\ N = 2 + Len(job.withpaths)
          BY <5>1 DEF PathsType
        <5>3. ASSUME NEW x \in 1..Len(job.withpaths)
              PROVE  Paths(job)[2 + x].path = job.withpaths[x]
          <6>1. Paths(job)[2 + x] = [how |-> "prepend", path |-> job.withpaths[x]]
            BY <5>1 DEF PathsType
          <6> QED  BY <6>1
        <5>4. Paths(job)[1].path = FromEnv(job.envpath, <<>>) /\ Paths(job)[2].path = FixedPath(job)
          <6> HIDE DEF N
          <6> QED  BY <5>2
        <5> QED  BY <5>2, <5>3, <5>4
      <4>2. CASE m = 1
        BY <3>7, <3>8, <4>1, <4>2 DEF FromEnv
      <4>3. CASE m = 2
        BY <2>2, <3>8, <4>1, <4>3 DEF FixedPath, FromEnv
      <4>4. CASE m # 1 /\ m # 2
        <5>1. Len(job.withpaths) \in Nat /\ DOMAIN job.withpaths = 1..Len(job.withpaths)
          BY <2>1, LenProperties DEF Job
        <5>2. m - 2 \in 1..Len(job.withpaths) /\ 2 + (m - 2) = m
          BY <4>1, <4>4, <5>1
        <5>3. path = job.withpaths[m - 2]
          BY <3>8, <4>1, <5>2
        <5> QED  BY <5>1, <5>2, <5>3
      <4> QED  BY <4>2, <4>3, <4>4
    <3> QED  BY <3>4, <3>7, <3>8, <3>9
  <2> QED  BY <2>1, <2>2 DEF LookupExact, Answered, First, Places, Order
<1> QED  BY <1>1, FindInvInit, FindInvStep, PTL DEF Spec
=============================================================================
