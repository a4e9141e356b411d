---------------------------- MODULE ArgListProofs ----------------------------
(***************************************************************************)
(* Proofs about ArgList, for any words, fields and system directories.     *)
(***************************************************************************)
EXTENDS ArgList, Recursion

-----------------------------------------------------------------------------
(* Type correctness.                                                       *)

LEMMA JobType ==
  ASSUME NEW j \in Seq(Writer), NEW n \in 1..Len(j)
  PROVE  /\ j[n].system \in Seq(Arg \ Library)
         /\ j[n].words \in Seq(Arg \cup {Unmatched})
<1>1. j[n] \in Writer
  BY ElementOfSeq
<1> QED  BY <1>1 DEF Writer

LEMMA TypeInit == Init => TypeOK
<1> SUFFICES ASSUME Init PROVE TypeOK
  OBVIOUS
<1>1. job \in Seq(Writer) /\ Len(job) \in Nat
  BY ArgListAssumption, LenProperties DEF Init
<1>2. positions \in [Arg -> Int]
  BY DEF Init
<1> QED  BY <1>1, <1>2, EmptySeq DEF Init, TypeOK

LEMMA TypeStep == TypeOK /\ [Next]_vars => TypeOK'
<1> SUFFICES ASSUME TypeOK, [Next]_vars PROVE TypeOK'
  OBVIOUS
<1>0. Len(job) \in Nat
  BY LenProperties DEF TypeOK
<1>1. CASE NewWriter
  <2>1. current' \in 1..Len(job) /\ current' > 0
    BY <1>0, <1>1 DEF NewWriter, TypeOK
  <2>2. /\ system' \in Seq(Arg \ Library) /\ words' \in Seq(Arg \cup {Unmatched})
        /\ positions' \in [Arg -> Int] /\ list' \in Seq(Arg)
    BY <1>1, <2>1, JobType DEF NewWriter, TypeOK
  <2> QED  BY <1>1, <2>1, <2>2 DEF NewWriter, TypeOK
<1>2. CASE ExcludeArg
  <2>1. Head(system) \in Arg /\ Tail(system) \in Seq(Arg \ Library)
    BY <1>2, HeadTailProperties DEF ExcludeArg, TypeOK
  <2> QED  BY <1>2, <2>1 DEF ExcludeArg, TypeOK
<1>3. CASE AppendArg
  <2>1. Head(words) \in Arg /\ Tail(words) \in Seq(Arg \cup {Unmatched})
    BY <1>3, HeadTailProperties DEF AppendArg, TypeOK
  <2>0. list \in Seq(Arg)
    BY DEF TypeOK
  <2>2. Len(list) + 1 \in Int /\ Append(list, Head(words)) \in Seq(Arg)
    BY <2>0, <2>1, LenProperties, AppendProperties
  <2>3. list' \in Seq(Arg)
    BY <1>3, <2>0, <2>2 DEF AppendArg
  <2>4. positions' \in [Arg -> Int]
    BY <1>3, <2>1, <2>2 DEF AppendArg, Positioned, TypeOK
  <2> QED  BY <1>3, <2>1, <2>3, <2>4 DEF AppendArg, TypeOK
<1>4. CASE UnmatchedQuote
  BY <1>4 DEF UnmatchedQuote, TypeOK
<1>5. CASE BeginWrite
  BY <1>5, LenProperties DEF BeginWrite, TypeOK
<1>6. CASE WriteArg
  <2>1. Len(list) \in Nat /\ position' \in 1..Len(list)
    BY <1>6, LenProperties DEF WriteArg, TypeOK
  <2>2. list[position'] \in Arg
    BY <2>1, ElementOfSeq DEF TypeOK
  <2>3. <<Delim>> \in Seq(Arg \cup {Delim, Newline}) /\ <<>> \in Seq(Arg \cup {Delim, Newline})
        /\ <<list[position']>> \in Seq(Arg \cup {Delim, Newline})
    BY <2>2
  <2>4. out' \in Seq(Arg \cup {Delim, Newline})
    <3>1. ASSUME NEW d \in {<<Delim>>, <<>>}
          PROVE  out \o d \o <<list[position']>> \in Seq(Arg \cup {Delim, Newline})
      BY <2>3, ConcatProperties DEF TypeOK
    <3> QED  BY <1>6, <3>1 DEF WriteArg, TypeOK
  <2> QED  BY <1>6, <2>1, <2>4, SMTT(20) DEF WriteArg, TypeOK
<1>7. CASE EndWrite
  BY <1>7 DEF EndWrite, TypeOK
<1>8. CASE Finish
  <2>1. out' \in Seq(Arg \cup {Delim, Newline})
    BY <1>8, AppendProperties DEF Finish, TypeOK
  <2> QED  BY <1>8, <2>1 DEF Finish, TypeOK
<1>9. CASE UNCHANGED vars
  BY <1>9 DEF vars, TypeOK
<1> QED  BY <1>1, <1>2, <1>3, <1>4, <1>5, <1>6, <1>7, <1>8, <1>9 DEF Next

(* All variables keep their types.                                         *)
THEOREM TypeCorrect == Spec => []TypeOK
BY TypeInit, TypeStep, PTL DEF Spec

-----------------------------------------------------------------------------
(* The positions are right.                                                *)

(* s ends a sequence, and what stands in front of it there.                *)
Ends(s, all) == Len(s) <= Len(all) /\ \A i \in 1..Len(s) : s[i] = all[Len(all) - Len(s) + i]
InFront(s, all) == {all[i] : i \in 1..(Len(all) - Len(s))}

(* Processing one more element of it.                                      *)
LEMMA ExcludeOne ==
  ASSUME NEW S, NEW all \in Seq(S), NEW s \in Seq(S), s # <<>>, Ends(s, all)
  PROVE  Ends(Tail(s), all) /\ InFront(Tail(s), all) = InFront(s, all) \cup {Head(s)}
<1> DEFINE m == Len(s)
           n == Len(all)
<1>0. m <= n /\ \A i \in 1..m : s[i] = all[n - m + i]
  BY DEF Ends
<1>1. m \in Nat \ {0} /\ n \in Nat
  BY EmptySeq, LenProperties
<1>2. /\ Len(Tail(s)) = m - 1
      /\ \A i \in 1..m - 1 : Tail(s)[i] = s[i + 1]
      /\ Head(s) = s[1]
  BY HeadTailProperties
<1>3. Head(s) = all[n - m + 1]
  BY <1>0, <1>1, <1>2
<1> HIDE DEF m, n
<1>4. /\ m - 1 <= n
      /\ \A i \in 1..m - 1 : i + 1 \in 1..m /\ n - m + (i + 1) = n - (m - 1) + i
      /\ 1..(n - (m - 1)) = 1..(n - m) \cup {n - m + 1}
  BY <1>0, <1>1
<1>5. \A i \in 1..m - 1 : Tail(s)[i] = all[n - (m - 1) + i]
  BY <1>0, <1>1, <1>2, <1>4
<1>6. {all[i] : i \in 1..(n - (m - 1))} = {all[i] : i \in 1..(n - m)} \cup {all[n - m + 1]}
  BY <1>4
<1> QED  BY <1>1, <1>2, <1>3, <1>4, <1>5, <1>6 DEF m, n, Ends, InFront

(* One more word: its position is the one that counts now.                 *)
LEMMA AppendOne ==
  ASSUME NEW l \in Seq(Arg), NEW a \in Arg
  PROVE  /\ DOMAIN l = 1..Len(l) /\ Len(l) \in Nat
         /\ DOMAIN Append(l, a) = 1..Len(l) + 1
         /\ Append(l, a)[Len(l) + 1] = a
         /\ \A k \in 1..Len(l) : Append(l, a)[k] = l[k]
<1>1. Append(l, a) \in Seq(Arg)
  BY AppendProperties
<1> QED  BY <1>1, LenProperties, AppendProperties

(* insertsyspath() makes -I and -L words only.                             *)
LEMMA ExcludedNoLibrary ==
  ASSUME TypeOK, current \in 1..Len(job)
  PROVE  Excluded \cap Library = {}
<1>1. job[current].system \in Seq(Arg \ Library) /\ system \in Seq(Arg \ Library)
  BY JobType DEF TypeOK
<1>2. Len(job[current].system) \in Nat /\ Len(system) \in Nat
  BY <1>1, LenProperties
<1>3. \A i \in 1..(Len(job[current].system) - Len(system)) :
        job[current].system[i] \in Arg \ Library
  BY <1>1, <1>2, ElementOfSeq
<1> QED  BY <1>3 DEF Excluded

LEMMA ListInvInit == Init => ListInv
BY TypeInit DEF Init, ListInv

LEMMA ListInvStep == ListInv /\ [Next]_vars => ListInv'
<1> SUFFICES ASSUME ListInv, [Next]_vars PROVE ListInv'
  OBVIOUS
<1>t. TypeOK /\ TypeOK' /\ Len(job) \in Nat
  BY TypeStep, LenProperties DEF ListInv, TypeOK
<1>u. ASSUME UNCHANGED <<job, current, system, list, positions>>,
             status' \in {"filling", "writing"} => status \in {"filling", "writing"}
      PROVE  ListInv'
  BY <1>t, <1>u DEF ListInv, SystemIsSuffix, PositionRight, Excluded
<1>o. ASSUME status' \notin {"filling", "writing"}
      PROVE  ListInv'
  BY <1>t, <1>o DEF ListInv
<1>1. CASE NewWriter
  <2>1. /\ current' # 0 /\ system' = job'[current'].system /\ list' = <<>>
        /\ positions' = [a \in Arg |-> 0]
        /\ current' \in 1..Len(job)
    BY <1>1, <1>t DEF NewWriter, TypeOK
  <2>2. Len(system') \in Nat
    BY <1>t, LenProperties DEF TypeOK
  <2>3. Excluded' = {}
    BY <2>1, <2>2 DEF Excluded
  <2>4. SystemIsSuffix'
    BY <2>1, <2>2 DEF SystemIsSuffix
  <2>5. \A a \in Arg : PositionRight(a)'
    BY <2>1, <2>3 DEF PositionRight
  <2> QED  BY <1>t, <2>1, <2>4, <2>5 DEF ListInv
<1>2. CASE ExcludeArg
  <2>1. /\ current \in 1..Len(job) /\ current # 0 /\ system # <<>> /\ list = <<>>
        /\ system' = Tail(system) /\ list' = list
        /\ positions' = [positions EXCEPT ![Head(system)] = -1]
        /\ UNCHANGED <<job, current>>
        /\ SystemIsSuffix /\ \A a \in Arg : PositionRight(a)
    BY <1>2, <1>t DEF ExcludeArg, ListInv, TypeOK
  <2> SUFFICES ASSUME NEW CONSTANT all, all = job[current].system,
                      NEW CONSTANT s, s = system,
                      NEW CONSTANT S, S = Arg \ Library
               PROVE  ListInv'
    OBVIOUS
  <2>2. all \in Seq(S) /\ s \in Seq(S) /\ s # <<>> /\ Head(s) \in Arg
    BY <2>1, <1>t, JobType, HeadTailProperties, ZenonT(40) DEF TypeOK
  <2>3. Ends(Tail(s), all) /\ InFront(Tail(s), all) = InFront(s, all) \cup {Head(s)}
    <3>1. Ends(s, all)
      BY <2>1 DEF SystemIsSuffix, Ends
    <3> QED  BY ONLY <3>1, <2>2, ExcludeOne
  <2>4. Excluded' = Excluded \cup {Head(s)}
    <3>1. Excluded = InFront(s, all)
      BY <2>1 DEF Excluded, InFront
    <3>2. Excluded' = InFront(Tail(s), all)
      BY <2>1 DEF Excluded, InFront
    <3> QED  BY <3>1, <3>2, <2>3
  <2>5. SystemIsSuffix'
    BY <2>1, <2>3 DEF SystemIsSuffix, Ends
  <2>6. \A a \in Arg : PositionRight(a)'
    BY <2>1, <2>4, <1>t DEF PositionRight, TypeOK
  <2> QED  BY <1>t, <2>1, <2>5, <2>6 DEF ListInv
<1>3. CASE AppendArg
  <2> SUFFICES ASSUME NEW CONSTANT a, a = Head(words)
               PROVE  ListInv'
    OBVIOUS
  <2>1. a \in Arg
    <3>1. Head(words) \in Arg \cup {Unmatched}
      BY <1>3, <1>t, HeadTailProperties, SMTT(20) DEF AppendArg, TypeOK
    <3> QED  BY <1>3, <3>1 DEF AppendArg
  <2>2. /\ current \in 1..Len(job) /\ current # 0 /\ system = <<>>
        /\ UNCHANGED <<job, current, system>>
        /\ SystemIsSuffix /\ \A b \in Arg : PositionRight(b)
    BY <1>3, <1>t, SMTT(20) DEF AppendArg, ListInv, TypeOK
  <2>3. SystemIsSuffix' /\ Excluded' = Excluded
    BY <2>2 DEF SystemIsSuffix, Excluded
  <2>4. CASE ~FilterOk(job[current].filter, a)
    BY <1>3, <2>4, <1>u DEF AppendArg
  <2>5. CASE FilterOk(job[current].filter, a)
    <3>1. /\ list' = Append(list, a)
          /\ positions' = IF a \in Dedupable /\ (positions[a] = 0 \/ a \in Library)
                          THEN [positions EXCEPT ![a] = Len(list) + 1]
                          ELSE positions
      BY <1>3, <2>5 DEF AppendArg, Positioned
    <3>2. /\ DOMAIN list = 1..Len(list) /\ Len(list) \in Nat
          /\ DOMAIN list' = 1..Len(list) + 1
          /\ list'[Len(list) + 1] = a
          /\ \A k \in 1..Len(list) : list'[k] = list[k]
      BY <3>1, <2>1, <1>t, AppendOne DEF TypeOK
    <3>3. \A k \in DOMAIN list' : k = Len(list) + 1 \/ k \in 1..Len(list)
      BY <3>2
    <3>4. ASSUME NEW b \in Arg, b # a
          PROVE  PositionRight(b)'
      <4>1. positions'[b] = positions[b]
        BY <3>1, <3>4, <1>t DEF TypeOK
      <4>2. \A k \in DOMAIN list' : list'[k] = b => k \in DOMAIN list /\ list[k] = b
        BY <3>2, <3>3, <3>4
      <4>3. \A k \in DOMAIN list : k \in DOMAIN list' /\ list'[k] = list[k]
        BY <3>2
      <4> QED  BY <4>1, <4>2, <4>3, <2>2, <2>3 DEF PositionRight
    <3>5. PositionRight(a)'
      <4>0. PositionRight(a) /\ positions \in [Arg -> Int]
        BY <2>1, <2>2, <1>t DEF TypeOK
      <4>1. CASE a \in Excluded
        <5>1. a \notin Library /\ positions[a] = -1
          BY <4>0, <4>1, <2>1, ExcludedNoLibrary, <1>t, <2>2 DEF PositionRight
        <5> QED  BY <5>1, <3>1, <4>1, <2>3 DEF PositionRight
      <4>2. CASE a \notin Excluded /\ a \notin Dedupable
        BY <4>0, <4>2, <3>1, <2>3 DEF PositionRight
      <4>3. CASE a \notin Excluded /\ a \in Dedupable /\ (positions[a] = 0 \/ a \in Library)
        <5>1. positions'[a] = Len(list) + 1
          BY <3>1, <4>0, <4>3, <2>1
        <5>2. \A k \in DOMAIN list' : k <= Len(list) + 1
          BY <3>2
        <5>3. a \notin Library => \A k \in DOMAIN list : list[k] # a
          BY <4>0, <4>3, <3>2 DEF PositionRight
        <5>4. Len(list) + 1 \in DOMAIN list'
          BY <3>2
        <5>5. a \notin Library => \A k \in DOMAIN list' : list'[k] = a => k = Len(list) + 1
          BY <5>3, <3>2, <3>3
        <5> QED  BY <5>1, <5>2, <5>4, <5>5, <3>2, <4>3, <2>3 DEF PositionRight
      <4>4. CASE /\ a \notin Excluded /\ a \in Dedupable
                 /\ positions[a] # 0 /\ a \notin Library
        <5>1. positions'[a] = positions[a]
          BY <3>1, <4>4
        <5>2. /\ positions[a] \in DOMAIN list /\ list[positions[a]] = a
              /\ \A k \in DOMAIN list : list[k] = a => positions[a] <= k
          BY <4>0, <4>4 DEF PositionRight
        <5>3. positions[a] \in DOMAIN list' /\ list'[positions[a]] = a
          BY <5>2, <3>2
        <5>4. \A k \in DOMAIN list' : list'[k] = a => positions[a] <= k
          BY <5>2, <3>2, <3>3
        <5> QED  BY <5>1, <5>3, <5>4, <4>4, <2>3 DEF PositionRight
      <4> QED  BY <4>1, <4>2, <4>3, <4>4
    <3> QED  BY <1>t, <2>2, <2>3, <3>4, <3>5 DEF ListInv
  <2> QED  BY <2>4, <2>5
<1>4. CASE UnmatchedQuote
  BY <1>4, <1>o DEF UnmatchedQuote
<1>5. CASE BeginWrite
  BY <1>5, <1>u DEF BeginWrite
<1>6. CASE WriteArg
  BY <1>6, <1>u DEF WriteArg
<1>7. CASE EndWrite
  BY <1>7, <1>o DEF EndWrite
<1>8. CASE Finish
  BY <1>8, <1>o DEF Finish
<1>9. CASE UNCHANGED vars
  BY <1>9, <1>u DEF vars
<1> QED  BY <1>1, <1>2, <1>3, <1>4, <1>5, <1>6, <1>7, <1>8, <1>9 DEF Next

(* What is left of the system directories is a suffix of them, and every   *)
(* word's position is that of the occurrence that counts so far.           *)
THEOREM ListInvariant == Spec => []ListInv
BY ListInvInit, ListInvStep, PTL DEF Spec

-----------------------------------------------------------------------------
(* What the printed positions promise.                                     *)

(* The list is a sequence: its domain is an interval.                      *)
LEMMA ListDomain ==
  ASSUME ListInv
  PROVE  list \in Seq(Arg) /\ DOMAIN list = 1..Len(list) /\ Len(list) \in Nat
<1>1. list \in Seq(Arg)
  BY DEF ListInv, TypeOK
<1> QED  BY <1>1, LenProperties

LEMMA RightSelects == ListInv => PositionsSelect
<1> SUFFICES ASSUME ListInv, status \in {"filling", "writing"}, NEW i \in DOMAIN list
             PROVE  InPosition(i) <=> Kept(i)
  BY DEF PositionsSelect
<1>1. list \in Seq(Arg) /\ DOMAIN list = 1..Len(list) /\ Len(list) \in Nat
  BY ListDomain
<1>2. i \in Nat \ {0} /\ i \in 1..Len(list)
  BY <1>1
<1>3. list[i] \in Arg
  BY <1>1, <1>2, ElementOfSeq
<1>4. PositionRight(list[i])
  BY <1>3 DEF ListInv
<1>5. CASE list[i] \in Excluded
  BY <1>2, <1>4, <1>5 DEF PositionRight, InPosition, Kept, Counts
<1>6. CASE list[i] \notin Excluded /\ list[i] \notin Dedupable
  BY <1>4, <1>6 DEF PositionRight, InPosition, Kept, Counts
<1>7. CASE list[i] \notin Excluded /\ list[i] \in Dedupable
  <2> SUFFICES ASSUME NEW CONSTANT p, p = positions[list[i]]
               PROVE  InPosition(i) <=> Kept(i)
    OBVIOUS
  <2>1. /\ p \in DOMAIN list /\ list[p] = list[i]
        /\ \A k \in DOMAIN list :
             list[k] = list[i] => IF list[i] \in Library THEN k <= p ELSE p <= k
    BY <1>4, <1>7 DEF PositionRight
  <2>2. InPosition(i) <=> p = i
    BY <1>1, <2>1 DEF InPosition
  <2>3. Kept(i) <=> IF list[i] \in Library
                    THEN \A k \in DOMAIN list : k > i => list[k] # list[i]
                    ELSE \A k \in DOMAIN list : k < i => list[k] # list[i]
    BY <1>7 DEF Kept, Counts
  <2>4. CASE list[i] \in Library
    <3>1. p >= i
      BY <2>1, <2>4
    <3>2. (\A k \in DOMAIN list : k > i => list[k] # list[i]) <=> p = i
      BY <1>1, <2>1, <2>4, <3>1
    <3> QED  BY <2>2, <2>3, <2>4, <3>2
  <2>5. CASE list[i] \notin Library
    <3>1. p <= i
      BY <2>1, <2>5
    <3>2. (\A k \in DOMAIN list : k < i => list[k] # list[i]) <=> p = i
      BY <1>1, <2>1, <2>5, <3>1
    <3> QED  BY <2>2, <2>3, <2>5, <3>2
  <2> QED  BY <2>4, <2>5
<1> QED  BY <1>5, <1>6, <1>7

(* Exactly the occurrences that count are printed.                         *)
THEOREM PositionsSelectWords == Spec => []PositionsSelect
BY ListInvariant, RightSelects, PTL

(* A library is printed after the libraries that need it.                  *)
THEOREM LinkOrderIsKept == Spec => []LinkOrder
<1>1. ListInv => LinkOrder
  <2> SUFFICES ASSUME ListInv, status = "writing",
                      NEW x \in Library \cap Dedupable, NEW y \in Library \cap Dedupable,
                      \A i \in DOMAIN list : list[i] = x =>
                        \E j \in DOMAIN list : j > i /\ list[j] = y,
                      NEW i \in DOMAIN list, NEW j \in DOMAIN list,
                      list[i] = x, list[j] = y, InPosition(i), InPosition(j)
               PROVE  i < j
    BY DEF LinkOrder
  <2>0. DOMAIN list = 1..Len(list) /\ Len(list) \in Nat
    BY ListDomain
  <2>1. i \in Nat /\ j \in Nat /\ DOMAIN list \subseteq Nat
    BY <2>0
  <2>2. Kept(j)
    BY RightSelects DEF PositionsSelect
  <2>3. \A k \in DOMAIN list : k > j => list[k] # y
    BY <2>2 DEF Kept, Counts
  <2>4. PICK m \in DOMAIN list : m > i /\ list[m] = y
    OBVIOUS
  <2>5. ~(m > j)
    BY <2>3, <2>4
  <2> QED  BY <2>1, <2>4, <2>5
<1> QED  BY <1>1, ListInvariant, PTL

(* A search directory is printed where it first occurred.                  *)
THEOREM SearchOrderIsKept == Spec => []SearchOrder
<1>1. ListInv => SearchOrder
  <2> SUFFICES ASSUME ListInv, status = "writing",
                      NEW i \in DOMAIN list, NEW j \in DOMAIN list, NEW k \in DOMAIN list,
                      i < j, list[i] \in Dedupable \ Library, list[k] = list[i],
                      InPosition(k), InPosition(j)
               PROVE  k < j
    BY DEF SearchOrder
  <2>0. DOMAIN list = 1..Len(list) /\ Len(list) \in Nat
    BY ListDomain
  <2>1. i \in Nat /\ j \in Nat /\ k \in Nat
    BY <2>0
  <2>2. Kept(k)
    BY RightSelects DEF PositionsSelect
  <2>3. ~(i < k)
    BY <2>2 DEF Kept, Counts
  <2> QED  BY <2>1, <2>3
<1> QED  BY <1>1, ListInvariant, PTL

-----------------------------------------------------------------------------
(* The whole output.                                                       *)

Word == Arg \cup {Unmatched}

(* The equations of Keeping.                                               *)
Keeps(k, s, T) ==
  /\ k[0] = <<>>
  /\ \A n \in 1..Len(s) : k[n] = IF n \in T THEN Append(k[n - 1], s[n]) ELSE k[n - 1]
  /\ \A n \in 0..Len(s) : k[n] \in Seq(Word)

LEMMA KeepingKeeps ==
  ASSUME NEW s \in Seq(Word), NEW T
  PROVE  Keeps(Keeping(s, T), s, T)
<1> DEFINE N == Len(s)
           S == Seq(Word)
           Value(f, n) == IF n = 0 THEN <<>>
                          ELSE IF n \in T THEN Append(f[n - 1], s[n]) ELSE f[n - 1]
<1>1. N \in Nat /\ \A n \in 1..N : s[n] \in Word
  BY LenProperties, ElementOfSeq
<1>2. PICK base : base = <<>> /\ base \in S
  <2>1. <<>> \in S
    OBVIOUS
  <2> QED  BY <2>1
<1>3. PICK next : /\ next \in [1..N -> [S -> S]]
                  /\ \A n \in 1..N : \A v \in S : next[n][v] = IF n \in T THEN Append(v, s[n]) ELSE v
  <2> DEFINE step == [n \in 1..N |-> [v \in S |-> IF n \in T THEN Append(v, s[n]) ELSE v]]
  <2>1. step \in [1..N -> [S -> S]]
    <3>1. \A n \in 1..N : \A v \in S : Append(v, s[n]) \in S
      <4> HIDE DEF N
      <4> QED  BY <1>1, AppendProperties
    <3> HIDE DEF N, S
    <3> QED  BY <3>1
  <2>2. \A n \in 1..N : \A v \in S : step[n][v] = IF n \in T THEN Append(v, s[n]) ELSE v
    <3> HIDE DEF N, S
    <3> QED  OBVIOUS
  <2> HIDE DEF step, N, S
  <2> QED  BY <2>1, <2>2
<1>4. PICK g : RunsUpTo(g, N, S, base, next)
  <2> HIDE DEF N, S
  <2> QED  BY <1>1, <1>2, <1>3, RunUpToExists
<1>5. g = [n \in 0..N |-> Value(g, n)]
  <2> SUFFICES ASSUME NEW n \in 0..N PROVE g[n] = Value(g, n)
    <3> HIDE DEF Value, N, S
    <3> QED  BY <1>4 DEF RunsUpTo
  <2>1. CASE n = 0
    BY <2>1, <1>2, <1>4 DEF RunsUpTo
  <2>2. CASE n # 0
    <3>1. n \in 1..N /\ n - 1 \in 0..N
      BY <1>1, <2>2
    <3>2. g[n - 1] \in S /\ g[n] = next[n][g[n - 1]]
      <4> HIDE DEF N, S
      <4> QED  BY <1>4, <3>1 DEF RunsUpTo
    <3>3. g[n] = IF n \in T THEN Append(g[n - 1], s[n]) ELSE g[n - 1]
      <4> HIDE DEF N, S
      <4> QED  BY <1>3, <3>1, <3>2
    <3> QED  BY <2>2, <3>3
  <2> QED  BY <2>1, <2>2
<1> DEFINE h == CHOOSE h : h = [n \in 0..N |-> Value(h, n)]
<1>6. Keeping(s, T) = h
  BY DEF Keeping
<1>7. h = [n \in 0..N |-> Value(h, n)]
  BY <1>5
<1> HIDE DEF h
<1>8. /\ h[0] = <<>>
      /\ \A n \in 1..N : h[n] = IF n \in T THEN Append(h[n - 1], s[n]) ELSE h[n - 1]
  <2>1. \A n \in 0..N : h[n] = Value(h, n)
    <3> HIDE DEF N, Value
    <3> QED  BY <1>7, Zenon
  <2>2. 0 \in 0..N /\ \A n \in 1..N : n \in 0..N /\ n # 0
    BY <1>1
  <2> HIDE DEF N
  <2> QED  BY <2>1, <2>2
<1>9. \A n \in 0..N : h[n] \in S
  <2> DEFINE P == {n \in 0..N : h[n] \in S}
  <2>1. 0 \in P
    <3>1. 0 \in 0..N /\ h[0] \in S
      BY <1>1, <1>8
    <3> HIDE DEF N, S
    <3> QED  BY <3>1
  <2>2. ASSUME NEW n \in 1..N, n - 1 \in P PROVE n \in P
    <3>1. n \in 0..N /\ h[n - 1] \in S
      BY <1>1, <2>2
    <3>2. Append(h[n - 1], s[n]) \in S
      <4> HIDE DEF N
      <4> QED  BY <1>1, <3>1, AppendProperties
    <3> HIDE DEF N, S
    <3> QED  BY <1>8, <3>1, <3>2
  <2>3. \A n \in 0..N : n \in P
    <3> HIDE DEF P, N
    <3> QED  BY <1>1, <2>1, <2>2, InductionUpTo
  <2> QED  BY <2>3
<1> QED  BY <1>6, <1>8, <1>9 DEF Keeps

LEMMA OutputTyped ==
  ASSUME NEW w \in Writer
  PROVE  Selected(w) \in Seq(Word) /\ WriterOutput(w) \in Seq(Word)
<1>1. w.words \in Seq(Word)
  BY DEF Writer, Word
<1>2. Selected(w) \in Seq(Word)
  <2>1. Len(w.words) \in 0..Len(w.words)
    BY <1>1, LenProperties
  <2>2. Keeps(Keeping(w.words, Accepted(w)), w.words, Accepted(w))
    BY <1>1, KeepingKeeps
  <2> QED  BY <2>1, <2>2 DEF Keeps, Selected
<1>3. WriterOutput(w) \in Seq(Word)
  <2>1. Len(Selected(w)) \in 0..Len(Selected(w))
    BY <1>2, LenProperties
  <2>2. Keeps(Keeping(Selected(w), Due(w)), Selected(w), Due(w))
    BY <1>2, KeepingKeeps
  <2> QED  BY <2>1, <2>2 DEF Keeps, WriterOutput
<1> QED  BY <1>2, <1>3

(* The equations of Words.                                                 *)
WordsRun ==
  /\ Words[0] = <<>>
  /\ \A n \in 1..Len(job) : Words[n] = Words[n - 1] \o WriterOutput(job[n])
  /\ \A n \in 0..Len(job) : Words[n] \in Seq(Word)

LEMMA WordsRuns ==
  ASSUME job \in Seq(Writer)
  PROVE  WordsRun
<1> DEFINE N == Len(job)
           S == Seq(Word)
           Value(f, n) == IF n = 0 THEN <<>> ELSE f[n - 1] \o WriterOutput(job[n])
<1>1. N \in Nat /\ \A n \in 1..N : WriterOutput(job[n]) \in S
  BY LenProperties, ElementOfSeq, OutputTyped
<1>2. PICK base : base = <<>> /\ base \in S
  <2>1. <<>> \in S
    OBVIOUS
  <2> QED  BY <2>1
<1>3. PICK next : /\ next \in [1..N -> [S -> S]]
                  /\ \A n \in 1..N : \A v \in S : next[n][v] = v \o WriterOutput(job[n])
  <2> DEFINE step == [n \in 1..N |-> [v \in S |-> v \o WriterOutput(job[n])]]
  <2>1. step \in [1..N -> [S -> S]]
    <3>1. \A n \in 1..N : \A v \in S : v \o WriterOutput(job[n]) \in S
      <4> HIDE DEF N
      <4> QED  BY <1>1, ConcatProperties
    <3> HIDE DEF N, S
    <3> QED  BY <3>1
  <2>2. \A n \in 1..N : \A v \in S : step[n][v] = v \o WriterOutput(job[n])
    <3> HIDE DEF N, S
    <3> QED  OBVIOUS
  <2> HIDE DEF step, N, S
  <2> QED  BY <2>1, <2>2
<1>4. PICK g : RunsUpTo(g, N, S, base, next)
  <2> HIDE DEF N, S
  <2> QED  BY <1>1, <1>2, <1>3, RunUpToExists
<1>5. g = [n \in 0..N |-> Value(g, n)]
  <2> SUFFICES ASSUME NEW n \in 0..N PROVE g[n] = Value(g, n)
    <3> HIDE DEF Value, N, S
    <3> QED  BY <1>4 DEF RunsUpTo
  <2>1. CASE n = 0
    BY <2>1, <1>2, <1>4 DEF RunsUpTo
  <2>2. CASE n # 0
    <3>1. n \in 1..N /\ n - 1 \in 0..N
      BY <1>1, <2>2
    <3>2. g[n - 1] \in S /\ g[n] = next[n][g[n - 1]]
      <4> HIDE DEF N, S
      <4> QED  BY <1>4, <3>1 DEF RunsUpTo
    <3>3. g[n] = g[n - 1] \o WriterOutput(job[n])
      <4> HIDE DEF N, S
      <4> QED  BY <1>3, <3>1, <3>2
    <3> QED  BY <2>2, <3>3
  <2> QED  BY <2>1, <2>2
<1> DEFINE h == CHOOSE h : h = [n \in 0..N |-> Value(h, n)]
<1>6. Words = h
  BY DEF Words
<1>7. h = [n \in 0..N |-> Value(h, n)]
  BY <1>5
<1> HIDE DEF h
<1>8. h[0] = <<>> /\ \A n \in 1..N : h[n] = h[n - 1] \o WriterOutput(job[n])
  <2>1. \A n \in 0..N : h[n] = Value(h, n)
    <3> HIDE DEF N, Value
    <3> QED  BY <1>7, Zenon
  <2>2. 0 \in 0..N /\ \A n \in 1..N : n \in 0..N /\ n # 0
    BY <1>1
  <2> HIDE DEF N
  <2> QED  BY <2>1, <2>2
<1>9. \A n \in 0..N : h[n] \in S
  <2> DEFINE P == {n \in 0..N : h[n] \in S}
  <2>1. 0 \in P
    <3>1. 0 \in 0..N /\ h[0] \in S
      BY <1>1, <1>8
    <3> HIDE DEF N, S
    <3> QED  BY <3>1
  <2>2. ASSUME NEW n \in 1..N, n - 1 \in P PROVE n \in P
    <3>1. n \in 0..N /\ h[n - 1] \in S
      BY <1>1, <2>2
    <3>2. h[n - 1] \o WriterOutput(job[n]) \in S
      <4> HIDE DEF N
      <4> QED  BY <1>1, <3>1, ConcatProperties
    <3> HIDE DEF N, S
    <3> QED  BY <1>8, <3>1, <3>2
  <2>3. \A n \in 0..N : n \in P
    <3> HIDE DEF P, N
    <3> QED  BY <1>1, <2>1, <2>2, InductionUpTo
  <2> QED  BY <2>3
<1> QED  BY <1>6, <1>8, <1>9 DEF WordsRun

(* Words and the separators between them.                                  *)
LEMMA SeparatedTyped ==
  ASSUME NEW S, NEW s \in Seq(S), NEW m \in Nat, m = IF Len(s) = 0 THEN 0 ELSE 2 * Len(s) - 1
  PROVE  /\ Separated(s) \in Seq(S \cup {Delim}) /\ Len(Separated(s)) = m
         /\ \A n \in 1..m : Separated(s)[n] = IF n % 2 = 1 THEN s[(n + 1) \div 2] ELSE Delim
<1> DEFINE f == [n \in 1..m |-> IF n % 2 = 1 THEN s[(n + 1) \div 2] ELSE Delim]
           D == S \cup {Delim}
<1>1. Len(s) \in Nat /\ \A i \in 1..Len(s) : s[i] \in D
  BY LenProperties, ElementOfSeq
<1>2. ASSUME NEW n \in 1..m, n % 2 = 1 PROVE (n + 1) \div 2 \in 1..Len(s)
  BY <1>1, <1>2
<1>3. f \in [1..m -> D]
  BY <1>1, <1>2
<1>4. Separated(s) = f
  <2>1. 1..(2 * Len(s) - 1) = 1..m
    BY <1>1
  <2> QED  BY <2>1 DEF Separated
<1>5. \A n \in 1..m : f[n] = IF n % 2 = 1 THEN s[(n + 1) \div 2] ELSE Delim
  OBVIOUS
<1> HIDE DEF f, D
<1>6. f \in Seq(D) /\ Len(f) = m
  BY <1>3, FunctionIsSeq
<1> QED  BY <1>4, <1>5, <1>6 DEF D

(* A word more is printed behind a separator, except the first.            *)
LEMMA SeparatedStep ==
  ASSUME NEW S, NEW s \in Seq(S), NEW a \in S
  PROVE  Separated(Append(s, a)) = Separated(s) \o (IF Len(s) > 0 THEN <<Delim>> ELSE <<>>) \o <<a>>
<1> DEFINE L == Len(s)
           t == Append(s, a)
           D == S \cup {Delim}
<1>1. /\ L \in Nat /\ t \in Seq(S) /\ Len(t) = L + 1 /\ t[L + 1] = a
      /\ \A i \in 1..L : t[i] = s[i]
  BY LenProperties, AppendProperties
<1>2. PICK p, q : p = Separated(s) /\ q = Separated(t)
  OBVIOUS
<1>3. CASE L = 0
  <2>1. p \in Seq(D) /\ Len(p) = 0
    BY <1>2, <1>3, SeparatedTyped
  <2>2. q \in Seq(D) /\ Len(q) = 1 /\ q[1] = a
    <3>1. /\ q \in Seq(D) /\ Len(q) = 1
          /\ \A n \in 1..1 : q[n] = IF n % 2 = 1 THEN t[(n + 1) \div 2] ELSE Delim
      <4>1. 1 \in Nat /\ 1 = IF Len(t) = 0 THEN 0 ELSE 2 * Len(t) - 1
        BY <1>1, <1>3
      <4> HIDE DEF t
      <4> QED  BY <1>1, <1>2, <4>1, SeparatedTyped
    <3>2. 1 \in 1..1 /\ 1 % 2 = 1 /\ (1 + 1) \div 2 = 1
      OBVIOUS
    <3> QED  BY <1>1, <1>3, <3>1, <3>2
  <2>3. p = <<>>
    BY <2>1, EmptySeq
  <2>4. q = <<a>>
    <3>1. <<a>> \in Seq(D) /\ Len(<<a>>) = 1 /\ <<a>>[1] = a
      OBVIOUS
    <3> HIDE DEF D
    <3> QED  BY <2>2, <3>1, SeqEqual
  <2>5. <<>> \o <<>> \o <<a>> = <<a>>
    OBVIOUS
  <2>6. q = p \o (IF L > 0 THEN <<Delim>> ELSE <<>>) \o <<a>>
    <3>1. ~(L > 0)
      BY <1>3
    <3> QED  BY <2>3, <2>4, <2>5, <3>1
  <2> QED  BY <1>2, <2>6
<1>4. CASE L # 0
  <2> DEFINE M == 2 * L - 1
  <2>1. L > 0 /\ M \in Nat \ {0} /\ M + 2 \in Nat /\ 2 * (L + 1) - 1 = M + 2
    BY <1>1, <1>4
  <2>2. /\ p \in Seq(D) /\ Len(p) = M
        /\ \A n \in 1..M : p[n] = IF n % 2 = 1 THEN s[(n + 1) \div 2] ELSE Delim
    <3> HIDE DEF D
    <3>1. M = IF Len(s) = 0 THEN 0 ELSE 2 * Len(s) - 1
      BY <2>1
    <3> HIDE DEF M
    <3> QED  BY <1>2, <2>1, <3>1, SeparatedTyped DEF D
  <2>3. /\ q \in Seq(D) /\ Len(q) = M + 2
        /\ \A n \in 1..M + 2 : q[n] = IF n % 2 = 1 THEN t[(n + 1) \div 2] ELSE Delim
    <3>1. M + 2 = IF Len(t) = 0 THEN 0 ELSE 2 * Len(t) - 1
      BY <1>1, <2>1
    <3> HIDE DEF M, t
    <3> QED  BY <1>1, <1>2, <2>1, <3>1, SeparatedTyped DEF D
  <2>4. PICK u : u = Append(p, Delim)
    OBVIOUS
  <2>5. PICK v : v = Append(u, a)
    OBVIOUS
  <2>6. Delim \in D /\ a \in D
    OBVIOUS
  <2>7. /\ u \in Seq(D) /\ Len(u) = M + 1 /\ u[M + 1] = Delim
        /\ \A n \in 1..M : u[n] = p[n]
    <3> HIDE DEF D, M
    <3> QED  BY <2>2, <2>4, <2>6, AppendProperties
  <2>8. /\ v \in Seq(D) /\ Len(v) = M + 1 + 1 /\ v[M + 1 + 1] = a
        /\ \A n \in 1..M + 1 : v[n] = u[n]
    <3> HIDE DEF D, M
    <3> QED  BY <2>5, <2>6, <2>7, AppendProperties
  <2>9. ASSUME NEW n \in 1..(M + 2)
        PROVE  v[n] = q[n]
    <3>1. CASE n \in 1..M
      <4>1. n \in 1..M + 1 /\ v[n] = p[n]
        BY <2>1, <2>7, <2>8, <3>1
      <4>2. n % 2 = 1 => (n + 1) \div 2 \in 1..L
        BY <1>1, <3>1
      <4> HIDE DEF t, M
      <4> QED  BY <1>1, <2>2, <2>3, <3>1, <4>1, <4>2
    <3>2. CASE n = M + 1
      <4>1. n % 2 # 1 /\ M + 1 \in 1..M + 1
        BY <1>1, <2>1, <3>2
      <4> HIDE DEF t, M
      <4> QED  BY <2>3, <2>7, <2>8, <3>2, <4>1
    <3>3. CASE n = M + 2
      <4>1. n % 2 = 1 /\ (n + 1) \div 2 = L + 1 /\ M + 1 + 1 = M + 2
        BY <1>1, <2>1, <3>3
      <4> HIDE DEF t, M
      <4> QED  BY <1>1, <2>3, <2>8, <3>3, <4>1
    <3>4. n \in 1..M \/ n = M + 1 \/ n = M + 2
      BY <2>1
    <3> QED  BY <3>1, <3>2, <3>3, <3>4
  <2>10. v = q
    <3>1. Len(v) = M + 2
      BY <2>1, <2>8
    <3> HIDE DEF D, M
    <3> QED  BY <2>3, <2>8, <2>9, <3>1, SeqEqual
  <2>11. v = p \o <<Delim>> \o <<a>>
    <3> HIDE DEF D
    <3>1. u = p \o <<Delim>>
      BY <2>2, <2>4, <2>6, AppendIsConcat
    <3>2. v = u \o <<a>>
      BY <2>5, <2>6, <2>7, AppendIsConcat
    <3> QED  BY <3>1, <3>2
  <2> QED  BY <1>2, <2>1, <2>10, <2>11
<1> QED  BY <1>3, <1>4

LEMMA SeparatedNothing == Separated(<<>>) = <<>>
<1>1. <<>> \in Seq({}) /\ Len(<<>>) = 0
  BY EmptySeq
<1>2. Separated(<<>>) \in Seq({} \cup {Delim}) /\ Len(Separated(<<>>)) = 0
  <2>1. 0 \in Nat /\ 0 = IF Len(<<>>) = 0 THEN 0 ELSE 2 * Len(<<>>) - 1
    BY <1>1
  <2> QED  BY <1>1, <2>1, SeparatedTyped
<1> QED  BY <1>2, EmptySeq

-----------------------------------------------------------------------------
(* The invariant of the output.                                            *)

LEMMA WordsStay ==
  ASSUME job' = job
  PROVE  Words' = Words
BY DEF Words

LEMMA PrintInit == Init => PrintInv
<1> SUFFICES ASSUME Init PROVE PrintInv
  OBVIOUS
<1>1. job \in Seq(Writer)
  BY ArgListAssumption DEF Init
<1>2. Printed = <<>>
  BY <1>1, WordsRuns DEF Init, Printed, WordsRun
<1>3. Len(Printed) = 0 /\ Separated(Printed) = <<>>
  BY <1>2, SeparatedNothing
<1> QED  BY <1>3 DEF Init, PrintInv

(* What the invariant says of where the program is.                        *)
LEMMA Here ==
  ASSUME ListInv, status \in {"filling", "writing"}
  PROVE  /\ current \in 1..Len(job) /\ current - 1 \in 0..Len(job) /\ Len(job) \in Nat
         /\ Now \in Writer /\ Now.words \in Seq(Word) /\ WordsRun
         /\ words \in Seq(Word) /\ list \in Seq(Word)
         /\ Words[current - 1] \in Seq(Word)
<1>1. /\ job \in Seq(Writer) /\ Len(job) \in Nat /\ current \in 0..Len(job) /\ current > 0
  BY LenProperties DEF ListInv, TypeOK
<1>2. current \in 1..Len(job) /\ current - 1 \in 0..Len(job)
  BY <1>1
<1>3. Now \in Writer
  BY <1>1, <1>2, ElementOfSeq DEF Now
<1>4. Now.words \in Seq(Word)
  BY <1>3 DEF Writer, Word
<1>5. WordsRun
  BY <1>1, WordsRuns
<1>6. words \in Seq(Word)
  BY DEF ListInv, TypeOK, Word
<1>7. list \in Seq(Word)
  <2>1. list \in Seq(Arg) /\ Arg \subseteq Word
    BY DEF ListInv, TypeOK, Word
  <2> QED  BY <2>1, SeqMonotonic
<1>8. Words[current - 1] \in Seq(Word)
  BY <1>2, <1>5 DEF WordsRun
<1> QED  BY <1>1, <1>2, <1>3, <1>4, <1>5, <1>6, <1>7, <1>8

(* The positions are those of the words that are due.                      *)
LEMMA PositionsAreDue ==
  ASSUME ListInv, PrintInv, status = "writing", NEW i \in DOMAIN list
  PROVE  InPosition(i) <=> i \in Due(Now)
<1>1. InPosition(i) <=> Kept(i)
  BY RightSelects DEF PositionsSelect
<1>2. list = Selected(Now) /\ system = <<>>
  BY DEF PrintInv
<1>3. Now.system \in Seq(Arg \ Library) /\ current # 0
  <2>1. Now \in Writer /\ current \in 1..Len(job) /\ Len(job) \in Nat
    BY Here
  <2> QED  BY <2>1 DEF Writer
<1>4. DOMAIN Now.system = 1..Len(Now.system) /\ Len(Now.system) \in Nat
  BY <1>3, LenProperties
<1>5. Excluded = {Now.system[k] : k \in DOMAIN Now.system}
  <2>1. Len(system) = 0
    BY <1>2, EmptySeq
  <2>2. 1..(Len(Now.system) - Len(system)) = 1..Len(Now.system)
    BY <1>4, <2>1
  <2> QED  BY <1>3, <1>4, <2>2 DEF Excluded, Now
<1>6. list[i] \notin Excluded <=> \A k \in DOMAIN Now.system : Now.system[k] # list[i]
  BY <1>5
<1>7. i \in Due(Now) <=> Counts(list, i) /\ \A k \in DOMAIN Now.system : Now.system[k] # list[i]
  BY <1>2 DEF Due
<1> QED  BY <1>1, <1>6, <1>7 DEF Kept

(* A step that fills the list or goes on to the next stage prints nothing. *)
LEMMA NothingPrinted ==
  ASSUME PrintInv, UNCHANGED <<argcount, out>>, Printed' = Printed,
         status # "done", status' # "done"
  PROVE  /\ argcount' = Len(Printed)'
         /\ out' = (IF status = "done" /\ job # <<>> THEN Append(Separated(Printed), Newline)
                    ELSE Separated(Printed))'
BY DEF PrintInv

LEMMA NewWriterPrints ==
  ASSUME ListInv, PrintInv, NewWriter
  PROVE  PrintInv'
<1>1. /\ status = "between" /\ status' = "filling" /\ job' = job
      /\ current \in 0..Len(job) /\ current < Len(job) /\ Len(job) \in Nat
      /\ current' = current + 1 /\ words' = Now'.words /\ list' = <<>>
      /\ job \in Seq(Writer) /\ UNCHANGED <<argcount, out>>
  BY LenProperties DEF NewWriter, ListInv, TypeOK, Now
<1>2. PICK w : w = Now'
  OBVIOUS
<1>3. current' \in 1..Len(job) /\ current' - 1 = current
  BY <1>1
<1>4. w \in Writer
  BY <1>1, <1>2, <1>3, ElementOfSeq DEF Now
<1>5. w.words \in Seq(Word) /\ Len(w.words) \in Nat
  BY <1>4, LenProperties DEF Writer, Word
<1>6. Len(w.words) - Len(w.words) = 0
  BY <1>5
<1>7. Keeping(w.words, Accepted(w))[0] = <<>>
  BY <1>5, KeepingKeeps DEF Keeps
<1>8. WordsAreSuffix'
  BY <1>1, <1>2, <1>5 DEF WordsAreSuffix
<1>9. Printed' = Printed
  BY <1>1, <1>3, WordsStay DEF Printed
<1> QED  BY <1>1, <1>2, <1>6, <1>7, <1>8, <1>9, NothingPrinted DEF PrintInv

(* The next word goes to the list if the filter accepts it.                *)
LEMMA AppendArgPrints ==
  ASSUME ListInv, PrintInv, AppendArg
  PROVE  PrintInv'
<1>1. /\ status = "filling" /\ status' = "filling" /\ words # <<>> /\ words' = Tail(words)
      /\ Head(words) # Unmatched /\ UNCHANGED <<job, current, argcount, out>>
      /\ list' = IF FilterOk(Now.filter, Head(words)) THEN Append(list, Head(words)) ELSE list
  BY DEF AppendArg, Now
<1>2. PICK w : w = Now /\ w = Now'
  BY <1>1 DEF Now
<1>3. PICK all, s, k : all = w.words /\ s = words /\ k = Keeping(all, Accepted(w))
  OBVIOUS
<1>4. /\ all \in Seq(Word) /\ s \in Seq(Word) /\ s # <<>> /\ Len(all) \in Nat
      /\ Len(s) \in Nat \ {0} /\ DOMAIN all = 1..Len(all) /\ Len(Tail(s)) = Len(s) - 1
      /\ Head(s) = s[1]
  BY <1>1, <1>2, <1>3, Here, LenProperties, EmptySeq, HeadTailProperties
<1>5. Ends(s, all) /\ list = k[Len(all) - Len(s)]
  BY <1>1, <1>2, <1>3 DEF PrintInv, WordsAreSuffix, Ends
<1>6. Ends(Tail(s), all)
  BY ONLY <1>4, <1>5, ExcludeOne
<1>7. PICK n : /\ n = Len(all) - Len(s) + 1 /\ n \in 1..Len(all) /\ n - 1 = Len(all) - Len(s)
               /\ n = Len(all) - Len(Tail(s)) /\ all[n] = Head(s)
  <2>1. PICK n : n = Len(all) - Len(s) + 1
    OBVIOUS
  <2>2. n \in 1..Len(all) /\ n - 1 = Len(all) - Len(s) /\ n = Len(all) - Len(Tail(s))
    BY <1>4, <1>5, <2>1 DEF Ends
  <2>3. all[n] = s[1]
    BY <1>4, <1>5, <2>1 DEF Ends
  <2> QED  BY <1>4, <2>1, <2>2, <2>3
<1>8. n \in Accepted(w) <=> FilterOk(w.filter, Head(s))
  BY <1>1, <1>3, <1>4, <1>7 DEF Accepted
<1>9. k[n] = IF n \in Accepted(w) THEN Append(k[n - 1], all[n]) ELSE k[n - 1]
  <2>1. Keeps(k, all, Accepted(w))
    BY <1>3, <1>4, KeepingKeeps
  <2> QED  BY <1>7, <2>1 DEF Keeps
<1>10. list' = k[n]
  BY <1>1, <1>2, <1>3, <1>5, <1>7, <1>8, <1>9
<1>11. WordsAreSuffix' /\ list' = Keeping(w.words, Accepted(w))[Len(w.words) - Len(words')]
  BY <1>1, <1>2, <1>3, <1>6, <1>7, <1>10 DEF WordsAreSuffix, Ends
<1>12. Printed' = Printed
  BY <1>1, WordsStay DEF Printed
<1> QED  BY <1>1, <1>2, <1>11, <1>12, NothingPrinted DEF PrintInv

LEMMA BeginWritePrints ==
  ASSUME ListInv, PrintInv, BeginWrite
  PROVE  PrintInv'
<1>1. /\ status = "filling" /\ status' = "writing" /\ words = <<>> /\ system = <<>>
      /\ position' = 0 /\ UNCHANGED <<job, current, system, list, argcount, out>>
  BY DEF BeginWrite
<1>2. PICK w : w = Now /\ w = Now'
  BY <1>1 DEF Now
<1>3. list = Selected(w)
  <2>1. Len(words) = 0 /\ Len(w.words) \in Nat
    BY <1>1, <1>2, Here, LenProperties, EmptySeq
  <2>2. Len(w.words) - Len(words) = Len(w.words)
    BY <2>1
  <2> QED  BY <1>1, <1>2, <2>2 DEF PrintInv, Selected
<1>4. Printed' = Printed
  <2>1. Keeping(list, Due(w))[0] = <<>>
    BY <1>1, Here, KeepingKeeps DEF Keeps
  <2>2. Words[current - 1] \o <<>> = Words[current - 1]
    BY <1>1, Here, ConcatEmptySeq
  <2>3. Printed' = Words[current - 1] \o Keeping(list, Due(w))[0]
    BY <1>1, <1>2, WordsStay DEF Printed
  <2>4. Printed = Words[current - 1]
    BY <1>1 DEF Printed
  <2> QED  BY <2>1, <2>2, <2>3, <2>4
<1> QED  BY <1>1, <1>2, <1>3, <1>4, NothingPrinted DEF PrintInv

(* A word that is due is printed behind what was printed before it.        *)
LEMMA WriteArgPrints ==
  ASSUME ListInv, PrintInv, WriteArg
  PROVE  PrintInv'
<1>1. /\ status = "writing" /\ status' = "writing" /\ position < Len(list)
      /\ position' = position + 1 /\ UNCHANGED <<job, current, system, list>>
      /\ position \in Nat
      /\ IF InPosition(position')
         THEN /\ out' = out \o (IF argcount > 0 THEN <<Delim>> ELSE <<>>) \o <<list[position']>>
              /\ argcount' = argcount + 1
         ELSE UNCHANGED <<out, argcount>>
  BY DEF WriteArg, ListInv, TypeOK
<1>2. PICK w : w = Now /\ w = Now'
  BY <1>1 DEF Now
<1>3. PICK l, k, b, p : /\ l = list /\ k = Keeping(l, Due(w)) /\ b = Words[current - 1]
                        /\ p = position'
  OBVIOUS
<1>4. /\ l \in Seq(Word) /\ Len(l) \in Nat /\ b \in Seq(Word) /\ Keeps(k, l, Due(w))
      /\ DOMAIN l = 1..Len(l)
  BY <1>1, <1>3, Here, KeepingKeeps, LenProperties
<1>5. p \in 1..Len(l) /\ p - 1 \in 0..Len(l) /\ p - 1 = position
  BY <1>1, <1>3, <1>4
<1>6. l[p] \in Word /\ k[p - 1] \in Seq(Word)
  BY <1>4, <1>5, ElementOfSeq DEF Keeps
<1>7. k[p] = IF p \in Due(w) THEN Append(k[p - 1], l[p]) ELSE k[p - 1]
  BY <1>4, <1>5 DEF Keeps
<1>8. Printed = b \o k[p - 1] /\ Printed' = b \o k[p]
  BY <1>1, <1>2, <1>3, <1>5, WordsStay DEF Printed
<1>9. InPosition(p) <=> p \in Due(w)
  BY <1>1, <1>2, <1>3, <1>4, <1>5, PositionsAreDue
<1>10. argcount = Len(Printed) /\ out = Separated(Printed)
  BY <1>1 DEF PrintInv
<1>11. CASE p \notin Due(w)
  <2>1. Printed' = Printed
    BY <1>7, <1>8, <1>11
  <2> QED  BY <1>1, <1>2, <1>3, <1>9, <1>11, <2>1, NothingPrinted DEF PrintInv
<1>12. CASE p \in Due(w)
  <2>1. PICK t : t = b \o k[p - 1]
    OBVIOUS
  <2>2. t \in Seq(Word) /\ Len(t) \in Nat
    BY <1>4, <1>6, <2>1, ConcatProperties, LenProperties
  <2>3. Printed' = Append(t, l[p])
    <3>0. PICK e, c : e = <<l[p]>> /\ c = k[p - 1]
      OBVIOUS
    <3>1. e \in Seq(Word) /\ c \in Seq(Word)
      BY <1>6, <3>0
    <3>2. Append(k[p - 1], l[p]) = k[p - 1] \o <<l[p]>> /\ Append(t, l[p]) = t \o <<l[p]>>
      BY <1>6, <2>2, AppendIsConcat
    <3>3. b \o (k[p - 1] \o <<l[p]>>) = (b \o k[p - 1]) \o <<l[p]>>
      <4>1. (b \o c) \o e = b \o (c \o e)
        BY <1>4, <3>1, ConcatAssociative
      <4> QED  BY <3>0, <4>1
    <3> QED  BY <1>7, <1>8, <1>12, <2>1, <3>2, <3>3
  <2>4. Len(Append(t, l[p])) = Len(t) + 1
    BY <1>6, <2>2, AppendProperties
  <2>5. Separated(Append(t, l[p]))
          = Separated(t) \o (IF Len(t) > 0 THEN <<Delim>> ELSE <<>>) \o <<l[p]>>
    BY <1>6, <2>2, SeparatedStep
  <2>6. argcount' = Len(t) + 1 /\ argcount = Len(t)
    BY <1>1, <1>3, <1>8, <1>9, <1>10, <1>12, <2>1
  <2>7. out' = Separated(t) \o (IF Len(t) > 0 THEN <<Delim>> ELSE <<>>) \o <<l[p]>>
    BY <1>1, <1>3, <1>8, <1>9, <1>10, <1>12, <2>1, <2>6
  <2> QED  BY <1>1, <1>2, <1>3, <2>3, <2>4, <2>5, <2>6, <2>7 DEF PrintInv
<1> QED  BY <1>11, <1>12

LEMMA EndWritePrints ==
  ASSUME ListInv, PrintInv, EndWrite
  PROVE  PrintInv'
<1>1. /\ status = "writing" /\ status' = "between" /\ position = Len(list)
      /\ UNCHANGED <<job, current, argcount, out>>
  BY DEF EndWrite
<1>2. Printed' = Words[current]
  BY <1>1, WordsStay DEF Printed
<1>3. Words[current] = Words[current - 1] \o WriterOutput(Now)
  BY <1>1, Here DEF WordsRun, Now
<1>4. Printed = Words[current - 1] \o WriterOutput(Now)
  BY <1>1 DEF Printed, PrintInv, WriterOutput
<1> QED  BY <1>1, <1>2, <1>3, <1>4, NothingPrinted DEF PrintInv

LEMMA PrintStep == ListInv /\ PrintInv /\ [Next]_vars => PrintInv'
<1> SUFFICES ASSUME ListInv, PrintInv, [Next]_vars PROVE PrintInv'
  OBVIOUS
<1>1. CASE ExcludeArg
  <2>1. /\ status = "filling" /\ status' = "filling"
        /\ UNCHANGED <<job, current, words, list, argcount, out>>
    BY <1>1 DEF ExcludeArg
  <2>2. Printed' = Printed
    BY <2>1, WordsStay DEF Printed
  <2>3. WordsAreSuffix' = WordsAreSuffix /\ Now' = Now
    BY <2>1 DEF WordsAreSuffix, Now
  <2> QED  BY <2>1, <2>2, <2>3, NothingPrinted DEF PrintInv
<1>2. CASE UnmatchedQuote
  <2>1. /\ status = "filling" /\ status' = "unmatched quote"
        /\ UNCHANGED <<job, current, argcount, out>>
    BY <1>2 DEF UnmatchedQuote
  <2>2. Printed' = Printed
    BY <2>1, WordsStay DEF Printed
  <2> QED  BY <2>1, <2>2, NothingPrinted DEF PrintInv
<1>3. CASE Finish
  <2>1. /\ status = "between" /\ status' = "done" /\ current = Len(job)
        /\ UNCHANGED <<job, current, argcount>>
        /\ out' = IF job = <<>> THEN out ELSE Append(out, Newline)
    BY <1>3 DEF Finish
  <2>2. Printed' = Printed
    BY <2>1, WordsStay DEF Printed
  <2>3. out = Separated(Printed) /\ argcount = Len(Printed)
    BY <2>1 DEF PrintInv
  <2> QED  BY <2>1, <2>2, <2>3 DEF PrintInv
<1>4. CASE UNCHANGED vars
  <2>1. Printed' = Printed /\ WordsAreSuffix' = WordsAreSuffix /\ Now' = Now
    BY <1>4, WordsStay DEF vars, Printed, WordsAreSuffix, Now
  <2> QED  BY <1>4, <2>1 DEF vars, PrintInv
<1> QED
  BY <1>1, <1>2, <1>3, <1>4, NewWriterPrints, AppendArgPrints, BeginWritePrints,
     WriteArgPrints, EndWritePrints DEF Next

(* For any words, filters and system directories --cflags and --libs print *)
(* exactly the occurrences that count, in order, with one separator        *)
(* between any two, also where one writer ends and the other begins.       *)
THEOREM OutputIsExact == Spec => []OutputExact
<1>1. PrintInv => OutputExact
  BY DEF PrintInv, OutputExact, Printed
<1> QED  BY <1>1, PrintInit, PrintStep, ListInvariant, PTL DEF Spec
=============================================================================
