--------------------------- MODULE TraverseProofs ---------------------------
(***************************************************************************)
(* Proofs about Traverse, for every token set, order, file system and      *)
(* command line.  The last of them shows that the walk of process()        *)
(* implements Resolution.                                                  *)
(***************************************************************************)
EXTENDS TraverseRefines, Recursion, FiniteSetTheorems

-----------------------------------------------------------------------------
(* The ways a step changes a nonempty stack.                               *)

(* Popping the top frame keeps the frames below it.                        *)
LEMMA PopFrame ==
  ASSUME NEW S, NEW s \in Seq(S), s # <<>>
  PROVE  /\ SubSeq(s, 1, Len(s) - 1) \in Seq(S)
         /\ Len(SubSeq(s, 1, Len(s) - 1)) = Len(s) - 1
         /\ \A k \in 1..Len(s) - 1 : SubSeq(s, 1, Len(s) - 1)[k] = s[k]
<1> DEFINE n == Len(s) - 1
           b == SubSeq(s, 1, n)
<1>1. n \in Nat /\ Len(s) = n + 1
  BY EmptySeq
<1>2. \A i \in 1..n : s[i] \in S
  BY <1>1, ElementOfSeq
<1> HIDE DEF n
<1>3. /\ b \in Seq(S)
      /\ Len(b) = IF 1 <= n THEN n - 1 + 1 ELSE 0
      /\ \A i \in 1..n - 1 + 1 : b[i] = s[1 + i - 1]
  BY <1>1, <1>2, SubSeqProperties
<1> HIDE DEF b
<1>4. n - 1 + 1 = n /\ \A i \in 1..n : 1 + i - 1 = i
  BY <1>1
<1>5. /\ b \in Seq(S)
      /\ Len(b) = n
      /\ \A k \in 1..n : b[k] = s[k]
  BY <1>1, <1>3, <1>4
<1> QED  BY <1>5, Zenon DEF b, n

LEMMA EmptyLen == Len(<<>>) = 0
BY EmptySeq

(* So does replacing it.                                                   *)
LEMMA ReplaceTop ==
  ASSUME NEW S, NEW s \in Seq(S), s # <<>>, NEW c \in S
  PROVE  /\ Append(SubSeq(s, 1, Len(s) - 1), c) \in Seq(S)
         /\ Len(Append(SubSeq(s, 1, Len(s) - 1), c)) = Len(s)
         /\ Append(SubSeq(s, 1, Len(s) - 1), c)[Len(s)] = c
         /\ \A k \in 1..Len(s) - 1 : Append(SubSeq(s, 1, Len(s) - 1), c)[k] = s[k]
<1> DEFINE b == SubSeq(s, 1, Len(s) - 1)
<1>1. Len(s) \in Nat /\ Len(s) >= 1
  BY EmptySeq
<1>2. b \in Seq(S) /\ Len(b) = Len(s) - 1 /\ \A k \in 1..Len(s) - 1 : b[k] = s[k]
  BY PopFrame
<1> DEFINE t == Append(b, c)
<1>3. /\ t \in Seq(S)
      /\ Len(t) = Len(b) + 1
      /\ \A i \in 1..Len(b) : t[i] = b[i]
      /\ t[Len(b) + 1] = c
  BY <1>2, AppendProperties
<1> HIDE DEF b, t
<1>4. /\ Len(t) = Len(s)
      /\ t[Len(s)] = c
      /\ \A k \in 1..Len(s) - 1 : t[k] = s[k]
  BY <1>1, <1>2, <1>3
<1> QED  BY <1>3, <1>4 DEF b, t

(* Pushing one frame or two.                                               *)
LEMMA PushFrames ==
  ASSUME NEW S, NEW s \in Seq(S), NEW f \in S, NEW g \in S
  PROVE  /\ s \o <<>> = s
         /\ s \o <<f>> \in Seq(S)
         /\ Len(s \o <<f>>) = Len(s) + 1
         /\ (s \o <<f>>)[Len(s) + 1] = f
         /\ \A k \in 1..Len(s) : (s \o <<f>>)[k] = s[k]
         /\ s \o <<f, g>> \in Seq(S)
         /\ Len(s \o <<f, g>>) = Len(s) + 2
         /\ (s \o <<f, g>>)[Len(s) + 1] = f
         /\ (s \o <<f, g>>)[Len(s) + 2] = g
         /\ \A k \in 1..Len(s) : (s \o <<f, g>>)[k] = s[k]
<1>1. <<f>> \in Seq(S) /\ Len(<<f>>) = 1 /\ <<f>>[1] = f
  OBVIOUS
<1>2. <<f, g>> \in Seq(S) /\ Len(<<f, g>>) = 2 /\ <<f, g>>[1] = f /\ <<f, g>>[2] = g
  OBVIOUS
<1>3. Len(s) \in Nat
  BY LenProperties
<1>4. s \o <<>> = s
  BY ConcatEmptySeq
<1> QED  BY <1>1, <1>2, <1>3, <1>4, ConcatProperties

-----------------------------------------------------------------------------
(* Facts every step uses.                                                  *)

LEMMA JobType ==
  ASSUME TypeOK
  PROVE  /\ job.args \in Seq(TokenList)
         /\ job.files \in [Token -> File \cup {NoPackage}]
         /\ job.recursive \in BOOLEAN
         /\ job.maxdepth \in Nat
         /\ job.ignoreVersions \in BOOLEAN
BY DEF TypeOK, Job

(* The stack taken apart.                                                  *)
LEMMA StackType ==
  ASSUME TypeOK, stack # <<>>
  PROVE  /\ stack \in Seq(SoundFrame)
         /\ Len(stack) \in Nat \ {0} /\ Len(stack) <= Cap /\ Cap \in Nat
         /\ Top \in SoundFrame
         /\ Below \in Seq(SoundFrame)
         /\ Len(Below) = Len(stack) - 1
         /\ \A k \in 1..Len(stack) - 1 : Below[k] = stack[k]
<1>1. stack \in Seq(SoundFrame) /\ Len(stack) <= Cap /\ Cap \in Nat
  BY TraverseAssumption DEF TypeOK
<1>2. Len(stack) \in Nat \ {0}
  BY <1>1, EmptySeq
<1>3. stack[Len(stack)] \in SoundFrame
  BY <1>1, <1>2, ElementOfSeq
<1>4. /\ Below \in Seq(SoundFrame)
      /\ Len(Below) = Len(stack) - 1
      /\ \A k \in 1..Len(stack) - 1 : Below[k] = stack[k]
  BY <1>1, PopFrame DEF Below
<1> QED  BY <1>1, <1>2, <1>3, <1>4 DEF Top

(* The stack once its top frame is replaced.                               *)
LEMMA StackReplaced ==
  ASSUME TypeOK, stack # <<>>, NEW S, stack \in Seq(S), NEW c \in S
  PROVE  /\ Append(Below, c) \in Seq(S)
         /\ Len(Append(Below, c)) = Len(stack)
         /\ Append(Below, c)[Len(stack)] = c
         /\ \A k \in 1..Len(stack) - 1 : Append(Below, c)[k] = stack[k]
BY ReplaceTop DEF Below

(* The top frame, its next token, and the frame once that is consumed.     *)
LEMMA TopType ==
  ASSUME TypeOK, HasToken
  PROVE  /\ stack # <<>> /\ Len(stack) \in Nat \ {0} /\ Len(stack) <= Cap
         /\ Top \in SoundFrame
         /\ Tok \in Token
         /\ RealName[Tok] \in Name
         /\ Consumed \in SoundFrame
         /\ \A n \in Loaded \cup {Null} : [Consumed EXCEPT !.last = n] \in FrameType
         /\ \A o \in Op : [Consumed EXCEPT !.op = o] \in FrameType
<1>1. stack # <<>> /\ Len(stack) \in Nat \ {0} /\ Len(stack) <= Cap
  BY StackType DEF HasToken
<1>2. Top \in SoundFrame
  BY <1>1, StackType
<1>3. Top \in FrameType /\ Top.pos \in 1..Len(Top.list)
  BY <1>2, LenProperties DEF HasToken, SoundFrame, FrameType, TokenList
<1>4. Tok \in Token
  BY <1>3, ElementOfSeq DEF FrameType, TokenList, Tok
<1>5. RealName[Tok] \in Name
  BY <1>4, TraverseAssumption
<1>6. Len(Top.list) \in Nat
  BY <1>3, LenProperties DEF FrameType, TokenList
<1>7. Consumed \in FrameType
  BY <1>3 DEF Consumed, FrameType
<1>8. Consumed \in SoundFrame
  BY <1>2, <1>3, <1>6, <1>7 DEF Consumed, SoundFrame, FrameType
<1>9. \A n \in Loaded \cup {Null} : [Consumed EXCEPT !.last = n] \in FrameType
  BY <1>7 DEF FrameType, Loaded
<1>10. \A o \in Op : [Consumed EXCEPT !.op = o] \in FrameType
  BY <1>7 DEF FrameType
<1> QED  BY <1>1, <1>2, <1>4, <1>5, <1>8, <1>9, <1>10

(* Loading packages does not invalidate a frame.                           *)
LEMMA SoundFrameGrows ==
  ASSUME Loaded \subseteq Loaded', NEW s \in Seq(SoundFrame)
  PROVE  s \in Seq(SoundFrame')
<1>1. SoundFrame \subseteq SoundFrame'
  BY DEF SoundFrame, FrameType, Flag, Op, OpToken, NoOp, TokenList, Name
<1> QED  BY <1>1, SeqMonotonic

(* A frame as process() fills it in is sound.                              *)
LEMMA FreshFrame ==
  ASSUME NEW l \in TokenList, NEW n \in Loaded \cup {Null}, NEW d \in Nat,
         NEW fl \in SUBSET Flag, NEW o \in Op, o # NoOp => n # Null
  PROVE  Frame(l, n, d, fl, o) \in SoundFrame
<1>1. Len(l) \in Nat
  BY LenProperties DEF TokenList
<1>2. Frame(l, n, d, fl, o) \in FrameType
  BY DEF Frame, FrameType, Loaded
<1> QED  BY <1>1, <1>2 DEF Frame, SoundFrame

-----------------------------------------------------------------------------
(* Type correctness.                                                       *)

LEMMA TypeInit == Init => TypeOK
<1> SUFFICES ASSUME Init PROVE TypeOK
  OBVIOUS
<1>1. stack \in Seq(SoundFrame) /\ Len(stack) = 0 /\ order \in Seq(Name)
  BY EmptySeq DEF Init
<1>2. job \in Job /\ args \in Seq(TokenList)
  BY TraverseAssumption DEF Init, Job
<1>3. contents \in [Name -> File \cup {Null}] /\ flags \in [Name -> SUBSET Flag]
  BY DEF Init
<1> QED
  BY <1>1, <1>2, <1>3, TraverseAssumption DEF Init, TypeOK, Op, Status

LEMMA TypeStep == TypeOK /\ [Next]_vars => TypeOK'
<1> SUFFICES ASSUME TypeOK, [Next]_vars PROVE TypeOK'
  OBVIOUS
<1> USE DEF vars
<1> HIDE DEF TypeOK
<1>u. ASSUME UNCHANGED <<job, args, stack, procLast, procOp, order, contents, flags>>,
             status' \in Status
      PROVE  TypeOK'
  BY <1>u DEF TypeOK, Loaded, SoundFrame
<1>f. ASSUME NEW r \in Status, Fail(r)
      PROVE  TypeOK'
  BY <1>f, <1>u DEF Fail
<1>1. CASE BeginArg
  <2>1. Head(args) \in TokenList /\ Tail(args) \in Seq(TokenList)
    BY <1>1, HeadTailProperties DEF BeginArg, TypeOK
  <2>2. Frame(Head(args), procLast, 0, Flag, procOp) \in SoundFrame
    BY <2>1, FreshFrame DEF TypeOK, Flag
  <2>3. stack' \in Seq(SoundFrame) /\ Len(stack') = 1
    BY <1>1, <2>2 DEF BeginArg
  <2>4. Loaded' = Loaded /\ SoundFrame' = SoundFrame
    BY <1>1 DEF BeginArg, Loaded, SoundFrame
  <2> QED  BY <1>1, <2>1, <2>3, <2>4, TraverseAssumption DEF BeginArg, TypeOK
<1>2. CASE EndArg
  <2>1. Top \in SoundFrame
    BY <1>2, StackType, EmptySeq DEF EndArg
  <2>2. Loaded' = Loaded /\ SoundFrame' = SoundFrame
    BY <1>2 DEF EndArg, Loaded, SoundFrame
  <2>3. stack' \in Seq(SoundFrame) /\ Len(stack') = 0
    BY <1>2, EmptySeq DEF EndArg
  <2> QED  BY <1>2, <2>1, <2>2, <2>3, TraverseAssumption
           DEF EndArg, TypeOK, SoundFrame, FrameType
<1>3. CASE EndField
  <2>1. CASE Top.op # NoOp
    BY <1>3, <2>1, <1>f DEF EndField, Status
  <2>2. CASE Top.op = NoOp
    <3>0. stack # <<>>
      <4>1. Len(stack) > 1
        BY <1>3 DEF EndField
      <4> QED  BY <4>1, EmptyLen
    <3>1. Len(stack) \in Nat \ {0} /\ Len(stack) <= Cap
      BY <3>0, StackType
    <3>2. stack' \in Seq(SoundFrame) /\ Len(stack') = Len(stack) - 1
      BY <1>3, <2>2, <3>0, StackType DEF EndField
    <3>3. Loaded' = Loaded /\ SoundFrame' = SoundFrame
      BY <1>3, <2>2 DEF EndField, Loaded, SoundFrame
    <3> QED  BY <1>3, <2>2, <3>1, <3>2, <3>3, TraverseAssumption DEF EndField, TypeOK
  <2> QED  BY <2>1, <2>2
<1>4. CASE CheckVersion
  <2>1. CASE status' # "version conflict"
    <3> DEFINE c == [Consumed EXCEPT !.last = Null, !.op = NoOp]
    <3>1. stack' = Append(Below, c)
      BY <1>4, <2>1 DEF CheckVersion, Fail, VersionOk
    <3>2. c \in SoundFrame
      BY <1>4, TopType DEF CheckVersion, SoundFrame, FrameType, Op
    <3>3. stack' \in Seq(SoundFrame) /\ Len(stack') = Len(stack)
      BY <1>4, <3>1, <3>2, TopType, StackType, StackReplaced DEF CheckVersion
    <3>4. UNCHANGED <<job, args, procLast, procOp, order, contents, flags, status>>
      BY <1>4, <2>1 DEF CheckVersion, Fail, VersionOk
    <3>5. Loaded' = Loaded /\ SoundFrame' = SoundFrame
      BY <3>4 DEF Loaded, SoundFrame
    <3> QED  BY <3>3, <3>4, <3>5 DEF TypeOK
  <2>2. CASE status' = "version conflict"
    BY <1>4, <2>2, <1>f DEF CheckVersion, Status
  <2> QED  BY <2>1, <2>2
<1>5. CASE TakeOperator
  <2>1. CASE Top.last = Null
    BY <1>5, <2>1, <1>f DEF TakeOperator, Status
  <2>2. CASE Top.last # Null
    <3> DEFINE c == [Consumed EXCEPT !.op = Tok]
    <3>1. /\ stack' = Append(Below, c)
          /\ UNCHANGED <<job, args, procLast, procOp, order, contents, flags, status>>
      BY <1>5, <2>2 DEF TakeOperator
    <3>2. c \in SoundFrame
      BY <1>5, <2>2, TopType DEF TakeOperator, SoundFrame, FrameType, Op, Consumed
    <3>3. stack' \in Seq(SoundFrame) /\ Len(stack') = Len(stack)
      BY <1>5, <3>1, <3>2, TopType, StackType, StackReplaced DEF TakeOperator
    <3>5. Loaded' = Loaded /\ SoundFrame' = SoundFrame
      BY <3>1 DEF Loaded, SoundFrame
    <3> QED  BY <3>1, <3>3, <3>5 DEF TypeOK
  <2> QED  BY <2>1, <2>2
<1>8. CASE Finish
  BY <1>8, <1>f DEF Finish, Status
<1>9. CASE UNCHANGED vars
  BY <1>9, <1>u DEF TypeOK
<1>6. CASE Revisit
  <2> DEFINE p == RealName[Tok]
             c == [Consumed EXCEPT !.last = p]
             t == Append(Below, c)
             f == Frame(contents[p].requires, Null, Top.depth + 1,
                        Top.flags \ {"DIRECT"}, NoOp)
  <2>0. HasToken /\ Top.op = NoOp /\ p \in Loaded /\ contents[p] \in File
    BY <1>6, TopType DEF Revisit, AtPackage, TypeOK, Loaded
  <2>1. CASE status' = "max recursion"
    BY <1>6, <2>1, <1>f DEF Revisit, AtPackage, Status
  <2>2. CASE status' # "max recursion"
    <3>1. /\ \/ stack' = t \o <<>>
             \/ stack' = t \o <<f>> /\ ~Full(1)
          /\ flags' = [flags EXCEPT ![p] = @ \cup Top.flags]
          /\ UNCHANGED <<job, args, procLast, procOp, order, contents, status>>
      BY <1>6, <2>2, Zenon DEF Revisit, Fail, Mark
    <3>2. c \in SoundFrame
      BY <2>0, TopType DEF SoundFrame, FrameType, Consumed
    <3>3. f \in SoundFrame
      <4>1. contents[p].requires \in TokenList
        BY <2>0 DEF File
      <4>2. Top.depth + 1 \in Nat /\ Top.flags \ {"DIRECT"} \in SUBSET Flag
        BY <2>0, TopType DEF SoundFrame, FrameType
      <4> QED  BY <4>1, <4>2, FreshFrame, Zenon DEF Op
    <3>4. stack' \in Seq(SoundFrame) /\ Len(stack') <= Cap
      <4>1. t \in Seq(SoundFrame) /\ Len(t) = Len(stack)
        BY <2>0, <3>2, TopType, StackType, StackReplaced
      <4> HIDE DEF c, f, t
      <4>2. /\ t \o <<>> = t
            /\ t \o <<f>> \in Seq(SoundFrame)
            /\ Len(t \o <<f>>) = Len(t) + 1
        BY <3>3, <4>1, PushFrames
      <4>3. Len(stack) \in Nat /\ Len(stack) <= Cap /\ Cap \in Nat
        BY <2>0, TopType, TraverseAssumption
      <4>4. CASE stack' = t \o <<>>
        BY <4>1, <4>2, <4>3, <4>4
      <4>5. CASE stack' = t \o <<f>> /\ ~Full(1)
        BY <4>1, <4>2, <4>3, <4>5 DEF Full
      <4> QED  BY <3>1, <4>4, <4>5
    <3>5. Loaded' = Loaded /\ SoundFrame' = SoundFrame
      BY <3>1 DEF Loaded, SoundFrame
    <3>6. flags' \in [Name -> SUBSET Flag]
      BY <2>0, <3>1, TopType DEF TypeOK, SoundFrame, FrameType
    <3> QED  BY <3>1, <3>4, <3>5, <3>6 DEF TypeOK
  <2> QED  BY <2>1, <2>2
<1>7. CASE Load
  <2> DEFINE p == RealName[Tok]
             file == job.files[Tok]
             c == [Consumed EXCEPT !.last = p]
             t == Append(Below, c)
             f == Frame(file.requiresprivate, Null, Top.depth + 1, {}, NoOp)
             g == Frame(file.requires, Null, Top.depth + 1,
                        Top.flags \ {"DIRECT"}, NoOp)
  <2>0. HasToken /\ Top.op = NoOp /\ p \in Name /\ contents[p] = Null
    BY <1>7, TopType DEF Load, AtPackage
  <2>1. CASE status' \in {"could not find package", "max recursion"}
    BY <1>7, <2>1, <1>f DEF Load, AtPackage, Status
  <2>2. CASE status' \notin {"could not find package", "max recursion"}
    <3>1. /\ file # NoPackage
          /\ \/ stack' = t \o <<>>
             \/ stack' = t \o <<f, g>> /\ ~Full(2)
          /\ order' = Append(order, p)
          /\ contents' = [contents EXCEPT ![p] = file]
          /\ flags' = [flags EXCEPT ![p] = Top.flags]
          /\ UNCHANGED <<job, args, procLast, procOp, status>>
      BY <1>7, <2>2, Zenon DEF Load, Fail, FieldFrames
    <3>2. file \in File
      BY <2>0, <3>1, TopType, JobType
    <3>3. contents' \in [Name -> File \cup {Null}] /\ contents'[p] = file
      BY <2>0, <3>1, <3>2 DEF TypeOK
    <3>4. Loaded' = Loaded \cup {p}
      BY <2>0, <3>1, <3>2, <3>3, TraverseAssumption DEF Loaded, TypeOK
    <3>5. Top \in FrameType /\ Top.flags \in SUBSET Flag /\ Top.depth \in Nat
      BY <2>0, TopType DEF SoundFrame, FrameType
    <3>6. stack \in Seq(SoundFrame') /\ SoundFrame \subseteq SoundFrame'
      BY <2>0, <3>4, SoundFrameGrows, StackType, TopType
         DEF SoundFrame, FrameType, Flag, Op, OpToken, NoOp, TokenList, Name
    <3>7. c \in SoundFrame'
      BY <2>0, <3>4, TopType DEF SoundFrame, FrameType, Consumed
    <3>8. f \in SoundFrame /\ g \in SoundFrame
      <4>1. file.requires \in TokenList /\ file.requiresprivate \in TokenList
        BY <3>2 DEF File
      <4>2. Top.depth + 1 \in Nat /\ Top.flags \ {"DIRECT"} \in SUBSET Flag
        BY <3>5
      <4> QED  BY <4>1, <4>2, FreshFrame, Zenon DEF Op
    <3>9. stack' \in Seq(SoundFrame') /\ Len(stack') <= Cap
      <4>1. t \in Seq(SoundFrame') /\ Len(t) = Len(stack)
        BY <2>0, <3>6, <3>7, TopType, StackReplaced
      <4>2. f \in SoundFrame' /\ g \in SoundFrame'
        BY <3>6, <3>8
      <4> HIDE DEF c, f, g, t
      <4>3. /\ t \o <<>> = t
            /\ t \o <<f, g>> \in Seq(SoundFrame')
            /\ Len(t \o <<f, g>>) = Len(t) + 2
        BY <4>1, <4>2, PushFrames
      <4>4. Len(stack) \in Nat /\ Len(stack) <= Cap /\ Cap \in Nat
        BY <2>0, TopType, TraverseAssumption
      <4>5. CASE stack' = t \o <<>>
        BY <4>1, <4>3, <4>4, <4>5
      <4>6. CASE stack' = t \o <<f, g>> /\ ~Full(2)
        BY <4>1, <4>3, <4>4, <4>6 DEF Full
      <4> QED  BY <3>1, <4>5, <4>6
    <3>10. order' \in Seq(Name)
      BY <2>0, <3>1, AppendProperties DEF TypeOK
    <3>11. flags' \in [Name -> SUBSET Flag]
      BY <2>0, <3>1, <3>5 DEF TypeOK
    <3>12. procLast' \in Loaded' \cup {Null}
      BY <3>1, <3>4 DEF TypeOK
    <3> QED  BY <3>1, <3>3, <3>9, <3>10, <3>11, <3>12 DEF TypeOK
  <2> QED  BY <2>1, <2>2
<1> QED  BY <1>1, <1>2, <1>3, <1>4, <1>5, <1>6, <1>7, <1>8, <1>9 DEF Next

(* The walk never leaves its types: in particular the 256-entry stack is   *)
(* never written past its end and a version is never compared with that of *)
(* a null package.                                                         *)
THEOREM TypeCorrect == Spec => []TypeOK
BY TypeInit, TypeStep, PTL DEF Spec

-----------------------------------------------------------------------------
(* The four actions that consume a token and go on.                        *)

Consume == CheckVersion \/ TakeOperator \/ Revisit \/ Load

(* Everything they do to the stack: the top frame moves on by one token,   *)
(* and at most two frames are put on it.                                   *)
LEMMA ConsumeCheck ==
  ASSUME TypeOK, CheckVersion, status' = "running"
  PROVE  /\ stack' = Append(Below, [Consumed EXCEPT !.last = Null, !.op = NoOp])
         /\ job.ignoreVersions \/ ValidCompare(Top.op, contents[Top.last].version, Tok)
         /\ UNCHANGED <<job, args, procLast, procOp, order, contents, flags, status>>
BY Zenon DEF CheckVersion, Fail, VersionOk

LEMMA ConsumeOperator ==
  ASSUME TypeOK, TakeOperator, status' = "running"
  PROVE  /\ Top.last # Null
         /\ stack' = Append(Below, [Consumed EXCEPT !.op = Tok])
         /\ UNCHANGED <<job, args, procLast, procOp, order, contents, flags, status>>
BY Zenon DEF TakeOperator, Fail

PublicFrame(l) == Frame(l, Null, Top.depth + 1, Top.flags \ {"DIRECT"}, NoOp)
PrivateFrame(l) == Frame(l, Null, Top.depth + 1, {}, NoOp)
AtTok == [Consumed EXCEPT !.last = RealName[Tok]]

LEMMA ConsumeRevisit ==
  ASSUME TypeOK, Revisit, status' = "running"
  PROVE  LET p == RealName[Tok]
             promote == "PUBLIC" \in Top.flags /\ "PUBLIC" \notin flags[p]
             t == Append(Below, AtTok)
         IN /\ HasToken /\ Top.op = NoOp /\ Tok \notin OpToken
            /\ p \in Loaded
            /\ ~(promote /\ Descends(Top.depth + 1)) => stack' = t
            /\ promote /\ Descends(Top.depth + 1) =>
                 stack' = t \o <<PublicFrame(contents[p].requires)>>
            /\ flags' = [flags EXCEPT ![p] = @ \cup Top.flags]
            /\ UNCHANGED <<job, args, procLast, procOp, order, contents, status>>
<1> DEFINE p == RealName[Tok]
           promote == "PUBLIC" \in Top.flags /\ "PUBLIC" \notin flags[p]
           t == Append(Below, AtTok)
<1>1. HasToken /\ Top.op = NoOp /\ Tok \notin OpToken /\ contents[p] # Null
  BY DEF Revisit, AtPackage
<1>2. p \in Loaded
  BY <1>1, TopType DEF Loaded
<1>3. AtTok \in FrameType
  BY <1>1, <1>2, TopType DEF AtTok
<1>4. t \o <<>> = t
  <2>1. AtTok \in SoundFrame
    BY <1>1, <1>2, TopType DEF AtTok, SoundFrame, FrameType, Consumed
  <2> QED  BY <2>1, <1>1, TopType, StackType, StackReplaced, ConcatEmptySeq
<1>5. /\ ~(promote /\ Descends(Top.depth + 1)) => stack' = t \o <<>>
      /\ promote /\ Descends(Top.depth + 1) =>
            stack' = t \o <<PublicFrame(contents[p].requires)>>
      /\ flags' = [flags EXCEPT ![p] = @ \cup Top.flags]
      /\ UNCHANGED <<job, args, procLast, procOp, order, contents, status>>
  BY Zenon DEF Revisit, Fail, AtTok, PublicFrame, Promotes, Mark
<1> QED  BY <1>1, <1>2, <1>4, <1>5, Zenon

LEMMA ConsumeLoad ==
  ASSUME TypeOK, Load, status' = "running"
  PROVE  LET p == RealName[Tok]
             file == job.files[Tok]
             t == Append(Below, AtTok)
         IN /\ HasToken /\ Top.op = NoOp /\ Tok \notin OpToken
            /\ p \in Name \ Loaded
            /\ file \in File
            /\ ~Descends(Top.depth + 1) => stack' = t
            /\ Descends(Top.depth + 1) =>
                 stack' = t \o <<PrivateFrame(file.requiresprivate),
                                 PublicFrame(file.requires)>>
            /\ order' = Append(order, p)
            /\ contents' = [contents EXCEPT ![p] = file]
            /\ Loaded' = Loaded \cup {p}
            /\ flags' = [flags EXCEPT ![p] = Top.flags]
            /\ UNCHANGED <<job, args, procLast, procOp, status>>
<1> DEFINE p == RealName[Tok]
           file == job.files[Tok]
           t == Append(Below, AtTok)
<1>1. HasToken /\ Top.op = NoOp /\ Tok \notin OpToken /\ contents[p] = Null
  BY DEF Load, AtPackage
<1>2. p \in Name \ Loaded
  BY <1>1, TopType DEF Loaded
<1>4. t \o <<>> = t
  <2>1. AtTok \in FrameType
    BY <1>1, <1>2, TopType DEF AtTok, SoundFrame, FrameType
  <2>2. stack \in Seq(FrameType)
    BY <1>1, TopType, StackType, SeqMonotonic DEF SoundFrame
  <2> QED  BY <2>1, <2>2, <1>1, TopType, StackReplaced, ConcatEmptySeq
<1>5. /\ ~Descends(Top.depth + 1) => stack' = t \o <<>>
      /\ Descends(Top.depth + 1) =>
            stack' = t \o <<PrivateFrame(file.requiresprivate),
                            PublicFrame(file.requires)>>
      /\ file # NoPackage
      /\ order' = Append(order, p)
      /\ contents' = [contents EXCEPT ![p] = file]
      /\ flags' = [flags EXCEPT ![p] = Top.flags]
      /\ UNCHANGED <<job, args, procLast, procOp, status>>
  BY Zenon DEF Load, Fail, AtTok, FieldFrames, PublicFrame, PrivateFrame
<1>6. file \in File
  BY <1>1, <1>5, TopType, JobType
<1>7. Loaded' = Loaded \cup {p}
  BY <1>2, <1>5, <1>6, TraverseAssumption DEF Loaded, TypeOK
<1> QED  BY <1>1, <1>2, <1>4, <1>5, <1>6, <1>7, Zenon

-----------------------------------------------------------------------------
(* What is known of a package never shrinks.                               *)

Grows ==
  /\ Loaded \subseteq Loaded'
  /\ \A p \in Loaded : contents'[p] = contents[p] /\ flags[p] \subseteq flags'[p]
  /\ Public \subseteq Public'
  /\ Direct \subseteq Direct'
  /\ order' = order \/ \E p \in Name \ Loaded : order' = Append(order, p)

LEMMA StepGrows ==
  ASSUME TypeOK, Public \cup Direct \subseteq Loaded, [Next]_vars
  PROVE  Grows
<1>1. CASE UNCHANGED <<order, contents, flags>>
  BY <1>1 DEF Grows, Loaded, Public, Direct
<1>2. CASE Revisit /\ status' = "running"
  <2>1. /\ RealName[Tok] \in Loaded
        /\ flags' = [flags EXCEPT ![RealName[Tok]] = @ \cup Top.flags]
        /\ UNCHANGED <<order, contents>>
    BY <1>2, ConsumeRevisit
  <2> QED  BY <2>1 DEF Grows, Loaded, Public, Direct, TypeOK
<1>3. CASE Load /\ status' = "running"
  <2>1. /\ RealName[Tok] \in Name \ Loaded
        /\ order' = Append(order, RealName[Tok])
        /\ contents' = [contents EXCEPT ![RealName[Tok]] = job.files[Tok]]
        /\ Loaded' = Loaded \cup {RealName[Tok]}
        /\ flags' = [flags EXCEPT ![RealName[Tok]] = Top.flags]
    BY <1>3, ConsumeLoad
  <2>2. \A p \in Loaded : contents'[p] = contents[p] /\ flags'[p] = flags[p]
    BY <2>1 DEF TypeOK, Loaded
  <2>3. Public \subseteq Public' /\ Direct \subseteq Direct'
    BY <2>2 DEF Public, Direct, Loaded
  <2> QED  BY <2>1, <2>2, <2>3 DEF Grows
<1>4. CASE Next /\ ~UNCHANGED <<order, contents, flags>> /\ ~Revisit /\ ~Load
  BY <1>4, Zenon DEF Next, BeginArg, EndArg, EndField, CheckVersion, TakeOperator, Finish, Fail
<1>5. CASE (Revisit \/ Load) /\ status' # "running"
  <2>1. status = "running"
    BY <1>5 DEF Revisit, Load, AtPackage
  <2>2. UNCHANGED <<order, contents, flags>>
    BY <1>5, <2>1, Zenon DEF Revisit, Load, Fail
  <2> QED  BY <2>2, <1>1
<1> QED  BY <1>1, <1>2, <1>3, <1>4, <1>5 DEF vars

LEMMA WalkFrameGrows ==
  ASSUME Grows
  PROVE  WalkFrame \subseteq WalkFrame'
BY DEF Grows, WalkFrame, SoundFrame, ReadsField, InStep, FrameType, Flag, Op, OpToken, NoOp,
       TokenList, Name, VersionAt

-----------------------------------------------------------------------------
(* Where versions stand in a list.                                         *)

LEMMA VersionFollowsOperator ==
  ASSUME NEW l, NEW i \in Nat \ {0}, NEW j, j = i + 1
  PROVE  /\ VersionAt(l, i) => ~VersionAt(l, j)
         /\ l[i] \notin OpToken => ~VersionAt(l, j)
         /\ i >= 2 /\ l[i] \in OpToken /\ l[i - 1] \notin OpToken => VersionAt(l, j)
         /\ j - 1 = i /\ j - 2 = i - 1
<1>1. j - 1 = i /\ j - 2 = i - 1 /\ (j >= 3 <=> i >= 2) /\ (i >= 3 => i >= 2)
  OBVIOUS
<1> QED  BY <1>1, Zenon DEF VersionAt

(* The frame an iteration leaves behind stays in step with its list.       *)

LEMMA CheckedFrame ==
  ASSUME TypeOK, HasToken, Top \in WalkFrame, Top.op # NoOp
  PROVE  [Consumed EXCEPT !.last = Null, !.op = NoOp] \in WalkFrame
<1> SUFFICES ASSUME NEW c, c = [Consumed EXCEPT !.last = Null, !.op = NoOp]
             PROVE  c \in WalkFrame
  OBVIOUS
<1>1. Top \in FrameType /\ Top.pos \in Nat \ {0}
  BY TopType DEF SoundFrame, FrameType
<1>2. c \in SoundFrame
  BY TopType DEF SoundFrame, FrameType, Op
<1>3. /\ c.list = Top.list /\ c.flags = Top.flags /\ c.pos = Top.pos + 1
      /\ c.op = NoOp /\ c.last = Null
  BY <1>1 DEF FrameType, Consumed
<1>4. InStep(Top) => InStep(c)
  BY <1>1, <1>3, VersionFollowsOperator, Zenon DEF InStep
<1>5. ReadsField(Top) => ReadsField(c)
  BY <1>3, Zenon DEF ReadsField
<1> QED  BY <1>2, <1>3, <1>4, <1>5, Zenon DEF WalkFrame

LEMMA OperatorFrame ==
  ASSUME TypeOK, HasToken, Top \in WalkFrame, Top.op = NoOp, Tok \in OpToken, Top.last # Null
  PROVE  [Consumed EXCEPT !.op = Tok] \in WalkFrame
<1> SUFFICES ASSUME NEW c, c = [Consumed EXCEPT !.op = Tok]
             PROVE  c \in WalkFrame
  OBVIOUS
<1>1. Top \in FrameType /\ Top.pos \in Nat \ {0}
  BY TopType DEF SoundFrame, FrameType
<1>2. c \in SoundFrame
  BY TopType DEF SoundFrame, FrameType, Op, Consumed
<1>3. /\ c.list = Top.list /\ c.flags = Top.flags /\ c.pos = Top.pos + 1
      /\ c.op = Top.list[Top.pos] /\ c.last = Top.last /\ Top.list[Top.pos] \in OpToken
  BY <1>1 DEF FrameType, Consumed, Tok
<1>4. InStep(Top) => InStep(c)
  <2>1. c.op # NoOp
    BY <1>3 DEF OpToken, NoOp
  <2> SUFFICES ASSUME InStep(Top)
               PROVE  /\ VersionAt(c.list, c.pos)
                      /\ c.op = c.list[c.pos - 1]
                      /\ c.last = RealName[c.list[c.pos - 2]]
    BY <2>1 DEF InStep
  <2>2. /\ Top.pos >= 2 /\ Top.list[Top.pos - 1] \notin OpToken
        /\ Top.last = RealName[Top.list[Top.pos - 1]]
    BY DEF InStep
  <2> QED  BY <1>1, <1>3, <2>2, VersionFollowsOperator, Zenon
<1>5. ReadsField(Top) => ReadsField(c)
  BY <1>3, Zenon DEF ReadsField
<1> QED  BY <1>2, <1>3, <1>4, <1>5, Zenon DEF WalkFrame

LEMMA PackageFrame ==
  ASSUME TypeOK, HasToken, Top \in WalkFrame, Top.op = NoOp, Tok \notin OpToken,
         Grows, RealName[Tok] \in Loaded'
  PROVE  AtTok \in WalkFrame'
<1> SUFFICES ASSUME NEW CONSTANT c, c = AtTok
             PROVE  c \in WalkFrame'
  OBVIOUS
<1> DEFINE top == Top
<1>1. Top \in FrameType /\ Top.pos \in Nat \ {0}
  BY TopType DEF SoundFrame, FrameType
<1>2. c \in SoundFrame'
  BY TopType DEF SoundFrame, FrameType, Consumed, AtTok
<1>3. /\ c.list = Top.list /\ c.flags = Top.flags /\ c.pos = Top.pos + 1
      /\ c.op = NoOp /\ c.last = RealName[Tok]
  BY <1>1 DEF FrameType, Consumed, AtTok
<1>4. InStep(c)
  <2>1. /\ ~VersionAt(c.list, c.pos)
        /\ c.pos - 1 = Top.pos
    BY <1>1, <1>3, VersionFollowsOperator, Zenon DEF Tok
  <2>2. c.pos >= 2
    BY <1>1, <1>3
  <2> QED  BY <1>3, <2>1, <2>2, Zenon DEF InStep, Tok
<1>5. ReadsField(Top) => ReadsField(c)
  BY <1>3, Zenon DEF ReadsField
<1>6. ReadsField(c) => ReadsField(c)'
  BY DEF ReadsField, Grows
<1> QED  BY <1>2, <1>3, <1>4, <1>5, <1>6 DEF WalkFrame, Flag, InStep, VersionAt, NoOp, OpToken

(* A frame pushed to read a field of a package that is loaded by now.      *)
LEMMA FreshWalkFrame ==
  ASSUME Grows, NEW CONSTANT f, f \in SoundFrame,
         f.pos = 1, f.last = Null, f.op = NoOp, "DIRECT" \notin f.flags, ReadsField(f)'
  PROVE  f \in WalkFrame'
<1>1. f \in SoundFrame'
  BY DEF Grows, SoundFrame, FrameType, Flag, Op, OpToken, NoOp, TokenList, Name
<1>2. InStep(f)'
  BY DEF InStep, VersionAt, NoOp
<1> QED  BY <1>1, <1>2 DEF WalkFrame

LEMMA PrivateWalkFrame ==
  ASSUME Grows, NEW p \in Loaded', PrivateFrame(contents'[p].requiresprivate) \in SoundFrame
  PROVE  /\ PrivateFrame(contents'[p].requiresprivate) \in WalkFrame'
         /\ PrivateFrame(contents'[p].requiresprivate).depth = Top.depth + 1
<1> SUFFICES ASSUME NEW CONSTANT f, f = PrivateFrame(contents'[p].requiresprivate)
             PROVE  f \in WalkFrame' /\ f.depth = Top.depth + 1
  OBVIOUS
<1>1. /\ f.list = contents'[p].requiresprivate /\ f.flags = {}
      /\ f.pos = 1 /\ f.last = Null /\ f.op = NoOp /\ f.depth = Top.depth + 1
  BY DEF PrivateFrame, Frame
<1>2. ReadsField(f)'
  BY <1>1 DEF ReadsField
<1> QED  BY <1>1, <1>2, FreshWalkFrame

LEMMA PublicWalkFrame ==
  ASSUME Grows, NEW p \in Loaded', PublicFrame(contents'[p].requires) \in SoundFrame,
         "PUBLIC" \in Top.flags => p \in Public'
  PROVE  /\ PublicFrame(contents'[p].requires) \in WalkFrame'
         /\ PublicFrame(contents'[p].requires).depth = Top.depth + 1
<1> SUFFICES ASSUME NEW CONSTANT f, f = PublicFrame(contents'[p].requires)
             PROVE  f \in WalkFrame' /\ f.depth = Top.depth + 1
  OBVIOUS
<1>1. /\ f.list = contents'[p].requires /\ f.flags = Top.flags \ {"DIRECT"}
      /\ f.pos = 1 /\ f.last = Null /\ f.op = NoOp /\ f.depth = Top.depth + 1
  BY DEF PublicFrame, Frame
<1>2. ReadsField(f)'
  BY <1>1 DEF ReadsField
<1> QED  BY <1>1, <1>2, FreshWalkFrame

-----------------------------------------------------------------------------
(* The part of WalkInv about the stack.                                    *)

StackInv ==
  /\ stack \in Seq(WalkFrame)
  /\ stack # <<>> => stack[1].flags = Flag
  /\ \A k \in DOMAIN stack : stack[k].depth < k
  /\ status = "done" => stack = <<>>

(* What an iteration that consumes a token does to the stack: the top      *)
(* frame c moves on, and the frames in new are pushed on it.               *)
LEMMA StackInvConsume ==
  ASSUME TypeOK, StackInv, Grows, HasToken, status' = "running",
         NEW c \in WalkFrame', c.flags = Top.flags, c.depth = Top.depth,
         NEW f \in WalkFrame', f.depth = Top.depth + 1,
         NEW g \in WalkFrame', g.depth = Top.depth + 1,
         stack' \in {Append(Below, c), Append(Below, c) \o <<f>>,
                     Append(Below, c) \o <<f, g>>}
  PROVE  StackInv'
<1> DEFINE n == Len(stack)
           t == Append(Below, c)
           S == WalkFrame'
<1>1. n \in Nat \ {0} /\ stack # <<>> /\ Top = stack[n]
  BY TopType DEF Top
<1>2. stack \in Seq(S)
  BY WalkFrameGrows, SeqMonotonic DEF StackInv
<1>3. /\ t \in Seq(S) /\ Len(t) = n /\ t[n] = c
      /\ \A k \in 1..n - 1 : t[k] = stack[k]
  BY <1>1, <1>2, StackReplaced
<1>4. /\ stack[1].flags = Flag
      /\ \A k \in 1..n : stack[k].depth < k /\ stack[k].depth \in Nat
  <2>1. \A k \in 1..n : stack[k] \in WalkFrame
    BY ElementOfSeq DEF StackInv
  <2>2. \A k \in 1..n : stack[k].depth \in Nat
    BY <2>1 DEF WalkFrame, SoundFrame, FrameType
  <2>3. DOMAIN stack = 1..n
    BY LenProperties DEF StackInv
  <2> QED  BY <1>1, <2>2, <2>3 DEF StackInv
<1> HIDE DEF t, S
<1>5. /\ t \o <<f>> \in Seq(S) /\ Len(t \o <<f>>) = n + 1
      /\ (t \o <<f>>)[n + 1] = f
      /\ \A k \in 1..n : (t \o <<f>>)[k] = t[k]
      /\ t \o <<f, g>> \in Seq(S) /\ Len(t \o <<f, g>>) = n + 2
      /\ (t \o <<f, g>>)[n + 1] = f
      /\ (t \o <<f, g>>)[n + 2] = g
      /\ \A k \in 1..n : (t \o <<f, g>>)[k] = t[k]
  BY <1>3, PushFrames DEF S
<1> HIDE DEF n
<1>6. t[1].flags = Flag /\ \A k \in 1..n : t[k].depth < k
  <2>1. c.flags = stack[n].flags /\ c.depth = stack[n].depth
    BY <1>1
  <2>2. \A k \in 1..n : k = n \/ k \in 1..n - 1
    BY <1>1
  <2>3. \A k \in 1..n : t[k].flags = stack[k].flags /\ t[k].depth = stack[k].depth
    BY <1>3, <2>1, <2>2
  <2>4. 1 \in 1..n
    BY <1>1
  <2> QED  BY <1>4, <2>3, <2>4
<1>7. ASSUME NEW u \in {t, t \o <<f>>, t \o <<f, g>>}
      PROVE  u \in Seq(S) /\ u[1].flags = Flag /\ \A k \in 1..Len(u) : u[k].depth < k
  <2>1. CASE u = t
    BY <2>1, <1>1, <1>3, <1>6
  <2>2. CASE u = t \o <<f>>
    BY <2>2, <1>1, <1>4, <1>5, <1>6
  <2>3. CASE u = t \o <<f, g>>
    BY <2>3, <1>1, <1>4, <1>5, <1>6, SMTT(20)
  <2> QED  BY <2>1, <2>2, <2>3, <1>7
<1>8. stack' \in Seq(S) /\ stack'[1].flags = Flag /\ \A k \in 1..Len(stack') : stack'[k].depth < k
  BY <1>7 DEF t
<1>9. DOMAIN stack' = 1..Len(stack')
  BY <1>8, LenProperties
<1> QED  BY <1>8, <1>9 DEF StackInv, S, Flag

LEMMA StackInvStep ==
  ASSUME TypeOK, StackInv, Public \cup Direct \subseteq Loaded, [Next]_vars
  PROVE  StackInv'
<1>g. Grows
  BY StepGrows
<1>w. WalkFrame \subseteq WalkFrame'
  BY <1>g, WalkFrameGrows
<1>t. ASSUME HasToken
      PROVE  /\ Top \in WalkFrame /\ Top \in FrameType
             /\ stack # <<>>
    BY <1>t, TopType, StackType, ElementOfSeq DEF StackInv, SoundFrame, Top
<1>u. ASSUME UNCHANGED stack, status' # "done"
      PROVE  StackInv'
  BY <1>u, <1>w, SeqMonotonic DEF StackInv, Flag
<1>e. ASSUME stack' = <<>>
      PROVE  StackInv'
  BY <1>e, EmptySeq DEF StackInv
<1>c. ASSUME HasToken, status' = "running",
             NEW c \in WalkFrame', c.flags = Top.flags, c.depth = Top.depth,
             stack' = Append(Below, c)
      PROVE  StackInv'
  <2> DEFINE h == [c EXCEPT !.depth = Top.depth + 1]
  <2>1. c \in FrameType /\ Top \in FrameType
    BY <1>c, <1>t DEF WalkFrame, SoundFrame, FrameType, Flag, Op, OpToken, NoOp, TokenList, Name
  <2>2. h \in WalkFrame' /\ h.depth = Top.depth + 1
    BY <1>c, <2>1, SMTT(20) DEF WalkFrame, SoundFrame, FrameType, ReadsField, InStep
  <2> HIDE DEF h
  <2> QED  BY <1>c, <1>g, <2>2, StackInvConsume
<1>1. CASE BeginArg
  <2> DEFINE f == Frame(Head(args), procLast, 0, Flag, procOp)
  <2>1. Head(args) \in TokenList
    BY <1>1, HeadTailProperties DEF BeginArg, TypeOK
  <2>2. f \in SoundFrame
    BY <2>1, FreshFrame DEF TypeOK, Flag
  <2>3. f \in WalkFrame' /\ f.flags = Flag /\ f.depth = 0
    BY <2>2, <1>w DEF WalkFrame, Frame
  <2>4. stack' = <<f>> /\ status' = "running"
    BY <1>1 DEF BeginArg
  <2> HIDE DEF f
  <2> QED  BY <2>3, <2>4 DEF StackInv, Flag
<1>2. CASE EndArg
  BY <1>2, <1>e DEF EndArg
<1>3. CASE EndField
  <2>1. CASE stack' = stack
    BY <1>3, <2>1, <1>u DEF EndField, Fail
  <2>2. CASE stack' # stack
    <3>1. stack' = Below /\ status' = "running" /\ Len(stack) > 1
      BY <1>3, <2>2 DEF EndField, Fail
    <3>2. stack # <<>>
      BY <3>1, EmptyLen
    <3>3. stack \in Seq(WalkFrame') /\ Len(stack) \in Nat
      BY <1>w, SeqMonotonic, LenProperties DEF StackInv
    <3>4. /\ stack' \in Seq(WalkFrame') /\ Len(stack') = Len(stack) - 1
          /\ \A k \in 1..Len(stack) - 1 : stack'[k] = stack[k]
      BY <3>1, <3>2, <3>3, PopFrame DEF Below
    <3>5. DOMAIN stack' = 1..Len(stack) - 1 /\ DOMAIN stack = 1..Len(stack)
      BY <3>3, <3>4, LenProperties
    <3>6. stack'[1].flags = Flag /\ \A k \in DOMAIN stack' : stack'[k].depth < k
      BY <3>1, <3>2, <3>3, <3>4, <3>5 DEF StackInv
    <3> QED  BY <3>1, <3>4, <3>6 DEF StackInv, Flag
  <2> QED  BY <2>1, <2>2
<1>4. CASE CheckVersion /\ status' = "running"
  <2> DEFINE c == [Consumed EXCEPT !.last = Null, !.op = NoOp]
  <2>1. HasToken /\ Top.op # NoOp /\ stack' = Append(Below, c)
    BY <1>4, ConsumeCheck DEF CheckVersion
  <2>2. c \in WalkFrame'
    BY <2>1, <1>t, <1>w, CheckedFrame
  <2>3. c.flags = Top.flags /\ c.depth = Top.depth
    BY <2>1, <1>t DEF Consumed, FrameType
  <2> HIDE DEF c
  <2> QED  BY <1>4, <2>1, <2>2, <2>3, <1>c
<1>5. CASE TakeOperator /\ status' = "running"
  <2> DEFINE c == [Consumed EXCEPT !.op = Tok]
  <2>1. /\ HasToken /\ Top.op = NoOp /\ Tok \in OpToken /\ Top.last # Null
        /\ stack' = Append(Below, c)
    BY <1>5, ConsumeOperator DEF TakeOperator
  <2>2. c \in WalkFrame'
    BY <2>1, <1>t, <1>w, OperatorFrame
  <2>3. c.flags = Top.flags /\ c.depth = Top.depth
    BY <2>1, <1>t DEF Consumed, FrameType
  <2> HIDE DEF c
  <2> QED  BY <1>5, <2>1, <2>2, <2>3, <1>c
<1>6. CASE Revisit /\ status' = "running"
  <2> DEFINE p == RealName[Tok]
             f == PublicFrame(contents[p].requires)
  <2>0. UNCHANGED contents
    BY <1>6, ConsumeRevisit
  <2>s. \/ stack' = Append(Below, AtTok)
        \/ "PUBLIC" \in Top.flags /\ stack' = Append(Below, AtTok) \o <<f>>
    BY <1>6, ConsumeRevisit, Zenon
  <2>1. /\ HasToken /\ Top.op = NoOp /\ Tok \notin OpToken /\ p \in Loaded
        /\ flags' = [flags EXCEPT ![p] = @ \cup Top.flags]
    BY <1>6, ConsumeRevisit, Zenon
  <2>2. p \in Loaded' /\ contents'[p] = contents[p] /\ contents[p] \in File /\ p \in Name
    BY <2>0, <2>1, <1>g DEF Grows, Loaded, TypeOK
  <2>3. AtTok \in WalkFrame' /\ AtTok.flags = Top.flags /\ AtTok.depth = Top.depth
    BY <2>1, <2>2, <1>t, <1>g, PackageFrame DEF AtTok, Consumed, FrameType
  <2>4. CASE stack' = Append(Below, AtTok)
    BY <1>6, <2>1, <2>3, <2>4, <1>c
  <2>5. CASE "PUBLIC" \in Top.flags /\ stack' = Append(Below, AtTok) \o <<f>>
    <3>1. f \in WalkFrame' /\ f.depth = Top.depth + 1
      <4>1. p \in Public'
        BY <2>1, <2>2, <2>5 DEF Public, TypeOK
      <4>2. contents[p].requires \in TokenList
        BY <2>2 DEF File
      <4>3. Top.depth + 1 \in Nat /\ Top.flags \ {"DIRECT"} \in SUBSET Flag
        BY <2>1, <1>t DEF FrameType
      <4>4. f \in SoundFrame
        BY <4>2, <4>3, FreshFrame, Zenon DEF PublicFrame, Op
      <4> QED  BY <4>1, <4>4, <1>g, <2>2, PublicWalkFrame
    <3> HIDE DEF f
    <3> QED  BY <1>6, <2>1, <2>3, <2>5, <3>1, <1>g, StackInvConsume
  <2> QED  BY <2>s, <2>4, <2>5
<1>7. CASE Load /\ status' = "running"
  <2> DEFINE p == RealName[Tok]
             file == job.files[Tok]
             f == PrivateFrame(file.requiresprivate)
             g == PublicFrame(file.requires)
  <2>1. /\ HasToken /\ Top.op = NoOp /\ Tok \notin OpToken /\ p \in Name \ Loaded
        /\ file \in File
        /\ stack' = Append(Below, AtTok) \/ stack' = Append(Below, AtTok) \o <<f, g>>
        /\ contents' = [contents EXCEPT ![p] = file]
        /\ Loaded' = Loaded \cup {p}
        /\ flags' = [flags EXCEPT ![p] = Top.flags]
    BY <1>7, ConsumeLoad
  <2>2. p \in Loaded' /\ contents'[p] = file
    BY <2>1 DEF TypeOK
  <2>3. AtTok \in WalkFrame' /\ AtTok.flags = Top.flags /\ AtTok.depth = Top.depth
    BY <2>1, <2>2, <1>t, <1>g, PackageFrame DEF AtTok, Consumed, FrameType
  <2>4. CASE stack' = Append(Below, AtTok)
    BY <1>7, <2>1, <2>3, <2>4, <1>c
  <2>5. CASE stack' = Append(Below, AtTok) \o <<f, g>>
    <3>1. "PUBLIC" \in Top.flags => p \in Public'
      BY <2>1 DEF Public, TypeOK
    <3>2. file.requires \in TokenList /\ file.requiresprivate \in TokenList
      BY <2>1 DEF File
    <3>3. Top.depth + 1 \in Nat /\ Top.flags \ {"DIRECT"} \in SUBSET Flag
      BY <2>1, <1>t DEF FrameType
    <3>4. f \in SoundFrame /\ g \in SoundFrame
      BY <3>2, <3>3, FreshFrame, Zenon DEF PublicFrame, PrivateFrame, Op
    <3>5. f \in WalkFrame' /\ f.depth = Top.depth + 1
      BY <3>4, <1>g, <2>2, PrivateWalkFrame
    <3>6. g \in WalkFrame' /\ g.depth = Top.depth + 1
      BY <3>1, <3>4, <1>g, <2>2, PublicWalkFrame
    <3> HIDE DEF f, g
    <3> QED  BY <1>7, <2>1, <2>3, <2>5, <3>5, <3>6, <1>g, StackInvConsume
  <2> QED  BY <2>1, <2>4, <2>5
<1>8. CASE Finish
  BY <1>8, <1>e DEF Finish, Fail
<1>9. CASE UNCHANGED vars
  BY <1>9, <1>w, SeqMonotonic DEF StackInv, Flag, vars
<1>10. CASE Consume /\ status' # "running"
  <2>1. UNCHANGED stack /\ status' # "done"
    BY <1>10, Zenon DEF Consume, CheckVersion, TakeOperator, Revisit, Load, AtPackage, Fail
  <2> QED  BY <2>1, <1>u
<1> QED  BY <1>1, <1>2, <1>3, <1>4, <1>5, <1>6, <1>7, <1>8, <1>9, <1>10 DEF Next, Consume

-----------------------------------------------------------------------------
(* Marks stay within what is required.                                     *)

FlagsInv == Public \cup Direct \subseteq Loaded /\ PublicSound

(* A package read in a field is one of those the field names.              *)
LEMMA TopNamed ==
  ASSUME TypeOK, StackInv, HasToken, Top.op = NoOp, Tok \notin OpToken
  PROVE  /\ Top \in WalkFrame
         /\ "DIRECT" \notin Top.flags =>
              /\ Top.pos \in PkgAt(Top.list)
              /\ RealName[Tok] \in Named(Top.list)
<1>1. Top \in WalkFrame /\ Top \in FrameType
  BY StackType, TopType, ElementOfSeq DEF StackInv, SoundFrame, Top
<1>2. Top.pos \in DOMAIN Top.list
  BY <1>1, LenProperties DEF HasToken, FrameType, TokenList
<1> SUFFICES ASSUME "DIRECT" \notin Top.flags
             PROVE  Top.pos \in PkgAt(Top.list)
  BY <1>1 DEF Named, Tok
<1>3. InStep(Top)
  BY <1>1 DEF WalkFrame, Flag
<1> QED  BY <1>2, <1>3, Zenon DEF InStep, PkgAt, Tok

LEMMA FlagsInvStep ==
  ASSUME TypeOK, StackInv, FlagsInv, [Next]_vars
  PROVE  FlagsInv'
<1>g. Grows
  BY StepGrows DEF FlagsInv
<1>u. ASSUME UNCHANGED <<contents, flags>>
      PROVE  FlagsInv'
  BY <1>u DEF FlagsInv, PublicSound, RequiresClosed, Named, PkgAt, VersionAt, OpToken,
              Public, Direct, Loaded, Name
<1>p. ASSUME HasToken, Top.op = NoOp, Tok \notin OpToken,
             Loaded' = Loaded \cup {RealName[Tok]},
             NEW m, flags' = [flags EXCEPT ![RealName[Tok]] = m],
             m \subseteq flags[RealName[Tok]] \cup Top.flags, Top.flags \subseteq m
      PROVE  FlagsInv'
  <2> DEFINE p == RealName[Tok]
  <2>0. p \in Name /\ flags \in [Name -> SUBSET Flag]
    BY <1>p, TopType DEF TypeOK
  <2>1. \A q \in Name : q # p => flags'[q] = flags[q]
    BY <2>0, <1>p
  <2>2. flags'[p] = m
    BY <2>0, <1>p
  <2>3. Public' \subseteq Public \cup {p} /\ Direct' \subseteq Direct \cup {p}
    BY <2>1 DEF Public, Direct
  <2>4. Public' \cup Direct' \subseteq Loaded'
    BY <2>3, <1>p DEF FlagsInv
  <2>5. ASSUME NEW S \in SUBSET Name, Direct' \subseteq S, RequiresClosed(S)'
        PROVE  Public' \subseteq S
    <3>1. Direct \subseteq S
      BY <2>5, <1>g DEF Grows
    <3>2. \A q \in Loaded : contents'[q] = contents[q] /\ q \in Loaded'
      BY <1>g DEF Grows
    <3>3. RequiresClosed(S)
      <4> SUFFICES ASSUME NEW q \in S \cap Loaded
                   PROVE  Named(contents[q].requires) \subseteq S
        BY DEF RequiresClosed
      <4>1. Named(contents'[q].requires) \subseteq S
        BY <2>5, <3>2 DEF RequiresClosed
      <4> QED  BY <4>1, <3>2
    <3>4. Public \subseteq S
      BY <3>1, <3>3 DEF FlagsInv, PublicSound
    <3>5. ASSUME "PUBLIC" \in Top.flags
          PROVE  p \in S
      <4>1. CASE "DIRECT" \in Top.flags
        BY <4>1, <2>0, <2>2, <2>5, <1>p DEF Direct
      <4>2. CASE "DIRECT" \notin Top.flags
        <5>1. p \in Named(Top.list) /\ ReadsField(Top)
          BY <4>2, <1>p, TopNamed DEF WalkFrame, Flag
        <5>2. PICK q \in Loaded : Top.list = contents[q].requires /\ q \in Public
          BY <5>1, <3>5 DEF ReadsField
        <5> QED  BY <5>1, <5>2, <3>3, <3>4 DEF RequiresClosed
      <4> QED  BY <4>1, <4>2
    <3>6. p \in Public' => p \in Public \/ "PUBLIC" \in Top.flags
      BY <2>0, <2>2, <1>p DEF Public
    <3> QED  BY <2>3, <3>4, <3>5, <3>6
  <2> QED  BY <2>4, <2>5 DEF FlagsInv, PublicSound, Name
<1>1. CASE Revisit /\ status' = "running"
  <2>1. /\ HasToken /\ Top.op = NoOp /\ Tok \notin OpToken
        /\ RealName[Tok] \in Loaded
        /\ flags' = [flags EXCEPT ![RealName[Tok]] = @ \cup Top.flags]
        /\ UNCHANGED contents
    BY <1>1, ConsumeRevisit
  <2>2. Loaded' = Loaded \cup {RealName[Tok]}
    BY <2>1 DEF Loaded
  <2> QED  BY <2>1, <2>2, <1>p
<1>2. CASE Load /\ status' = "running"
  <2>1. /\ HasToken /\ Top.op = NoOp /\ Tok \notin OpToken
        /\ Loaded' = Loaded \cup {RealName[Tok]}
        /\ flags' = [flags EXCEPT ![RealName[Tok]] = Top.flags]
    BY <1>2, ConsumeLoad
  <2> QED  BY <2>1, <1>p
<1>3. CASE (Revisit \/ Load) /\ status' # "running"
  BY <1>3, <1>u, Zenon DEF Revisit, Load, AtPackage, Fail
<1>4. CASE UNCHANGED vars
  BY <1>4, <1>u DEF vars
<1>5. CASE Next /\ ~Revisit /\ ~Load
  BY <1>5, <1>u, Zenon DEF Next, BeginArg, EndArg, EndField, CheckVersion, TakeOperator, Finish, Fail
<1> QED  BY <1>1, <1>2, <1>3, <1>4, <1>5

-----------------------------------------------------------------------------
(* Nothing is forgotten.                                                   *)

(* An iteration that consumes a token settles that one position and leaves *)
(* everything else that was ahead still ahead.                             *)
LEMMA ConsumeShape ==
  ASSUME TypeOK, HasToken, NEW c \in SoundFrame', NEW f \in SoundFrame', NEW g \in SoundFrame',
         Loaded \subseteq Loaded',
         c.list = Top.list, c.pos = Top.pos + 1, c.flags = Top.flags,
         stack' \in {Append(Below, c), Append(Below, c) \o <<f>>,
                     Append(Below, c) \o <<f, g>>}
  PROVE  /\ \A k \in 1..Len(stack) - 1 : k \in DOMAIN stack' /\ stack'[k] = stack[k]
         /\ Len(stack) \in DOMAIN stack' /\ stack'[Len(stack)] = c
         /\ stack' = Append(Below, c) \o <<f>> =>
              Len(stack) + 1 \in DOMAIN stack' /\ stack'[Len(stack) + 1] = f
         /\ stack' = Append(Below, c) \o <<f, g>> =>
              /\ Len(stack) + 1 \in DOMAIN stack' /\ stack'[Len(stack) + 1] = f
              /\ Len(stack) + 2 \in DOMAIN stack' /\ stack'[Len(stack) + 2] = g
<1> DEFINE n == Len(stack)
           t == Append(Below, c)
           S == SoundFrame'
<1>1. n \in Nat \ {0} /\ stack # <<>>
  BY TopType
<1>2. stack \in Seq(S)
  BY <1>1, StackType, SoundFrameGrows
<1>3. /\ t \in Seq(S) /\ Len(t) = n /\ t[n] = c
      /\ \A k \in 1..n - 1 : t[k] = stack[k]
  BY <1>1, <1>2, StackReplaced
<1> HIDE DEF t, S
<1>5. /\ t \o <<f>> \in Seq(S) /\ Len(t \o <<f>>) = n + 1
      /\ (t \o <<f>>)[n + 1] = f
      /\ \A k \in 1..n : (t \o <<f>>)[k] = t[k]
      /\ t \o <<f, g>> \in Seq(S) /\ Len(t \o <<f, g>>) = n + 2
      /\ (t \o <<f, g>>)[n + 1] = f
      /\ (t \o <<f, g>>)[n + 2] = g
      /\ \A k \in 1..n : (t \o <<f, g>>)[k] = t[k]
  BY <1>3, PushFrames DEF S
<1>6. /\ DOMAIN t = 1..n /\ DOMAIN (t \o <<f>>) = 1..n + 1
      /\ DOMAIN (t \o <<f, g>>) = 1..n + 2
  BY <1>3, <1>5, LenProperties
<1> HIDE DEF n
<1>7. CASE stack' = t
  BY <1>7, <1>1, <1>3, <1>5, <1>6 DEF n, t
<1>8. CASE stack' = t \o <<f>>
  BY <1>8, <1>1, <1>3, <1>5, <1>6 DEF n, t
<1>9. CASE stack' = t \o <<f, g>>
  BY <1>9, <1>1, <1>3, <1>5, <1>6 DEF n, t
<1> QED  BY <1>7, <1>8, <1>9 DEF t, n

(* What moving the top frame on leaves pending.                            *)
Advanced(c) ==
  /\ c.list = Top.list /\ c.pos = Top.pos + 1 /\ c.flags = Top.flags
  /\ \A k \in 1..Len(stack) - 1 : k \in DOMAIN stack' /\ stack'[k] = stack[k]
  /\ Len(stack) \in DOMAIN stack' /\ stack'[Len(stack)] = c

LEMMA LoadShape ==
  ASSUME TypeOK, HasToken, NEW c \in SoundFrame', NEW f \in SoundFrame', NEW g \in SoundFrame',
         Loaded \subseteq Loaded',
         c.list = Top.list, c.pos = Top.pos + 1, c.flags = Top.flags,
         stack' = Append(Below, c) \o <<f, g>>
  PROVE  /\ Advanced(c)
         /\ Len(stack) + 1 \in DOMAIN stack' /\ stack'[Len(stack) + 1] = f
         /\ Len(stack) + 2 \in DOMAIN stack' /\ stack'[Len(stack) + 2] = g
BY ConsumeShape DEF Advanced

LEMMA PendingKept ==
  ASSUME TypeOK, HasToken, NEW c, Advanced(c),
         NEW CONSTANT l, NEW CONSTANT i \in Nat, NEW CONSTANT fl, Pending(l, i, fl)
  PROVE  \/ Pending(l, i, fl)'
         \/ l = Top.list /\ i = Top.pos /\ fl \subseteq Top.flags /\ "DIRECT" \notin Top.flags
<1>1. PICK k \in DOMAIN stack :
        /\ stack[k].list = l /\ stack[k].pos <= i
        /\ "DIRECT" \notin stack[k].flags /\ fl \subseteq stack[k].flags
  BY DEF Pending
<1>2. k \in 1..Len(stack) /\ Len(stack) \in Nat \ {0}
  BY TopType, StackType, LenProperties
<1>3. CASE k < Len(stack)
  <2>1. k \in DOMAIN stack' /\ stack'[k] = stack[k]
    BY <1>2, <1>3 DEF Advanced
  <2> QED  BY <1>1, <2>1 DEF Pending
<1>4. CASE k = Len(stack)
  <2>1. Top.pos \in Nat
    BY TopType DEF SoundFrame, FrameType
  <2>2. /\ l = Top.list /\ Top.pos <= i
        /\ "DIRECT" \notin Top.flags /\ fl \subseteq Top.flags
    BY <1>1, <1>4 DEF Top
  <2>3. CASE i # Top.pos
    <3>1. c.pos <= i
      BY <2>1, <2>2, <2>3 DEF Advanced
    <3> QED  BY <2>2, <3>1 DEF Pending, Advanced
  <2> QED  BY <2>2, <2>3
<1> QED  BY <1>2, <1>3, <1>4

PublicCovered(l) ==
  \A i \in PkgAt(l) : RealName[l[i]] \in Public \/ Pending(l, i, {"PUBLIC"})

LEMMA FieldKept ==
  ASSUME TypeOK, HasToken, NEW c, Advanced(c), Grows, UNCHANGED job,
         NEW CONSTANT l \in TokenList, FieldCovered(l),
         l = Top.list /\ "DIRECT" \notin Top.flags =>
           /\ Top.pos \in PkgAt(l) => RealName[Tok] \in Loaded'
           /\ \A j \in DOMAIN l :
                j = Top.pos /\ VersionAt(l, j) /\ ~job.ignoreVersions => SatisfiedAt(l, j)'
  PROVE  FieldCovered(l)'
<1> SUFFICES ASSUME NEW CONSTANT i \in DOMAIN l
             PROVE  /\ i \in PkgAt(l) => RealName[l[i]] \in Loaded' \/ Pending(l, i, {})'
                    /\ VersionAt(l, i) /\ ~job.ignoreVersions =>
                         SatisfiedAt(l, i)' \/ Pending(l, i, {})'
  BY DEF FieldCovered, PkgAt, VersionAt, OpToken
<1>1. i \in Nat
  BY LenProperties DEF TokenList
<1>2. CASE Pending(l, i, {})
  <2>1. CASE Pending(l, i, {})'
    BY <2>1
  <2>2. CASE l = Top.list /\ i = Top.pos /\ "DIRECT" \notin Top.flags
    <3>1. RealName[l[i]] = RealName[Tok]
      BY <2>2 DEF Tok
    <3>2. i \in PkgAt(l) => RealName[l[i]] \in Loaded'
      BY <2>2, <3>1
    <3>3. VersionAt(l, i) /\ ~job.ignoreVersions => SatisfiedAt(l, i)'
      BY <2>2
    <3> QED  BY <3>2, <3>3
  <2> QED  BY <1>1, <1>2, <2>1, <2>2, PendingKept, Zenon
<1>3. CASE ~Pending(l, i, {})
  <2>1. i \in PkgAt(l) => RealName[l[i]] \in Loaded'
    BY <1>3 DEF FieldCovered, Grows
  <2>2. SatisfiedAt(l, i) => SatisfiedAt(l, i)'
    BY DEF SatisfiedAt, Grows, ValidCompare
  <2> QED  BY <1>3, <2>1, <2>2 DEF FieldCovered
<1> QED  BY <1>2, <1>3

LEMMA PublicKept ==
  ASSUME TypeOK, HasToken, NEW c, Advanced(c), Grows,
         NEW CONSTANT l \in TokenList, PublicCovered(l),
         l = Top.list /\ "PUBLIC" \in Top.flags /\ "DIRECT" \notin Top.flags
           /\ Top.pos \in PkgAt(l) => RealName[Tok] \in Public'
  PROVE  PublicCovered(l)'
<1> SUFFICES ASSUME NEW CONSTANT i \in PkgAt(l)
             PROVE  RealName[l[i]] \in Public' \/ Pending(l, i, {"PUBLIC"})'
  BY DEF PublicCovered, PkgAt, VersionAt, OpToken
<1>1. i \in Nat
  BY LenProperties DEF TokenList, PkgAt
<1>2. CASE Pending(l, i, {"PUBLIC"})
  BY <1>1, <1>2, PendingKept DEF Tok
<1>3. CASE ~Pending(l, i, {"PUBLIC"})
  BY <1>3 DEF PublicCovered, Grows
<1> QED  BY <1>2, <1>3

(* A frame that reads a list from its first token has all of it ahead.     *)
LEMMA FreshPending ==
  ASSUME NEW CONSTANT l \in TokenList, NEW CONSTANT k, k \in DOMAIN stack',
         stack'[k].list = l, stack'[k].pos = 1, "DIRECT" \notin stack'[k].flags
  PROVE  /\ FieldCovered(l)'
         /\ "PUBLIC" \in stack'[k].flags => PublicCovered(l)'
<1>1. \A i \in DOMAIN l : i \in Nat /\ 1 <= i
  BY LenProperties DEF TokenList
<1>2. \A i \in DOMAIN l : Pending(l, i, {})'
  BY <1>1 DEF Pending
<1>3. "PUBLIC" \in stack'[k].flags => \A i \in DOMAIN l : Pending(l, i, {"PUBLIC"})'
  BY <1>1 DEF Pending
<1>4. PkgAt(l) \subseteq DOMAIN l
  BY DEF PkgAt
<1> QED  BY <1>2, <1>3, <1>4 DEF FieldCovered, PublicCovered

LEMMA CoveredIntro ==
  ASSUME \A p \in Loaded' : \A l :
           /\ l \in {contents'[p].requires, contents'[p].requiresprivate} => FieldCovered(l)'
           /\ l = contents'[p].requires /\ p \in Public' => PublicCovered(l)'
  PROVE  Covered'
BY DEF Covered, PublicCovered

LEMMA CoveredElim ==
  ASSUME Covered, NEW CONSTANT p \in Loaded, NEW CONSTANT l
  PROVE  /\ l \in {contents[p].requires, contents[p].requiresprivate} => FieldCovered(l)
         /\ l = contents[p].requires /\ p \in Public => PublicCovered(l)
BY DEF Covered, PublicCovered

LEMMA FieldType ==
  ASSUME TypeOK, NEW p \in Loaded
  PROVE  contents[p].requires \in TokenList /\ contents[p].requiresprivate \in TokenList
BY DEF TypeOK, Loaded, File

(* The packages that were loaded before an iteration stay covered by it.   *)
LEMMA CoveredConsume ==
  ASSUME TypeOK, Covered, Grows, HasToken, NEW CONSTANT c, Advanced(c), UNCHANGED job,
         "DIRECT" \notin Top.flags =>
           /\ Top.pos \in PkgAt(Top.list) => RealName[Tok] \in Loaded'
           /\ Top.pos \in PkgAt(Top.list) /\ "PUBLIC" \in Top.flags => RealName[Tok] \in Public'
           /\ \A l \in TokenList : \A j \in DOMAIN l :
                l = Top.list /\ j = Top.pos /\ VersionAt(l, j) /\ ~job.ignoreVersions
                  => SatisfiedAt(l, j)',
         NEW CONSTANT p \in Loaded, NEW CONSTANT l
  PROVE  /\ l \in {contents'[p].requires, contents'[p].requiresprivate} => FieldCovered(l)'
         /\ l = contents'[p].requires /\ p \in Public => PublicCovered(l)'
<1>1. contents'[p] = contents[p]
  BY DEF Grows
<1>2. /\ l \in {contents'[p].requires, contents'[p].requiresprivate}
           => FieldCovered(l) /\ l \in TokenList
      /\ l = contents'[p].requires /\ p \in Public => PublicCovered(l) /\ l \in TokenList
  BY <1>1, CoveredElim, FieldType
<1>3. FieldCovered(l) /\ l \in TokenList => FieldCovered(l)'
  BY FieldKept
<1>4. PublicCovered(l) /\ l \in TokenList => PublicCovered(l)'
  BY PublicKept
<1> QED  BY <1>2, <1>3, <1>4

LEMMA CoveredStep ==
  ASSUME TypeOK, StackInv, FlagsInv, Unlimited,
         status \in {"running", "done"} => Covered,
         [Next]_vars, status' \in {"running", "done"}
  PROVE  Covered'
<1>g. Grows
  BY StepGrows DEF FlagsInv
<1>d. ASSUME HasToken
      PROVE  Descends(Top.depth + 1)
  <2>1. Len(stack) \in Nat \ {0} /\ Len(stack) <= Cap /\ Cap \in Nat /\ Top.depth \in Nat
    BY <1>d, TopType, TraverseAssumption DEF SoundFrame, FrameType
  <2>2. Top.depth < Len(stack)
    BY <2>1, LenProperties DEF StackInv, Top
  <2> QED  BY <2>1, <2>2, JobType DEF Descends, Unlimited
<1>s. ASSUME UNCHANGED <<job, contents, flags>>, Covered,
             \A l \in TokenList : \A i \in DOMAIN l : \A fl :
               Pending(l, i, fl) => Pending(l, i, fl)'
      PROVE  Covered'
  <2> SUFFICES ASSUME NEW CONSTANT p \in Loaded', NEW CONSTANT l
               PROVE  /\ l \in {contents'[p].requires, contents'[p].requiresprivate}
                           => FieldCovered(l)'
                      /\ l = contents'[p].requires /\ p \in Public' => PublicCovered(l)'
    BY CoveredIntro
  <2>1. p \in Loaded /\ contents'[p] = contents[p] /\ Loaded' = Loaded /\ Public' = Public
    BY <1>s DEF Loaded, Public
  <2>2. /\ l \in {contents[p].requires, contents[p].requiresprivate} => FieldCovered(l)
        /\ l = contents[p].requires /\ p \in Public => PublicCovered(l)
        /\ l \in {contents[p].requires, contents[p].requiresprivate} => l \in TokenList
    BY <1>s, <2>1, CoveredElim, FieldType
  <2>3. \A i \in DOMAIN l : SatisfiedAt(l, i)' <=> SatisfiedAt(l, i)
    BY <1>s, <2>1 DEF SatisfiedAt, ValidCompare
  <2>4. FieldCovered(l) /\ l \in TokenList => FieldCovered(l)'
    BY <1>s, <2>1, <2>3 DEF FieldCovered, PkgAt
  <2>5. PublicCovered(l) /\ l \in TokenList => PublicCovered(l)'
    BY <1>s, <2>1 DEF PublicCovered, PkgAt
  <2> QED  BY <2>1, <2>2, <2>4, <2>5
<1>1. CASE BeginArg
  BY <1>1, <1>s DEF BeginArg, Pending
<1>2. CASE EndArg
  <2>1. \A k \in DOMAIN stack : "DIRECT" \in stack[k].flags
    BY <1>2, EmptyLen, LenProperties DEF EndArg, StackInv, Flag
  <2> QED  BY <1>2, <2>1, <1>s DEF EndArg, Pending
<1>3. CASE EndField
  <2>1. stack' = Below /\ Len(stack) > 1 /\ status = "running" /\ ~HasToken
        /\ UNCHANGED <<job, contents, flags>>
    BY <1>3 DEF EndField, Fail
  <2>2. stack # <<>>
    BY <2>1, EmptyLen
  <2>3. /\ Len(stack) \in Nat \ {0} /\ stack \in Seq(SoundFrame)
        /\ Len(stack') = Len(stack) - 1 /\ stack' \in Seq(SoundFrame)
        /\ \A k \in 1..Len(stack) - 1 : stack'[k] = stack[k]
        /\ Top \in SoundFrame
    BY <2>1, <2>2, StackType
  <2>4. DOMAIN stack' = 1..Len(stack) - 1 /\ DOMAIN stack = 1..Len(stack)
    BY <2>3, LenProperties
  <2>5. \A i \in DOMAIN Top.list : ~(Top.pos <= i)
    BY <2>1, <2>2, <2>3, LenProperties DEF HasToken, SoundFrame, FrameType, TokenList
  <2>6. ASSUME NEW l \in TokenList, NEW i \in DOMAIN l, NEW fl, Pending(l, i, fl)
        PROVE  Pending(l, i, fl)'
    <3>1. PICK k \in DOMAIN stack :
            /\ stack[k].list = l /\ stack[k].pos <= i
            /\ "DIRECT" \notin stack[k].flags /\ fl \subseteq stack[k].flags
      BY <2>6 DEF Pending
    <3>2. k # Len(stack)
      BY <3>1, <2>5 DEF Top
    <3>3. k \in DOMAIN stack' /\ stack'[k] = stack[k]
      BY <2>3, <2>4, <3>2
    <3> QED  BY <3>1, <3>3 DEF Pending
  <2> QED  BY <2>1, <2>6, <1>s
<1>4. CASE CheckVersion /\ status' = "running"
  <2> DEFINE e == [Consumed EXCEPT !.last = Null, !.op = NoOp]
  <2>1. /\ HasToken /\ Top.op # NoOp /\ stack' = Append(Below, e)
        /\ job.ignoreVersions \/ ValidCompare(Top.op, contents[Top.last].version, Tok)
        /\ UNCHANGED <<job, contents, flags>> /\ status = "running"
    BY <1>4, ConsumeCheck DEF CheckVersion
  <2> SUFFICES ASSUME NEW CONSTANT c, c = e
               PROVE  Covered'
    OBVIOUS
  <2>2. Top \in SoundFrame /\ Top \in WalkFrame
    BY <2>1, TopType, StackType, ElementOfSeq DEF StackInv, Top
  <2>3. Advanced(c) /\ c \in SoundFrame
    <3>1. c \in SoundFrame /\ c.list = Top.list /\ c.pos = Top.pos + 1 /\ c.flags = Top.flags
      BY <2>1, <2>2, TopType DEF SoundFrame, FrameType, Consumed, Op
    <3>2. SoundFrame' = SoundFrame /\ Loaded' = Loaded
      BY <2>1 DEF SoundFrame, Loaded
    <3>3. stack' \in {Append(Below, c), Append(Below, c) \o <<c>>, Append(Below, c) \o <<c, c>>}
      BY <2>1
    <3> HIDE DEF e
    <3> QED  BY <2>1, <3>1, <3>2, <3>3, ConsumeShape DEF Advanced
  <2>4. ASSUME "DIRECT" \notin Top.flags
        PROVE  /\ Top.pos \notin PkgAt(Top.list)
               /\ \A l \in TokenList : \A j \in DOMAIN l :
                    l = Top.list /\ j = Top.pos /\ VersionAt(l, j) /\ ~job.ignoreVersions
                      => SatisfiedAt(l, j)'
    <3>1. /\ VersionAt(Top.list, Top.pos)
          /\ Top.op = Top.list[Top.pos - 1]
          /\ Top.last = RealName[Top.list[Top.pos - 2]]
          /\ Top.last \in Loaded
      BY <2>1, <2>2, <2>4 DEF WalkFrame, InStep, Flag, SoundFrame
    <3>2. Loaded' = Loaded /\ contents' = contents
      BY <2>1 DEF Loaded
    <3>3. ASSUME NEW l, NEW j, l = Top.list, j = Top.pos, ~job.ignoreVersions
          PROVE  SatisfiedAt(l, j)'
      BY <2>1, <3>1, <3>2, <3>3 DEF SatisfiedAt, Tok, ValidCompare
    <3> QED  BY <3>1, <3>3 DEF PkgAt
  <2>5. \A p \in Loaded : \A l :
          /\ l \in {contents'[p].requires, contents'[p].requiresprivate} => FieldCovered(l)'
          /\ l = contents'[p].requires /\ p \in Public => PublicCovered(l)'
    BY <2>1, <2>3, <2>4, <1>g, CoveredConsume
  <2>6. Loaded' = Loaded /\ Public' = Public
    BY <2>1 DEF Loaded, Public
  <2> QED  BY <2>5, <2>6, CoveredIntro
<1>5. CASE TakeOperator /\ status' = "running"
  <2> DEFINE e == [Consumed EXCEPT !.op = Tok]
  <2>1. /\ HasToken /\ Top.op = NoOp /\ Tok \in OpToken /\ Top.last # Null
        /\ stack' = Append(Below, e)
        /\ UNCHANGED <<job, contents, flags>> /\ status = "running"
    BY <1>5, ConsumeOperator DEF TakeOperator
  <2> SUFFICES ASSUME NEW CONSTANT c, c = e
               PROVE  Covered'
    OBVIOUS
  <2>2. Top \in SoundFrame /\ Top \in WalkFrame
    BY <2>1, TopType, StackType, ElementOfSeq DEF StackInv, Top
  <2>3. Advanced(c) /\ c \in SoundFrame
    <3>1. c \in SoundFrame /\ c.list = Top.list /\ c.pos = Top.pos + 1 /\ c.flags = Top.flags
      BY <2>1, <2>2, TopType DEF SoundFrame, FrameType, Consumed, Op
    <3>2. SoundFrame' = SoundFrame /\ Loaded' = Loaded
      BY <2>1 DEF SoundFrame, Loaded
    <3>3. stack' \in {Append(Below, c), Append(Below, c) \o <<c>>, Append(Below, c) \o <<c, c>>}
      BY <2>1
    <3> HIDE DEF e
    <3> QED  BY <2>1, <3>1, <3>2, <3>3, ConsumeShape DEF Advanced
  <2>4. ASSUME "DIRECT" \notin Top.flags
        PROVE  Top.pos \notin PkgAt(Top.list) /\ ~VersionAt(Top.list, Top.pos)
    BY <2>1, <2>2, <2>4 DEF PkgAt, Tok, WalkFrame, InStep, Flag
  <2>5. \A p \in Loaded : \A l :
          /\ l \in {contents'[p].requires, contents'[p].requiresprivate} => FieldCovered(l)'
          /\ l = contents'[p].requires /\ p \in Public => PublicCovered(l)'
    BY <2>1, <2>3, <2>4, <1>g, CoveredConsume
  <2>6. Loaded' = Loaded /\ Public' = Public
    BY <2>1 DEF Loaded, Public
  <2> QED  BY <2>5, <2>6, CoveredIntro
<1>8. CASE Finish
  BY <1>8, <1>s DEF Finish, Fail, Pending
<1>9. CASE UNCHANGED vars
  BY <1>9, <1>s DEF vars, Pending
<1>10. CASE Consume /\ status' # "running"
  <2>1. status' \notin {"running", "done"}
    BY <1>10, Zenon DEF Consume, CheckVersion, TakeOperator, Revisit, Load, AtPackage, Fail
  <2> QED  BY <2>1
<1>6. CASE Revisit /\ status' = "running"
  <2> DEFINE q == RealName[Tok]
             h == PublicFrame(contents[q].requires)
             promoted == "PUBLIC" \in Top.flags /\ q \notin Public
  <2>1. /\ HasToken /\ Top.op = NoOp /\ Tok \notin OpToken /\ q \in Loaded
        /\ flags' = [flags EXCEPT ![q] = @ \cup Top.flags]
        /\ UNCHANGED <<job, contents>> /\ status = "running"
    BY <1>6, ConsumeRevisit DEF Revisit, AtPackage
  <2>2. /\ Top \in SoundFrame /\ Top \in WalkFrame /\ Top.flags \in SUBSET Flag
        /\ Loaded' = Loaded /\ SoundFrame' = SoundFrame
    BY <2>1, TopType, StackType, ElementOfSeq, SMTT(20) DEF StackInv, Top, Loaded, SoundFrame, FrameType
  <2>3. /\ promoted => stack' = Append(Below, AtTok) \o <<h>>
        /\ ~promoted => stack' = Append(Below, AtTok)
    <3>1. promoted <=> "PUBLIC" \in Top.flags /\ "PUBLIC" \notin flags[q]
      BY <2>1 DEF Public, Loaded
    <3>2. Descends(Top.depth + 1)
      BY <2>1, <1>d
    <3> QED  BY <1>6, <3>1, <3>2, ConsumeRevisit, Zenon
  <2>4. /\ Public' = IF promoted THEN Public \cup {q} ELSE Public
        /\ "PUBLIC" \in Top.flags => q \in Public'
    BY <2>1 DEF Public, TypeOK, Loaded
  <2> SUFFICES ASSUME NEW CONSTANT c, c = AtTok, NEW CONSTANT f, f = h
               PROVE  Covered'
    OBVIOUS
  <2>5. /\ c \in SoundFrame /\ c.list = Top.list /\ c.pos = Top.pos + 1
        /\ c.flags = Top.flags
    BY <2>1, <2>2, TopType DEF SoundFrame, FrameType, Consumed, AtTok
  <2>6. /\ f \in SoundFrame /\ f.list = contents[q].requires /\ f.pos = 1
        /\ f.flags = Top.flags \ {"DIRECT"}
    <3>1. Top.depth + 1 \in Nat /\ Top.flags \ {"DIRECT"} \in SUBSET Flag
      BY <2>2 DEF SoundFrame, FrameType
    <3>2. contents[q].requires \in TokenList
      BY <2>1, FieldType
    <3>3. f \in SoundFrame
      BY <3>1, <3>2, FreshFrame, Zenon DEF PublicFrame, Op
    <3> QED  BY <3>3 DEF PublicFrame, Frame
  <2> HIDE DEF h
  <2>7. stack' \in {Append(Below, c), Append(Below, c) \o <<f>>, Append(Below, c) \o <<f, f>>}
    BY <2>3
  <2>8. /\ Advanced(c)
        /\ promoted => Len(stack) + 1 \in DOMAIN stack' /\ stack'[Len(stack) + 1] = f
    <3>1. /\ \A k \in 1..Len(stack) - 1 : k \in DOMAIN stack' /\ stack'[k] = stack[k]
          /\ Len(stack) \in DOMAIN stack' /\ stack'[Len(stack)] = c
          /\ stack' = Append(Below, c) \o <<f>> =>
               Len(stack) + 1 \in DOMAIN stack' /\ stack'[Len(stack) + 1] = f
      <4>1. /\ c \in SoundFrame' /\ f \in SoundFrame' /\ Loaded \subseteq Loaded'
            /\ HasToken /\ c.list = Top.list /\ c.pos = Top.pos + 1 /\ c.flags = Top.flags
        BY <2>1, <2>2, <2>5, <2>6
      <4> QED  BY <4>1, <2>7, ConsumeShape, ZenonT(40)
    <3>2. promoted => stack' = Append(Below, c) \o <<f>>
      BY <2>3
    <3> QED  BY <2>5, <3>1, <3>2, Zenon DEF Advanced
  <2>9. \A p \in Loaded : \A l :
          /\ l \in {contents'[p].requires, contents'[p].requiresprivate} => FieldCovered(l)'
          /\ l = contents'[p].requires /\ p \in Public => PublicCovered(l)'
    <3>1. "DIRECT" \notin Top.flags => ~VersionAt(Top.list, Top.pos)
      BY <2>1, <2>2 DEF WalkFrame, InStep, Flag
    <3> QED  BY <2>1, <2>2, <2>4, <2>8, <3>1, <1>g, CoveredConsume
  <2>10. ASSUME promoted, NEW CONSTANT l, l = contents'[q].requires
         PROVE  PublicCovered(l)'
    <3>1. l \in TokenList /\ f.list = l
      BY <2>1, <2>6, <2>10, FieldType
    <3>2. "PUBLIC" \in f.flags /\ "DIRECT" \notin f.flags
      BY <2>6, <2>10
    <3> QED  BY <2>6, <2>8, <2>10, <3>1, <3>2, FreshPending
  <2>11. \A p \in Loaded' : \A l :
           /\ l \in {contents'[p].requires, contents'[p].requiresprivate} => FieldCovered(l)'
           /\ l = contents'[p].requires /\ p \in Public' => PublicCovered(l)'
    BY <2>2, <2>4, <2>9, <2>10
  <2> QED  BY <2>11, CoveredIntro
<1>7. CASE Load /\ status' = "running"
  <2> DEFINE q == RealName[Tok]
             file == job.files[Tok]
             h1 == PrivateFrame(file.requiresprivate)
             h2 == PublicFrame(file.requires)
  <2>1. /\ HasToken /\ Top.op = NoOp /\ Tok \notin OpToken /\ q \in Name \ Loaded
        /\ file \in File /\ Loaded' = Loaded \cup {q}
        /\ contents' = [contents EXCEPT ![q] = file]
        /\ flags' = [flags EXCEPT ![q] = Top.flags]
        /\ UNCHANGED job /\ status = "running"
    BY <1>7, ConsumeLoad DEF Load, AtPackage
  <2>2. /\ Top \in SoundFrame /\ Top \in WalkFrame /\ Top.flags \in SUBSET Flag
        /\ Loaded \subseteq Loaded' /\ SoundFrame \subseteq SoundFrame'
    <3>1. Top \in SoundFrame /\ Top \in WalkFrame
      BY <2>1, TopType, StackType, ElementOfSeq DEF StackInv, Top
    <3>2. Top.flags \in SUBSET Flag
      BY <3>1 DEF SoundFrame, FrameType
    <3>3. Loaded \subseteq Loaded'
      BY <2>1
    <3>4. SoundFrame \subseteq SoundFrame'
      BY <3>3 DEF SoundFrame, FrameType, Flag, Op, OpToken, NoOp, TokenList, Name
    <3> QED  BY <3>1, <3>2, <3>3, <3>4
  <2>3. stack' = Append(Below, AtTok) \o <<h1, h2>>
    BY <1>7, <2>1, <1>d, ConsumeLoad, Zenon
  <2>4. /\ contents'[q] = file
        /\ "PUBLIC" \in Top.flags <=> q \in Public'
        /\ \A p \in Loaded : p \in Public' => p \in Public
    BY <2>1 DEF Public, TypeOK, Loaded
  <2> SUFFICES ASSUME NEW CONSTANT c, c = AtTok, NEW CONSTANT f, f = h1,
                      NEW CONSTANT g, g = h2
               PROVE  Covered'
    OBVIOUS
  <2>5. /\ c \in SoundFrame' /\ c.list = Top.list /\ c.pos = Top.pos + 1
        /\ c.flags = Top.flags
    BY <2>1, <2>2, TopType DEF SoundFrame, FrameType, Consumed, AtTok
  <2>6. /\ f \in SoundFrame /\ f.list = file.requiresprivate /\ f.pos = 1 /\ f.flags = {}
        /\ g \in SoundFrame /\ g.list = file.requires /\ g.pos = 1
        /\ g.flags = Top.flags \ {"DIRECT"}
        /\ file.requires \in TokenList /\ file.requiresprivate \in TokenList
    <3>1. Top.depth + 1 \in Nat /\ Top.flags \ {"DIRECT"} \in SUBSET Flag
      BY <2>2 DEF SoundFrame, FrameType
    <3>2. file.requires \in TokenList /\ file.requiresprivate \in TokenList
      BY <2>1 DEF File
    <3>3. f \in SoundFrame /\ g \in SoundFrame
      BY <3>1, <3>2, FreshFrame, Zenon DEF PublicFrame, PrivateFrame, Op
    <3> QED  BY <3>2, <3>3 DEF PublicFrame, PrivateFrame, Frame
  <2> HIDE DEF h1, h2
  <2>7. stack' \in {Append(Below, c), Append(Below, c) \o <<f>>, Append(Below, c) \o <<f, g>>}
    BY <2>3
  <2>8. /\ Advanced(c)
        /\ Len(stack) + 1 \in DOMAIN stack' /\ stack'[Len(stack) + 1] = f
        /\ Len(stack) + 2 \in DOMAIN stack' /\ stack'[Len(stack) + 2] = g
    <3>1. /\ c \in SoundFrame' /\ f \in SoundFrame' /\ g \in SoundFrame'
          /\ Loaded \subseteq Loaded'
          /\ HasToken /\ c.list = Top.list /\ c.pos = Top.pos + 1 /\ c.flags = Top.flags
      BY <2>1, <2>2, <2>5, <2>6
    <3>2. stack' = Append(Below, c) \o <<f, g>>
      BY <2>3
    <3> QED  BY <3>1, <3>2, LoadShape
  <2>9. \A p \in Loaded : \A l :
          /\ l \in {contents'[p].requires, contents'[p].requiresprivate} => FieldCovered(l)'
          /\ l = contents'[p].requires /\ p \in Public => PublicCovered(l)'
    <3>1. "DIRECT" \notin Top.flags => ~VersionAt(Top.list, Top.pos)
      BY <2>1, <2>2 DEF WalkFrame, InStep, Flag
    <3> QED  BY <2>1, <2>2, <2>4, <2>8, <3>1, <1>g, CoveredConsume
  <2>10. ASSUME NEW CONSTANT l, l = contents'[q].requires
         PROVE  FieldCovered(l)' /\ (q \in Public' => PublicCovered(l)')
    <3>1. l \in TokenList /\ g.list = l
      BY <2>4, <2>6, <2>10
    <3>2. "DIRECT" \notin g.flags /\ (q \in Public' => "PUBLIC" \in g.flags)
      BY <2>4, <2>6
    <3> QED  BY <2>6, <2>8, <3>1, <3>2, FreshPending
  <2>11. ASSUME NEW CONSTANT l, l = contents'[q].requiresprivate
         PROVE  FieldCovered(l)'
    <3>1. l \in TokenList /\ f.list = l
      BY <2>4, <2>6, <2>11
    <3>2. "DIRECT" \notin f.flags
      BY <2>6
    <3> QED  BY <2>6, <2>8, <3>1, <3>2, FreshPending
  <2>12. \A p \in Loaded' : \A l :
           /\ l \in {contents'[p].requires, contents'[p].requiresprivate} => FieldCovered(l)'
           /\ l = contents'[p].requires /\ p \in Public' => PublicCovered(l)'
    BY <2>1, <2>4, <2>9, <2>10, <2>11
  <2> QED  BY <2>12, CoveredIntro
<1> QED  BY <1>1, <1>2, <1>3, <1>4, <1>5, <1>6, <1>7, <1>8, <1>9, <1>10 DEF Next, Consume

-----------------------------------------------------------------------------
(* The theorems.                                                           *)

LEMMA WalkInvSplit ==
  ASSUME TypeOK
  PROVE  WalkInv <=> /\ StackInv /\ FlagsInv
                     /\ Unlimited /\ status \in {"running", "done"} => Covered
BY Zenon DEF WalkInv, StackInv, FlagsInv

LEMMA WalkInvInit == Init => WalkInv
<1> SUFFICES ASSUME Init PROVE WalkInv
  OBVIOUS
<1>1. TypeOK
  BY TypeInit
<1>2. Loaded = {} /\ Public = {} /\ Direct = {}
  BY DEF Init, Loaded, Public, Direct
<1>3. StackInv
  BY EmptySeq DEF Init, StackInv
<1>4. FlagsInv
  BY <1>2 DEF FlagsInv, PublicSound
<1>5. Covered
  BY <1>2 DEF Covered
<1> QED  BY <1>1, <1>3, <1>4, <1>5, WalkInvSplit

LEMMA WalkInvStep == WalkInv /\ [Next]_vars => WalkInv'
<1> SUFFICES ASSUME WalkInv, [Next]_vars PROVE WalkInv'
  OBVIOUS
<1>1. TypeOK /\ StackInv /\ FlagsInv
  BY WalkInvSplit DEF WalkInv
<1>2. TypeOK' /\ StackInv' /\ FlagsInv'
  BY <1>1, TypeStep, StackInvStep, FlagsInvStep DEF FlagsInv
<1>3. ASSUME Unlimited', status' \in {"running", "done"}
      PROVE  Covered'
  <2>1. job' = job
    BY Zenon DEF Next, BeginArg, EndArg, EndField, CheckVersion, TakeOperator, Revisit,
                 Load, Finish, Fail, vars
  <2>2. Unlimited
    BY <1>3, <2>1 DEF Unlimited
  <2>3. status \in {"running", "done"} => Covered
    BY <2>2 DEF WalkInv
  <2> QED  BY <1>1, <1>3, <2>2, <2>3, CoveredStep
<1> QED  BY <1>2, <1>3 DEF WalkInv, StackInv, FlagsInv

(* The inductive invariant of the walk.                                    *)
THEOREM WalkInvariant == Spec => []WalkInv
BY WalkInvInit, WalkInvStep, PTL DEF Spec

(* A package is marked PUBLIC only for being named on the command line or  *)
(* required by a chain of Requires that starts there.                      *)
THEOREM PublicIsSound == Spec => []PublicSound
<1>1. WalkInv => PublicSound
  BY DEF WalkInv
<1> QED  BY <1>1, WalkInvariant, PTL

(* With nothing on the stack nothing is pending.                           *)
LEMMA DoneCovers ==
  ASSUME WalkInv, status = "done", Unlimited, NEW p \in Loaded
  PROVE  /\ \A l \in {contents[p].requires, contents[p].requiresprivate} :
              /\ Named(l) \subseteq Loaded
              /\ ~job.ignoreVersions => Satisfied(l)
         /\ p \in Public => Named(contents[p].requires) \subseteq Public
<1>1. Covered /\ stack = <<>>
  BY DEF WalkInv
<1>2. \A l, i, fl : ~Pending(l, i, fl)
  BY <1>1 DEF Pending
<1>3. PublicCovered(contents[p].requires) <=>
        \A i \in PkgAt(contents[p].requires) :
          RealName[contents[p].requires[i]] \in Public \/ Pending(contents[p].requires, i, {"PUBLIC"})
  BY DEF PublicCovered
<1>4. ASSUME NEW l \in {contents[p].requires, contents[p].requiresprivate}
      PROVE  Named(l) \subseteq Loaded /\ (~job.ignoreVersions => Satisfied(l))
  <2>1. FieldCovered(l)
    BY <1>1, <1>4 DEF Covered
  <2> QED  BY <2>1, <1>2 DEF FieldCovered, Named, PkgAt, Satisfied
<1>5. ASSUME p \in Public
      PROVE  Named(contents[p].requires) \subseteq Public
  <2>1. PublicCovered(contents[p].requires)
    BY <1>1, <1>5, <1>3 DEF Covered
  <2> QED  BY <2>1, <1>2 DEF PublicCovered, Named
<1> QED  BY <1>4, <1>5

(* In a complete walk no public requirement of a PUBLIC package stays      *)
(* private, in whatever order the branches met it.                         *)
THEOREM PublicIsClosed == Spec => []PublicClosed
<1>1. WalkInv => PublicClosed
  BY DoneCovers DEF PublicClosed, RequiresClosed
<1> QED  BY <1>1, WalkInvariant, PTL

(* In a complete walk all requirements of loaded packages are loaded.      *)
THEOREM LoadedIsClosed == Spec => []LoadedClosed
<1>1. WalkInv => LoadedClosed
  BY DoneCovers DEF LoadedClosed
<1> QED  BY <1>1, WalkInvariant, PTL

(* A complete walk that succeeds has checked every version constraint of   *)
(* every loaded package.                                                   *)
THEOREM ConstraintsAreChecked == Spec => []ConstraintsChecked
<1>1. WalkInv => ConstraintsChecked
  BY DoneCovers DEF ConstraintsChecked
<1> QED  BY <1>1, WalkInvariant, PTL

(* Loading happens once per package, and marks are never taken back.       *)
THEOREM NothingIsRevoked == Spec => NothingRevoked
<1>1. WalkInv /\ [Next]_vars =>
        [/\ \A p \in Loaded : contents'[p] = contents[p] /\ flags[p] \subseteq flags'[p]
         /\ order' = order \/ \E p \in Name \ Loaded : order' = Append(order, p)]_vars
  BY StepGrows DEF WalkInv, Grows
<1> QED  BY <1>1, WalkInvariant, PTL DEF Spec, NothingRevoked

-----------------------------------------------------------------------------
(***************************************************************************)
(* The stack of process() grows with the packages loaded and with nothing  *)
(* else, whatever cycles the graph has: two frames for each of them.       *)
(***************************************************************************)

(* Every frame above the argument's is owed to a package: to one half of   *)
(* it, and no two frames to the same half.  A package pushes both halves   *)
(* as it is loaded, and the first again when it turns PUBLIC.  That this   *)
(* one is not on the stack any more is what the last part says: above a    *)
(* frame of a private package there is nothing public.                     *)
Owed(s, L, P, pkg, half) ==
  /\ \A k, l \in 2..Len(s) : pkg[k] = pkg[l] /\ half[k] = half[l] => k = l
  /\ \A k \in 2..Len(s) :
       pkg[k] \in P \/ \A m \in k..Len(s) : "PUBLIC" \notin s[m].flags

Accounted(s, L, P) ==
  \E pkg \in [2..Len(s) -> L], half \in [2..Len(s) -> {1, 2}] : Owed(s, L, P, pkg, half)

LEMMA AccountedShort ==
  ASSUME NEW s, Len(s) \in {0, 1}, NEW L, NEW P
  PROVE  Accounted(s, L, P)
<1> DEFINE none == [k \in 2..Len(s) |-> k]
<1>1. \A n \in {0, 1} : 2..n = {}
  OBVIOUS
<1>2. 2..Len(s) = {}
  BY <1>1
<1>3. none \in [2..Len(s) -> L] /\ none \in [2..Len(s) -> {1, 2}]
  BY <1>2
<1>4. Owed(s, L, P, none, none)
  BY <1>2 DEF Owed
<1> QED  BY <1>3, <1>4, Zenon DEF Accounted

(* Frames popped, or moved on.                                             *)
LEMMA AccountedKept ==
  ASSUME NEW s, NEW t, Len(s) \in Nat, Len(t) \in Nat, Len(t) <= Len(s),
         \A k \in 1..Len(t) : t[k].flags = s[k].flags,
         NEW L, NEW M, L \subseteq M, NEW P, NEW Q, P \subseteq Q,
         Accounted(s, L, P)
  PROVE  Accounted(t, M, Q)
<1>1. PICK pkg \in [2..Len(s) -> L], half \in [2..Len(s) -> {1, 2}] : Owed(s, L, P, pkg, half)
  BY DEF Accounted
<1> DEFINE a == [k \in 2..Len(t) |-> pkg[k]]
           b == [k \in 2..Len(t) |-> half[k]]
<1>2. a \in [2..Len(t) -> M] /\ b \in [2..Len(t) -> {1, 2}]
  OBVIOUS
<1>3. Owed(t, M, Q, a, b)
  BY <1>1 DEF Owed
<1> QED  BY <1>2, <1>3, Zenon DEF Accounted

(* A private package is met on a public branch, and its Requires pushed.   *)
LEMMA AccountedPromoted ==
  ASSUME NEW s, NEW t, Len(s) \in Nat \ {0}, Len(t) = Len(s) + 1,
         \A k \in 1..Len(s) : t[k].flags = s[k].flags,
         "PUBLIC" \in s[Len(s)].flags,
         NEW L, NEW P, NEW Q, P \subseteq Q, NEW p \in L, p \notin P, p \in Q,
         Accounted(s, L, P)
  PROVE  Accounted(t, L, Q)
<1>1. PICK pkg \in [2..Len(s) -> L], half \in [2..Len(s) -> {1, 2}] : Owed(s, L, P, pkg, half)
  BY DEF Accounted
<1> DEFINE a == [k \in 2..Len(t) |-> IF k = Len(t) THEN p ELSE pkg[k]]
           b == [k \in 2..Len(t) |-> IF k = Len(t) THEN 1 ELSE half[k]]
<1>2. a \in [2..Len(t) -> L] /\ b \in [2..Len(t) -> {1, 2}]
  OBVIOUS
<1>3. \A k \in 2..Len(s) : pkg[k] \in P
  BY <1>1 DEF Owed
<1>4. Owed(t, L, Q, a, b)
  <2>1. ASSUME NEW k \in 2..Len(t), NEW l \in 2..Len(t), a[k] = a[l] /\ b[k] = b[l]
        PROVE  k = l
    <3>1. CASE k = Len(t) /\ l # Len(t)
      BY <3>1, <2>1, <1>3
    <3>2. CASE k # Len(t) /\ l = Len(t)
      BY <3>2, <2>1, <1>3
    <3>3. CASE k # Len(t) /\ l # Len(t)
      <4>1. k \in 2..Len(s) /\ l \in 2..Len(s)
        BY <3>3
      <4>2. pkg[k] = pkg[l] /\ half[k] = half[l]
        BY <3>3, <2>1
      <4> QED  BY <4>1, <4>2, <1>1 DEF Owed
    <3> QED  BY <3>1, <3>2, <3>3
  <2>2. \A k \in 2..Len(t) : a[k] \in Q
    BY <1>3
  <2> QED  BY <2>1, <2>2 DEF Owed
<1> QED  BY <1>2, <1>4, Zenon DEF Accounted

(* A package is loaded, and both its fields pushed.                        *)
LEMMA AccountedLoaded ==
  ASSUME NEW s, NEW t, Len(s) \in Nat \ {0}, Len(t) = Len(s) + 2,
         \A k \in 1..Len(s) : t[k].flags = s[k].flags,
         NEW L, NEW P, NEW Q, P \subseteq Q, NEW p, p \notin L,
         "PUBLIC" \in s[Len(s)].flags => p \in Q,
         "PUBLIC" \in t[Len(s) + 1].flags \cup t[Len(s) + 2].flags =>
           "PUBLIC" \in s[Len(s)].flags,
         Accounted(s, L, P)
  PROVE  Accounted(t, L \cup {p}, Q)
<1>1. PICK pkg \in [2..Len(s) -> L], half \in [2..Len(s) -> {1, 2}] : Owed(s, L, P, pkg, half)
  BY DEF Accounted
<1> DEFINE n == Len(s)
           a == [k \in 2..Len(t) |-> IF k > n THEN p ELSE pkg[k]]
           b == [k \in 2..Len(t) |-> IF k > n THEN k - n ELSE half[k]]
<1>2. a \in [2..Len(t) -> L \cup {p}] /\ b \in [2..Len(t) -> {1, 2}]
  OBVIOUS
<1>3. Owed(t, L \cup {p}, Q, a, b)
  <2>1. ASSUME NEW k \in 2..Len(t), NEW l \in 2..Len(t), a[k] = a[l] /\ b[k] = b[l]
        PROVE  k = l
    <3>1. CASE k > n /\ l > n
      BY <3>1, <2>1
    <3>2. CASE k > n /\ l <= n
      BY <3>2, <2>1
    <3>3. CASE k <= n /\ l > n
      BY <3>3, <2>1
    <3>4. CASE k <= n /\ l <= n
      BY <3>4, <2>1, <1>1 DEF Owed
    <3> QED  BY <3>1, <3>2, <3>3, <3>4
  <2>2. ASSUME NEW k \in 2..Len(t), a[k] \notin Q, NEW m \in k..Len(t)
        PROVE  "PUBLIC" \notin t[m].flags
    <3>1. "PUBLIC" \notin s[n].flags
      <4>1. CASE k > n
        BY <4>1, <2>2
      <4>2. CASE k <= n
        BY <4>2, <2>2, <1>1 DEF Owed
      <4> QED  BY <4>1, <4>2
    <3>2. CASE m > n
      <4>1. m \in Nat /\ m <= n + 2 /\ n \in Nat
        OBVIOUS
      <4>2. m = n + 1 \/ m = n + 2
        BY <4>1, <3>2
      <4> QED  BY <4>2, <3>1
    <3>3. CASE m <= n
      BY <3>3, <2>2, <1>1 DEF Owed
    <3> QED  BY <3>2, <3>3
  <2> QED  BY <2>1, <2>2 DEF Owed
<1> QED  BY <1>2, <1>3, Zenon DEF Accounted

(* Two halves of a package: more frames would have to share one.           *)
LEMMA AccountedBound ==
  ASSUME NEW s, Len(s) \in Nat, NEW L, IsFiniteSet(L), NEW P, Accounted(s, L, P)
  PROVE  Len(s) <= 1 + 2 * Cardinality(L)
<1>1. PICK pkg \in [2..Len(s) -> L], half \in [2..Len(s) -> {1, 2}] : Owed(s, L, P, pkg, half)
  BY DEF Accounted
<1> DEFINE F == 2..Len(s)
           T == L \X (1..2)
           f == [k \in F |-> <<pkg[k], half[k]>>]
<1>2. f \in [F -> T]
  OBVIOUS
<1>3. IsFiniteSet(F) /\ Cardinality(F) = IF 2 > Len(s) THEN 0 ELSE Len(s) - 2 + 1
  BY FS_Interval
<1>4. IsFiniteSet(1..2) /\ Cardinality(1..2) = 2
  <2>1. \A a, b \in Int : a <= b => IsFiniteSet(a..b) /\ Cardinality(a..b) = b - a + 1
    BY FS_Interval
  <2>2. 1 \in Int /\ 2 \in Int /\ 1 <= 2
    OBVIOUS
  <2>3. IsFiniteSet(1..2) /\ Cardinality(1..2) = 2 - 1 + 1
    BY <2>1, <2>2, Zenon
  <2> QED  BY <2>3
<1>5. IsFiniteSet(T) /\ Cardinality(T) = Cardinality(L) * 2
  BY <1>4, FS_Product
<1>6. Cardinality(L) \in Nat
  BY FS_CardinalityType
<1>7. ~(\E x, y \in F : x # y /\ f[x] = f[y])
  BY <1>1 DEF Owed
<1>8. ~(Cardinality(T) < Cardinality(F))
  <2> HIDE DEF F, T, f
  <2> QED  BY <1>2, <1>3, <1>5, <1>7, FS_PigeonHole
<1> HIDE DEF F, T
<1> QED  BY <1>3, <1>5, <1>6, <1>8
-----------------------------------------------------------------------------
(* The frames of the walk are accounted for, and the list has an entry for *)
(* each package.                                                           *)
StackOwed == Accounted(stack, Loaded, Public)
ListCounts == IsFiniteSet(Loaded) /\ Cardinality(Loaded) = Len(order)
LimitNeeded == status = "max recursion" => 2 * Len(order) + 3 > Cap

LEMMA BoundHolds ==
  ASSUME TypeOK, StackOwed, ListCounts
  PROVE  Len(stack) \in Nat /\ Len(order) \in Nat /\ Len(stack) <= 1 + 2 * Len(order)
<1>1. Len(stack) \in Nat /\ Len(order) \in Nat
  BY LenProperties DEF TypeOK
<1> QED  BY <1>1, AccountedBound DEF StackOwed, ListCounts

(* Only a load that goes through changes what is loaded.                   *)
LEMMA OnlyLoadLoads ==
  ASSUME TypeOK, [Next]_vars
  PROVE  \/ UNCHANGED <<order, contents>> /\ Loaded' = Loaded
         \/ Load /\ status' = "running"
<1>1. CASE Load /\ status' # "running"
  <2>1. status = "running"
    BY <1>1 DEF Load, AtPackage
  <2>2. UNCHANGED <<order, contents>>
    BY <1>1, <2>1, Zenon DEF Load, Fail
  <2> QED  BY <2>2 DEF Loaded
<1>2. CASE ~Load
  <2>1. UNCHANGED <<order, contents>>
    BY <1>2, Zenon DEF Next, BeginArg, EndArg, EndField, CheckVersion, TakeOperator,
                       Revisit, Finish, Fail, vars
  <2> QED  BY <2>1 DEF Loaded
<1> QED  BY <1>1, <1>2

LEMMA ListCountsStep ==
  ASSUME TypeOK, ListCounts, [Next]_vars
  PROVE  ListCounts'
<1>1. CASE UNCHANGED <<order, contents>> /\ Loaded' = Loaded
  BY <1>1 DEF ListCounts
<1>2. CASE Load /\ status' = "running"
  <2>1. PICK p \in Name \ Loaded : order' = Append(order, p) /\ Loaded' = Loaded \cup {p}
    BY <1>2, ConsumeLoad
  <2>2. Len(order') = Len(order) + 1
    BY <2>1, AppendProperties DEF TypeOK
  <2>3. IsFiniteSet(Loaded') /\ Cardinality(Loaded') = Cardinality(Loaded) + 1
    BY <2>1, FS_AddElement DEF ListCounts
  <2> QED  BY <2>2, <2>3 DEF ListCounts
<1> QED  BY <1>1, <1>2, OnlyLoadLoads

LEMMA FullBound ==
  ASSUME NEW a \in Nat, NEW b \in Nat, NEW c \in Nat, a <= 1 + 2 * b,
         a > c - 1 \/ a > c - 2
  PROVE  2 * b + 3 > c
OBVIOUS

LEMMA LimitNeededStep ==
  ASSUME TypeOK, StackOwed, ListCounts, LimitNeeded, [Next]_vars
  PROVE  LimitNeeded'
<1> SUFFICES ASSUME status' = "max recursion" PROVE 2 * Len(order') + 3 > Cap
  BY DEF LimitNeeded
<1>1. order' = order
  BY OnlyLoadLoads
<1>2. CASE status = "max recursion"
  BY <1>1, <1>2 DEF LimitNeeded
<1>3. CASE status # "max recursion"
  <2>1. Full(1) \/ Full(2)
    BY <1>3, Zenon DEF Next, BeginArg, EndArg, EndField, CheckVersion, TakeOperator,
                       Revisit, Load, Finish, Fail, AtPackage, vars
  <2>2. Len(stack) \in Nat /\ Len(order) \in Nat /\ Len(stack) <= 1 + 2 * Len(order)
    BY BoundHolds
  <2>3. Cap \in Nat
    BY TraverseAssumption
  <2>4. Len(stack) > Cap - 1 \/ Len(stack) > Cap - 2
    BY <2>1, Zenon DEF Full
  <2>5. 2 * Len(order) + 3 > Cap
    BY <2>2, <2>3, <2>4, FullBound, Zenon
  <2> QED  BY <1>1, <2>5
<1> QED  BY <1>2, <1>3

(* What the actions that consume a token do to the stack: the top frame    *)
(* moves on, and one frame or two are put on it.                           *)
LEMMA TopMoved ==
  ASSUME TypeOK, HasToken, NEW c \in FrameType, c.flags = Top.flags
  PROVE  /\ Append(Below, c) \in Seq(FrameType)
         /\ Len(Append(Below, c)) = Len(stack)
         /\ \A k \in 1..Len(stack) : Append(Below, c)[k].flags = stack[k].flags
<1> DEFINE n == Len(stack)
           t == Append(Below, c)
<1>1. n \in Nat \ {0} /\ stack # <<>> /\ stack[n] = Top
  BY TopType DEF Top
<1>2. stack \in Seq(FrameType)
  BY <1>1, StackType, SeqMonotonic DEF SoundFrame
<1>3. t \in Seq(FrameType) /\ Len(t) = n /\ t[n] = c /\ \A k \in 1..n - 1 : t[k] = stack[k]
  BY <1>1, <1>2, StackReplaced
<1> HIDE DEF t
<1>4. \A k \in 1..n : t[k].flags = stack[k].flags
  BY <1>1, <1>3
<1> QED  BY <1>3, <1>4 DEF t

LEMMA OnePushed ==
  ASSUME TypeOK, HasToken, NEW c \in FrameType, c.flags = Top.flags,
         NEW f \in FrameType, stack' = Append(Below, c) \o <<f>>
  PROVE  /\ Len(stack') = Len(stack) + 1
         /\ \A k \in 1..Len(stack) : stack'[k].flags = stack[k].flags
<1> DEFINE t == Append(Below, c)
<1>1. /\ t \in Seq(FrameType) /\ Len(t) = Len(stack)
      /\ \A k \in 1..Len(stack) : t[k].flags = stack[k].flags
  BY TopMoved
<1> HIDE DEF t
<1>2. /\ Len(t \o <<f>>) = Len(t) + 1
      /\ \A k \in 1..Len(t) : (t \o <<f>>)[k] = t[k]
  BY <1>1, PushFrames
<1>3. stack' = t \o <<f>>
  BY DEF t
<1> QED  BY <1>1, <1>2, <1>3

LEMMA TwoPushed ==
  ASSUME TypeOK, HasToken, NEW c \in FrameType, c.flags = Top.flags,
         NEW f \in FrameType, NEW g \in FrameType,
         stack' = Append(Below, c) \o <<f, g>>
  PROVE  /\ Len(stack') = Len(stack) + 2
         /\ \A k \in 1..Len(stack) : stack'[k].flags = stack[k].flags
         /\ stack'[Len(stack) + 1] = f
         /\ stack'[Len(stack) + 2] = g
<1> DEFINE t == Append(Below, c)
<1>1. /\ t \in Seq(FrameType) /\ Len(t) = Len(stack)
      /\ \A k \in 1..Len(stack) : t[k].flags = stack[k].flags
  BY TopMoved
<1> HIDE DEF t
<1>2. /\ Len(t \o <<f, g>>) = Len(t) + 2
      /\ \A k \in 1..Len(t) : (t \o <<f, g>>)[k] = t[k]
      /\ (t \o <<f, g>>)[Len(t) + 1] = f
      /\ (t \o <<f, g>>)[Len(t) + 2] = g
  BY <1>1, PushFrames
<1>3. stack' = t \o <<f, g>>
  BY DEF t
<1> QED  BY <1>1, <1>2, <1>3

LEMMA StackOwedStep ==
  ASSUME WalkInv, StackOwed, [Next]_vars
  PROVE  StackOwed'
<1> DEFINE n == Len(stack)
<1>t. TypeOK /\ n \in Nat
  BY LenProperties DEF WalkInv, TypeOK
<1>g. Loaded \subseteq Loaded' /\ Public \subseteq Public' /\ Public \subseteq Loaded
  <2>1. Public \cup Direct \subseteq Loaded
    BY DEF WalkInv
  <2> QED  BY <1>t, <2>1, StepGrows DEF Grows
<1>k. ASSUME Len(stack') \in Nat, Len(stack') <= n,
             \A k \in 1..Len(stack') : stack'[k].flags = stack[k].flags
      PROVE  StackOwed'
  BY <1>t, <1>g, <1>k, AccountedKept DEF StackOwed
<1>s. ASSUME Len(stack') \in {0, 1}
      PROVE  StackOwed'
  BY <1>s, AccountedShort DEF StackOwed
<1>u. CASE UNCHANGED stack
  BY <1>t, <1>u, <1>k
<1>1. CASE BeginArg
  BY <1>1, <1>s DEF BeginArg
<1>2. CASE EndArg
  BY <1>2, <1>s, EmptyLen DEF EndArg
<1>3. CASE EndField /\ stack' = Below
  <2>1. stack # <<>>
    <3>1. Len(stack) > 1
      BY <1>3 DEF EndField
    <3> QED  BY <3>1, EmptyLen
  <2> QED  BY <1>3, <1>t, <2>1, StackType, <1>k
<1>4. CASE CheckVersion /\ status' = "running"
  <2> DEFINE c == [Consumed EXCEPT !.last = Null, !.op = NoOp]
  <2>1. HasToken /\ stack' = Append(Below, c)
    BY <1>4, <1>t, ConsumeCheck DEF CheckVersion
  <2>2. c \in FrameType /\ c.flags = Top.flags
    BY <2>1, <1>t, TopType DEF Consumed, SoundFrame, FrameType, Op
  <2> HIDE DEF c
  <2> QED  BY <2>1, <2>2, <1>t, <1>k, TopMoved
<1>5. CASE TakeOperator /\ status' = "running"
  <2> DEFINE c == [Consumed EXCEPT !.op = Tok]
  <2>1. HasToken /\ stack' = Append(Below, c) /\ Tok \in Op
    BY <1>5, <1>t, ConsumeOperator DEF TakeOperator, Op
  <2>2. c \in FrameType /\ c.flags = Top.flags
    BY <2>1, <1>t, TopType DEF Consumed, SoundFrame, FrameType
  <2> HIDE DEF c
  <2> QED  BY <2>1, <2>2, <1>t, <1>k, TopMoved
<1>6. CASE Revisit /\ status' = "running"
  <2> DEFINE p == RealName[Tok]
             t == Append(Below, AtTok)
             promote == "PUBLIC" \in Top.flags /\ "PUBLIC" \notin flags[p]
             f == PublicFrame(contents[p].requires)
  <2>1. /\ HasToken /\ p \in Loaded
        /\ ~(promote /\ Descends(Top.depth + 1)) => stack' = t
        /\ promote /\ Descends(Top.depth + 1) => stack' = t \o <<f>>
        /\ flags' = [flags EXCEPT ![p] = @ \cup Top.flags]
        /\ contents' = contents
    BY <1>t, <1>6, ConsumeRevisit
  <2>2. AtTok \in FrameType /\ AtTok.flags = Top.flags
    BY <2>1, <1>t, TopType DEF AtTok, Consumed, SoundFrame, FrameType
  <2> HIDE DEF f
  <2>3. CASE ~(promote /\ Descends(Top.depth + 1))
    BY <2>1, <2>2, <2>3, <1>t, <1>k, TopMoved
  <2>4. CASE promote /\ stack' = t \o <<f>>
    <3>1. f \in FrameType
      <4>1. contents[p] \in File
        BY <2>1, <1>t DEF Loaded, TypeOK
      <4>2. contents[p].requires \in TokenList
        BY <4>1 DEF File
      <4>3. Top.depth + 1 \in Nat /\ Top.flags \ {"DIRECT"} \in SUBSET Flag
        BY <2>1, <1>t, TopType DEF SoundFrame, FrameType
      <4> QED  BY <4>2, <4>3, FreshFrame, Zenon DEF f, PublicFrame, Op, SoundFrame
    <3>2. n \in Nat \ {0} /\ stack[n] = Top
      BY <2>1, <1>t, TopType DEF Top
    <3>3. Loaded' = Loaded
      BY <2>1 DEF Loaded
    <3>4. p \notin Public /\ p \in Public'
      BY <2>1, <2>4, <1>t DEF Public, Loaded, TypeOK
    <3>5. Len(stack') = n + 1 /\ \A k \in 1..n : stack'[k].flags = stack[k].flags
      BY <2>1, <2>2, <2>4, <3>1, <1>t, OnePushed
    <3> HIDE DEF n, t, promote
    <3>6. "PUBLIC" \in stack[n].flags
      BY <2>4, <3>2 DEF promote
    <3>7. Accounted(stack', Loaded, Public')
      BY <3>2, <3>4, <3>6, <3>5, <2>1, <1>g, AccountedPromoted DEF n, StackOwed
    <3> QED  BY <3>3, <3>7 DEF StackOwed
  <2> QED  BY <2>1, <2>3, <2>4
<1>7. CASE Load /\ status' = "running"
  <2> DEFINE p == RealName[Tok]
             file == job.files[Tok]
             t == Append(Below, AtTok)
             f == PrivateFrame(file.requiresprivate)
             g == PublicFrame(file.requires)
  <2>1. /\ HasToken /\ p \in Name \ Loaded /\ file \in File
        /\ ~Descends(Top.depth + 1) => stack' = t
        /\ Descends(Top.depth + 1) => stack' = t \o <<f, g>>
        /\ Loaded' = Loaded \cup {p}
        /\ flags' = [flags EXCEPT ![p] = Top.flags]
    BY <1>t, <1>7, ConsumeLoad
  <2>2. AtTok \in FrameType /\ AtTok.flags = Top.flags
    BY <2>1, <1>t, TopType DEF AtTok, Consumed, SoundFrame, FrameType
  <2> HIDE DEF f, g
  <2>3. CASE ~Descends(Top.depth + 1)
    <3>1. HasToken /\ stack' = t
      BY <2>1, <2>3
    <3> HIDE DEF p, file
    <3>2. Len(stack') = n /\ \A k \in 1..n : stack'[k].flags = stack[k].flags
      BY <3>1, <2>2, <1>t, TopMoved
    <3> QED  BY <3>2, <1>t, <1>k
  <2>4. CASE stack' = t \o <<f, g>>
    <3>1. /\ f \in FrameType /\ g \in FrameType
          /\ f.flags = {} /\ g.flags = Top.flags \ {"DIRECT"}
      <4>1. file.requires \in TokenList /\ file.requiresprivate \in TokenList
        BY <2>1 DEF File
      <4>2. Top.depth + 1 \in Nat /\ Top.flags \ {"DIRECT"} \in SUBSET Flag
        BY <2>1, <1>t, TopType DEF SoundFrame, FrameType
      <4>3. f.flags = {} /\ g.flags = Top.flags \ {"DIRECT"}
        BY DEF f, g, PrivateFrame, PublicFrame, Frame
      <4>4. f \in FrameType /\ g \in FrameType
        BY <4>1, <4>2, FreshFrame, Zenon
           DEF f, g, PrivateFrame, PublicFrame, Op, SoundFrame
      <4> QED  BY <4>3, <4>4
    <3>2. n \in Nat \ {0} /\ stack[n] = Top
      BY <2>1, <1>t, TopType DEF Top
    <3>3. /\ Len(stack') = n + 2 /\ \A k \in 1..n : stack'[k].flags = stack[k].flags
          /\ stack'[n + 1] = f /\ stack'[n + 2] = g
      BY <2>1, <2>2, <2>4, <3>1, <1>t, TwoPushed
    <3>4. "PUBLIC" \in Top.flags => p \in Public'
      BY <2>1, <1>t DEF Public, TypeOK
    <3> HIDE DEF n, t, p
    <3>5. /\ Len(stack') = n + 2 /\ \A k \in 1..n : stack'[k].flags = stack[k].flags
          /\ stack'[n + 1].flags = {} /\ stack'[n + 2].flags = Top.flags \ {"DIRECT"}
      BY <3>1, <3>3
    <3>6. Accounted(stack', Loaded \cup {p}, Public')
      <4>1. "PUBLIC" \in stack'[n + 1].flags \cup stack'[n + 2].flags =>
              "PUBLIC" \in stack[n].flags
        BY <3>2, <3>5
      <4>2. "PUBLIC" \in stack[n].flags => p \in Public'
        BY <3>2, <3>4
      <4> QED  BY <3>2, <3>5, <4>1, <4>2, <2>1, <1>g, AccountedLoaded DEF n, StackOwed
    <3> QED  BY <2>1, <3>6 DEF StackOwed
  <2> QED  BY <2>1, <2>3, <2>4
<1>8. CASE status' # "running" /\ ~UNCHANGED stack
  BY <1>8, <1>1, <1>2, <1>3, Zenon DEF Next, CheckVersion, TakeOperator, Revisit, Load,
     Finish, Fail, EndField, AtPackage, vars
<1>9. CASE Finish
  BY <1>9, <1>u DEF Finish, Fail
<1>10. CASE EndField /\ stack' # Below
  BY <1>10, <1>u, Zenon DEF EndField, Fail
<1> QED
  BY <1>u, <1>1, <1>2, <1>3, <1>4, <1>5, <1>6, <1>7, <1>8, <1>9, <1>10, Zenon DEF Next, vars

(* A cycle costs nothing: the stack never holds more than two frames for   *)
(* each package loaded, above the argument's own, and the program gives up *)
(* on the depth of a recursion (lines 1445 and 1464) only where the        *)
(* packages loaded are enough to fill it.                                  *)
THEOREM StackIsWithinNeed == Spec => []StackWithinNeed
<1>1. Init => StackOwed /\ ListCounts /\ LimitNeeded
  <2> SUFFICES ASSUME Init PROVE StackOwed /\ ListCounts /\ LimitNeeded
    OBVIOUS
  <2>1. Loaded = {} /\ Len(stack) = 0 /\ Len(order) = 0
    BY EmptyLen DEF Init, Loaded
  <2>2. StackOwed
    BY <2>1, AccountedShort DEF StackOwed
  <2>3. ListCounts
    BY <2>1, FS_EmptySet DEF ListCounts
  <2> QED  BY <2>2, <2>3 DEF Init, LimitNeeded
<1>2. /\ WalkInv /\ StackOwed /\ ListCounts /\ LimitNeeded
      /\ [Next]_vars
      => (StackOwed /\ ListCounts /\ LimitNeeded)'
  BY StackOwedStep, ListCountsStep, LimitNeededStep DEF WalkInv
<1>3. WalkInv /\ StackOwed /\ ListCounts /\ LimitNeeded => StackWithinNeed
  BY BoundHolds DEF WalkInv, LimitNeeded, StackWithinNeed
<1> QED  BY <1>1, <1>2, <1>3, WalkInvariant, PTL DEF Spec

-----------------------------------------------------------------------------
(* The command line as one list.                                           *)

ArgType == job.args \in Seq(TokenList)

LEMMA GivenRuns ==
  ASSUME ArgType
  PROVE  /\ Given[0] = <<>>
         /\ \A n \in 1..Len(job.args) : Given[n] = Given[n - 1] \o job.args[n]
         /\ \A n \in 0..Len(job.args) : Given[n] \in Seq(Token)
<1> DEFINE N == Len(job.args)
           S == Seq(Token)
           Value(f, n) == IF n = 0 THEN <<>> ELSE f[n - 1] \o job.args[n]
<1>1. N \in Nat /\ \A n \in 1..N : job.args[n] \in S
  BY LenProperties, ElementOfSeq DEF ArgType, TokenList
<1>2. PICK base : base = <<>> /\ base \in S
  <2>1. <<>> \in S
    OBVIOUS
  <2> QED  BY <2>1
<1>3. PICK next : next \in [Nat -> [S -> S]]
                  /\ \A n \in 1..N : \A s \in S : next[n - 1][s] = s \o job.args[n]
  <2> DEFINE step == [n \in Nat |-> [s \in S |-> IF n < N THEN s \o job.args[n + 1] ELSE s]]
  <2>1. step \in [Nat -> [S -> S]]
    <3> SUFFICES ASSUME NEW n \in Nat, NEW s \in S, n < N PROVE s \o job.args[n + 1] \in S
      OBVIOUS
    <3>1. n + 1 \in 1..N
      BY <1>1
    <3>2. job.args[n + 1] \in S
      BY <1>1, <3>1
    <3> HIDE DEF N
    <3> QED  BY <3>2, ConcatProperties
  <2>2. ASSUME NEW n \in 1..N, NEW s \in S PROVE step[n - 1][s] = s \o job.args[n]
    <3>1. n - 1 \in Nat /\ n - 1 < N /\ n - 1 + 1 = n
      BY <1>1
    <3> QED  BY <3>1
  <2> HIDE DEF step
  <2> QED  BY <2>1, <2>2
<1>4. PICK f : Runs(f, S, base, next)
  <2> HIDE DEF S
  <2> QED  BY <1>2, <1>3, RunExists
<1> DEFINE g == [n \in 0..N |-> f[n]]
<1>5. g = [n \in 0..N |-> Value(g, n)]
  <2> SUFFICES ASSUME NEW n \in 0..N PROVE f[n] = Value(g, n)
    OBVIOUS
  <2>1. CASE n = 0
    BY <2>1, <1>2, <1>4 DEF Runs
  <2>2. CASE n # 0
    <3>1. n \in 1..N /\ n - 1 \in Nat /\ n - 1 + 1 = n /\ n - 1 \in 0..N
      BY <1>1, <2>2
    <3>2. f[n] = next[n - 1][f[n - 1]] /\ f[n - 1] \in S
      <4> HIDE DEF S, N, g
      <4> QED  BY <1>4, <3>1 DEF Runs
    <3>3. g[n - 1] = f[n - 1]
      BY <3>1
    <3>4. next[n - 1][f[n - 1]] = f[n - 1] \o job.args[n]
      <4> HIDE DEF S, N, g
      <4> QED  BY <1>3, <3>1, <3>2
    <3> HIDE DEF g
    <3> QED  BY <2>2, <3>2, <3>3, <3>4
  <2> QED  BY <2>1, <2>2
<1> DEFINE h == CHOOSE h : h = [n \in 0..N |-> Value(h, n)]
<1>6. Given = h
  BY DEF Given
<1>7. h = [n \in 0..N |-> Value(h, n)]
  <2> HIDE DEF g
  <2> QED  BY <1>5
<1> HIDE DEF h
<1>8. h[0] = <<>> /\ \A n \in 1..N : h[n] = h[n - 1] \o job.args[n]
  <2>1. \A n \in 0..N : h[n] = Value(h, n)
    <3> HIDE DEF N, Value
    <3> QED  BY <1>7, Zenon
  <2>2. 0 \in 0..N /\ \A n \in 1..N : n \in 0..N /\ n # 0
    BY <1>1
  <2> HIDE DEF N
  <2> QED  BY <2>1, <2>2
<1>9. \A n \in 0..N : h[n] \in S
  <2> DEFINE P == {n \in 0..N : h[n] \in S}
  <2>1. 0 \in P
    <3>1. 0 \in 0..N /\ h[0] \in S
      BY <1>1, <1>8
    <3> HIDE DEF N, S
    <3> QED  BY <3>1
  <2>2. ASSUME NEW n \in 1..N, n - 1 \in P PROVE n \in P
    <3>1. h[n] = h[n - 1] \o job.args[n] /\ job.args[n] \in S /\ h[n - 1] \in S
      BY <1>1, <1>8, <2>2
    <3>2. n \in 0..N
      BY <1>1
    <3>3. h[n - 1] \o job.args[n] \in S
      BY <3>1, ConcatProperties
    <3> HIDE DEF N, S
    <3> QED  BY <3>1, <3>2, <3>3
  <2>3. \A n \in 0..N : n \in P
    <3> HIDE DEF P, N
    <3> QED  BY <1>1, <2>1, <2>2, InductionUpTo
  <2> QED  BY <2>3
<1> QED  BY <1>6, <1>8, <1>9

(* t begins as s does. *)
StartsWith(t, s) == Len(s) <= Len(t) /\ \A i \in 1..Len(s) : t[i] = s[i]

LEMMA ConcatParts ==
  ASSUME NEW S, NEW s \in Seq(S), NEW t \in Seq(S)
  PROVE  /\ s \o t \in Seq(S) /\ Len(s \o t) = Len(s) + Len(t)
         /\ Len(s) \in Nat /\ Len(t) \in Nat
         /\ StartsWith(s \o t, s)
         /\ \A i \in 1..Len(t) : (s \o t)[Len(s) + i] = t[i]
<1>1. Len(s) \in Nat /\ Len(t) \in Nat
  BY LenProperties
<1>2. /\ s \o t \in Seq(S) /\ Len(s \o t) = Len(s) + Len(t)
      /\ \A i \in 1..Len(s) : (s \o t)[i] = s[i]
      /\ \A i \in 1..Len(t) : (s \o t)[Len(s) + i] = t[i]
  BY <1>1, ConcatProperties
<1> QED  BY <1>1, <1>2 DEF StartsWith

(* What the first arguments gave stays in front of what follows them.      *)
LEMMA GivenGrows ==
  ASSUME ArgType, NEW n \in 0..Len(job.args)
  PROVE  StartsWith(CommandLine, Given[n])
<1> DEFINE N == Len(job.args)
<1>1. PICK g : g = Given
  OBVIOUS
<1>2. /\ \A m \in 1..N : g[m] = g[m - 1] \o job.args[m] /\ job.args[m] \in Seq(Token)
      /\ \A m \in 0..N : g[m] \in Seq(Token)
      /\ N \in Nat
  BY <1>1, GivenRuns, LenProperties, ElementOfSeq DEF ArgType, TokenList
<1> DEFINE P == {m \in 0..N : n <= m => StartsWith(g[m], g[n])}
<1> HIDE DEF N
<1>3. 0 \in P
  <2>1. n <= 0 => n = 0
    BY <1>2 DEF N
  <2> QED  BY <1>2, <2>1 DEF StartsWith
<1>4. ASSUME NEW m \in 1..N, m - 1 \in P PROVE m \in P
  <2>1. m \in 0..N /\ m - 1 \in 0..N
    BY <1>2
  <2>2. CASE n <= m - 1
    <3>1. g[m] = g[m - 1] \o job.args[m] /\ job.args[m] \in Seq(Token) /\ g[m - 1] \in Seq(Token)
      BY <1>2, <2>1
    <3>2. StartsWith(g[m - 1], g[n]) /\ n \in 0..N
      BY <1>4, <2>2 DEF N
    <3>3. PICK s, t : s = g[m - 1] /\ t = job.args[m]
      OBVIOUS
    <3>4. StartsWith(s \o t, s) /\ StartsWith(s, g[n]) /\ Len(s) \in Nat /\ Len(s \o t) \in Nat
      BY <3>1, <3>2, <3>3, ConcatParts
    <3>5. Len(g[n]) \in Nat
      BY <1>2, <3>2, LenProperties
    <3>6. StartsWith(s \o t, g[n])
      BY <3>4, <3>5 DEF StartsWith
    <3> QED  BY <2>1, <3>1, <3>3, <3>6
  <2>3. CASE n = m
    BY <1>2, <2>1, <2>3, LenProperties DEF StartsWith
  <2>4. CASE n > m
    BY <1>2, <2>1, <2>4 DEF N
  <2> QED  BY <1>2, <2>2, <2>3, <2>4 DEF N
<1>5. \A m \in 0..N : m \in P
  <2> HIDE DEF P
  <2> QED  BY <1>2, <1>3, <1>4, InductionUpTo
<1>6. N \in P /\ n <= N
  BY <1>2, <1>5 DEF N
<1> QED  BY <1>1, <1>6 DEF CommandLine, N

(* The tokens of an argument stand in the command line where the arguments *)
(* before it end.                                                          *)
LEMMA CommandLineAt ==
  ASSUME ArgType, NEW n \in 1..Len(job.args)
  PROVE  /\ Len(Given[n]) = Len(Given[n - 1]) + Len(job.args[n])
         /\ Len(Given[n - 1]) \in Nat /\ Len(job.args[n]) \in Nat
         /\ \A i \in 1..Len(job.args[n]) :
              /\ Len(Given[n - 1]) + i \in DOMAIN CommandLine
              /\ CommandLine[Len(Given[n - 1]) + i] = job.args[n][i]
<1>1. n \in 0..Len(job.args) /\ n - 1 \in 0..Len(job.args) /\ Len(job.args) \in 0..Len(job.args)
  BY LenProperties DEF ArgType
<1>2. PICK s, t : s = Given[n - 1] /\ t = job.args[n]
  OBVIOUS
<1>3. s \in Seq(Token) /\ t \in Seq(Token) /\ Given[n] = s \o t
  BY <1>1, <1>2, GivenRuns, ElementOfSeq DEF ArgType, TokenList
<1>4. StartsWith(CommandLine, s \o t) /\ CommandLine \in Seq(Token)
  BY <1>1, <1>3, GivenGrows, GivenRuns DEF CommandLine
<1>5. /\ Len(s \o t) = Len(s) + Len(t) /\ Len(s) \in Nat /\ Len(t) \in Nat
      /\ \A i \in 1..Len(t) : (s \o t)[Len(s) + i] = t[i]
  BY <1>3, ConcatParts
<1>6. DOMAIN CommandLine = 1..Len(CommandLine) /\ Len(CommandLine) \in Nat
  BY <1>4, LenProperties
<1>7. ASSUME NEW i \in 1..Len(t)
      PROVE  Len(s) + i \in DOMAIN CommandLine /\ CommandLine[Len(s) + i] = t[i]
  <2>1. Len(s) + i \in 1..Len(s \o t)
    BY <1>5
  <2> QED  BY <1>4, <1>5, <1>6, <2>1 DEF StartsWith
<1> QED  BY <1>2, <1>3, <1>5, <1>7

-----------------------------------------------------------------------------
(* What an iteration that consumes a token does to each frame.             *)

(* The top frame after it.                                                 *)
MovedOn ==
  IF Top.op # NoOp THEN [Consumed EXCEPT !.last = Null, !.op = NoOp]
  ELSE IF Tok \in OpToken THEN [Consumed EXCEPT !.op = Tok] ELSE AtTok

(* A frame that is put on it.                                              *)
Entered(f) ==
  /\ "DIRECT" \notin f.flags /\ f.depth = Top.depth + 1 /\ Descends(Top.depth + 1)
  /\ \/ f.list = contents'[RealName[Tok]].requires
     \/ f.list = contents'[RealName[Tok]].requiresprivate

StackAfter ==
  /\ HasToken
  /\ Len(stack') \in Nat /\ Len(stack) <= Len(stack')
  /\ \A k \in 1..Len(stack) - 1 : stack'[k] = stack[k]
  /\ stack'[Len(stack)] = MovedOn
  /\ \A k \in Len(stack) + 1..Len(stack') :
       Top.op = NoOp /\ Tok \notin OpToken /\ Entered(stack'[k])

(* The stack u is the old one with c on top, and frames of F on that.      *)
Laid(u, c, F) ==
  /\ Len(u) \in Nat /\ Len(stack) <= Len(u)
  /\ \A k \in 1..Len(stack) - 1 : u[k] = stack[k]
  /\ u[Len(stack)] = c
  /\ \A k \in Len(stack) + 1..Len(u) : u[k] \in F

LEMMA StackTogether ==
  ASSUME TypeOK, HasToken, NEW c \in FrameType
  PROVE  /\ Laid(Append(Below, c), c, {})
         /\ \A f \in FrameType : Laid(Append(Below, c) \o <<f>>, c, {f})
         /\ \A f, g \in FrameType : Laid(Append(Below, c) \o <<f, g>>, c, {f, g})
<1> DEFINE t == Append(Below, c)
           n == Len(stack)
<1>1. n \in Nat \ {0} /\ stack # <<>>
  BY TopType
<1>2. stack \in Seq(FrameType)
  BY <1>1, StackType, SeqMonotonic DEF SoundFrame
<1>3. t \in Seq(FrameType) /\ Len(t) = n /\ t[n] = c /\ \A k \in 1..n - 1 : t[k] = stack[k]
  BY <1>1, <1>2, StackReplaced
<1> HIDE DEF t
<1>4. n \in 1..n /\ \A k \in 1..n - 1 : k \in 1..n
  BY <1>1
<1>5. Laid(t, c, {})
  BY <1>1, <1>3 DEF Laid
<1>6. ASSUME NEW f \in FrameType, NEW g \in FrameType
      PROVE  Laid(t \o <<f>>, c, {f}) /\ Laid(t \o <<f, g>>, c, {f, g})
  <2>1. /\ Len(t \o <<f>>) = n + 1 /\ (t \o <<f>>)[n + 1] = f
        /\ \A k \in 1..n : (t \o <<f>>)[k] = t[k]
        /\ Len(t \o <<f, g>>) = n + 2
        /\ (t \o <<f, g>>)[n + 1] = f /\ (t \o <<f, g>>)[n + 2] = g
        /\ \A k \in 1..n : (t \o <<f, g>>)[k] = t[k]
    BY <1>3, PushFrames
  <2>2. \A k \in n + 1..n + 1 : k = n + 1
    BY <1>1
  <2>3. \A k \in n + 1..n + 2 : k = n + 1 \/ k = n + 2
    BY <1>1
  <2> HIDE DEF n
  <2>4. Laid(t \o <<f>>, c, {f})
    BY <1>1, <1>3, <1>4, <2>1, <2>2 DEF Laid, n
  <2>5. Laid(t \o <<f, g>>, c, {f, g})
    <3>1. PICK u : u = t \o <<f, g>>
      OBVIOUS
    <3>2. Len(u) = n + 2 /\ Len(u) \in Nat /\ n <= Len(u)
      BY <1>1, <2>1, <3>1
    <3>3. u[n] = c /\ \A k \in 1..n - 1 : u[k] = stack[k]
      BY <1>3, <1>4, <2>1, <3>1
    <3>4. \A k \in n + 1..Len(u) : u[k] \in {f, g}
      BY <2>1, <2>3, <3>1, <3>2
    <3> QED  BY <3>1, <3>2, <3>3, <3>4 DEF Laid, n
  <2> QED  BY <2>4, <2>5
<1> HIDE DEF n
<1> QED  BY <1>5, <1>6 DEF t

LEMMA FieldFrame ==
  ASSUME TypeOK, HasToken, NEW file \in File
  PROVE  /\ PublicFrame(file.requires) \in FrameType
         /\ PrivateFrame(file.requiresprivate) \in FrameType
         /\ PublicFrame(file.requires).list = file.requires
         /\ PublicFrame(file.requires).flags = Top.flags \ {"DIRECT"}
         /\ PublicFrame(file.requires).depth = Top.depth + 1
         /\ PrivateFrame(file.requiresprivate).list = file.requiresprivate
         /\ PrivateFrame(file.requiresprivate).flags = {}
         /\ PrivateFrame(file.requiresprivate).depth = Top.depth + 1
<1>1. file.requires \in TokenList /\ file.requiresprivate \in TokenList
  BY DEF File
<1>2. Top.depth + 1 \in Nat /\ Top.flags \ {"DIRECT"} \in SUBSET Flag
  BY TopType DEF SoundFrame, FrameType
<1>3. PublicFrame(file.requires) \in FrameType /\ PrivateFrame(file.requiresprivate) \in FrameType
  BY <1>1, <1>2, FreshFrame, Zenon DEF PublicFrame, PrivateFrame, Op, SoundFrame
<1> QED  BY <1>3 DEF PublicFrame, PrivateFrame, Frame

LEMMA ConsumeStack ==
  ASSUME TypeOK, Consume, status' = "running"
  PROVE  StackAfter
<1>1. CASE CheckVersion
  <2>1. /\ HasToken /\ Top.op # NoOp
        /\ stack' = Append(Below, [Consumed EXCEPT !.last = Null, !.op = NoOp])
    BY <1>1, ConsumeCheck DEF CheckVersion
  <2>2. stack' = Append(Below, MovedOn)
    BY <2>1, Zenon DEF MovedOn
  <2>3. MovedOn \in FrameType
    BY <2>1, TopType DEF MovedOn, SoundFrame, FrameType, Op
  <2>4. Laid(stack', MovedOn, {})
    BY <2>1, <2>2, <2>3, StackTogether
  <2> QED  BY <2>1, <2>4 DEF StackAfter, Laid
<1>2. CASE TakeOperator
  <2>1. /\ HasToken /\ Top.op = NoOp /\ Tok \in OpToken
        /\ stack' = Append(Below, [Consumed EXCEPT !.op = Tok])
    BY <1>2, ConsumeOperator DEF TakeOperator
  <2>2. stack' = Append(Below, MovedOn)
    BY <2>1, Zenon DEF MovedOn
  <2>3. MovedOn \in FrameType
    BY <2>1, TopType DEF MovedOn, Op
  <2>4. Laid(stack', MovedOn, {})
    BY <2>1, <2>2, <2>3, StackTogether
  <2> QED  BY <2>1, <2>4 DEF StackAfter, Laid
<1>3. CASE Revisit
  <2> DEFINE p == RealName[Tok]
             f == PublicFrame(contents[p].requires)
  <2>1. /\ HasToken /\ Top.op = NoOp /\ Tok \notin OpToken /\ p \in Loaded
        /\ \/ stack' = Append(Below, AtTok)
           \/ stack' = Append(Below, AtTok) \o <<f>> /\ Descends(Top.depth + 1)
        /\ contents' = contents
    BY <1>3, ConsumeRevisit, Zenon
  <2>2. AtTok = MovedOn
    BY <2>1, Zenon DEF MovedOn
  <2>3. AtTok \in FrameType
    BY <2>1, TopType DEF AtTok, Consumed, SoundFrame, FrameType
  <2>4. contents[p] \in File
    BY <2>1 DEF Loaded, TypeOK
  <2>5. /\ f \in FrameType /\ f.list = contents[p].requires
        /\ f.flags = Top.flags \ {"DIRECT"} /\ f.depth = Top.depth + 1
    BY <2>1, <2>4, FieldFrame
  <2> HIDE DEF f, p
  <2>6. /\ Laid(Append(Below, AtTok), AtTok, {})
        /\ Laid(Append(Below, AtTok) \o <<f>>, AtTok, {f})
    BY <2>1, <2>3, <2>5, StackTogether
  <2>7. Descends(Top.depth + 1) => Entered(f)
    BY <2>1, <2>5 DEF Entered, p
  <2> QED  BY <2>1, <2>2, <2>6, <2>7 DEF StackAfter, Laid
<1>4. CASE Load
  <2> DEFINE p == RealName[Tok]
             file == job.files[Tok]
             f == PrivateFrame(file.requiresprivate)
             g == PublicFrame(file.requires)
  <2>1. /\ HasToken /\ Top.op = NoOp /\ Tok \notin OpToken /\ p \in Name /\ file \in File
        /\ \/ stack' = Append(Below, AtTok)
           \/ stack' = Append(Below, AtTok) \o <<f, g>> /\ Descends(Top.depth + 1)
        /\ contents' = [contents EXCEPT ![p] = file]
    BY <1>4, ConsumeLoad, Zenon
  <2>2. AtTok = MovedOn
    BY <2>1, Zenon DEF MovedOn
  <2>3. AtTok \in FrameType
    <3>1. Consumed \in FrameType
      BY <2>1, TopType DEF SoundFrame
    <3> QED  BY <2>1, <3>1 DEF AtTok, FrameType
  <2>4. contents'[p] = file
    BY <2>1 DEF TypeOK
  <2>5. /\ f \in FrameType /\ g \in FrameType
        /\ f.list = file.requiresprivate /\ g.list = file.requires
        /\ f.flags = {} /\ f.depth = Top.depth + 1
        /\ g.flags = Top.flags \ {"DIRECT"} /\ g.depth = Top.depth + 1
    BY <2>1, FieldFrame
  <2> HIDE DEF f, g, p, file
  <2>6. /\ Laid(Append(Below, AtTok), AtTok, {})
        /\ Laid(Append(Below, AtTok) \o <<f, g>>, AtTok, {f, g})
    BY <2>1, <2>3, <2>5, StackTogether
  <2>7. Descends(Top.depth + 1) => Entered(f) /\ Entered(g)
    BY <2>4, <2>5 DEF Entered, p
  <2> QED  BY <2>1, <2>2, <2>6, <2>7 DEF StackAfter, Laid
<1> QED  BY <1>1, <1>2, <1>3, <1>4 DEF Consume

-----------------------------------------------------------------------------
(* The command line, read through the frames of the arguments.             *)

(* The arguments process() has been called with.                           *)
Used == Len(job.args) - Len(args)

(* Where it stands in the command line, with its operator state.           *)
Reader ==
  IF stack = <<>>
  THEN [list |-> CommandLine, pos |-> Len(Given[Used]) + 1, last |-> procLast, op |-> procOp]
  ELSE [list |-> CommandLine, pos |-> Len(Given[Used - 1]) + stack[1].pos,
        last |-> stack[1].last, op |-> stack[1].op]

(* The argument being read is the last of those used; only its frame names *)
(* packages for the user.                                                  *)
InArgs ==
  /\ Len(args) <= Len(job.args)
  /\ \A i \in 1..Len(args) : args[i] = job.args[Used + i]
  /\ stack # <<>> => Used >= 1 /\ stack[1].list = job.args[Used]
  /\ \A k \in DOMAIN stack : k > 1 => "DIRECT" \notin stack[k].flags
  /\ status = "done" => args = <<>>

NamedUpTo(l, n) == {RealName[l[i]] : i \in {j \in PkgAt(l) : j < n}}
CheckedUpTo(l, n) == \A i \in DOMAIN l : i < n /\ VersionAt(l, i) => SatisfiedAt(l, i)

(* What was read of the command line is marked and checked, whatever       *)
(* arguments it came in.                                                   *)
LineInv ==
  /\ InStep(Reader)
  /\ Direct = NamedUpTo(CommandLine, Reader.pos)
  /\ ~job.ignoreVersions => CheckedUpTo(CommandLine, Reader.pos)

LEMMA UsedType ==
  ASSUME TypeOK, InArgs
  PROVE  /\ ArgType /\ Len(job.args) \in Nat /\ Len(args) \in Nat
         /\ Used \in 0..Len(job.args)
         /\ stack # <<>> => Used \in 1..Len(job.args)
         /\ CommandLine \in Seq(Token) /\ Len(CommandLine) \in Nat
         /\ DOMAIN CommandLine = 1..Len(CommandLine)
<1>1. ArgType /\ Len(job.args) \in Nat /\ Len(args) \in Nat
  BY JobType, LenProperties DEF ArgType, TypeOK
<1>2. Len(job.args) \in 0..Len(job.args)
  BY <1>1
<1>3. CommandLine \in Seq(Token)
  BY <1>1, <1>2, GivenRuns DEF CommandLine
<1> QED  BY <1>1, <1>3, LenProperties DEF Used, InArgs

(* The frame of the argument stands where the reader of the line does.     *)
LEMMA ReaderAt ==
  ASSUME TypeOK, InArgs, HasToken, Len(stack) = 1
  PROVE  /\ Reader.list = CommandLine /\ Reader.op = Top.op /\ Reader.last = Top.last
         /\ Reader.pos \in DOMAIN CommandLine /\ Reader.pos \in Nat \ {0}
         /\ CommandLine[Reader.pos] = Tok
         /\ Reader.pos = Len(Given[Used - 1]) + Top.pos
<1>1. stack # <<>> /\ Top = stack[1] /\ Top.list = job.args[Used]
  BY TopType DEF Top, InArgs
<1>2. Used \in 1..Len(job.args) /\ ArgType
  BY <1>1, UsedType
<1>3. Top.pos \in 1..Len(Top.list)
  BY TopType DEF HasToken, SoundFrame, FrameType
<1>4. /\ Reader.list = CommandLine /\ Reader.op = Top.op /\ Reader.last = Top.last
      /\ Reader.pos = Len(Given[Used - 1]) + Top.pos
  BY <1>1 DEF Reader
<1>5. /\ Len(Given[Used - 1]) + Top.pos \in DOMAIN CommandLine
      /\ CommandLine[Len(Given[Used - 1]) + Top.pos] = Top.list[Top.pos]
      /\ Len(Given[Used - 1]) \in Nat
  BY <1>1, <1>2, <1>3, CommandLineAt
<1>6. Top.pos \in Nat /\ Len(Given[Used - 1]) + Top.pos \in Nat \ {0}
  <2>1. Top.pos \in Nat \ {0}
    BY TopType DEF SoundFrame, FrameType
  <2> QED  BY <1>5, <2>1
<1> QED  BY <1>4, <1>5, <1>6 DEF Tok

(* The list does not depend on the walk.                                   *)
LEMMA LineFixed ==
  ASSUME job' = job
  PROVE  Given' = Given /\ CommandLine' = CommandLine
BY DEF Given, CommandLine

(* A step that reads nothing of the line.                                  *)
LEMMA LineStays ==
  ASSUME LineInv, Grows, job' = job, Reader' = Reader, Direct' = Direct
  PROVE  LineInv'
<1>1. CommandLine' = CommandLine
  BY LineFixed
<1>2. InStep(Reader)'
  BY DEF LineInv, InStep, VersionAt, OpToken, NoOp
<1>3. (Direct = NamedUpTo(CommandLine, Reader.pos))'
  BY <1>1 DEF LineInv, NamedUpTo, PkgAt, VersionAt, OpToken
<1>4. \A l, i : SatisfiedAt(l, i) => SatisfiedAt(l, i)'
  BY DEF SatisfiedAt, Grows, ValidCompare
<1>5. (~job.ignoreVersions => CheckedUpTo(CommandLine, Reader.pos))'
  BY <1>1, <1>4 DEF LineInv, CheckedUpTo, VersionAt, OpToken
<1> QED  BY <1>2, <1>3, <1>5 DEF LineInv

(* A step that reads the next token of it.                                 *)
LEMMA LineMoves ==
  ASSUME LineInv, Grows, job' = job, NEW n \in Nat \ {0}, n = Reader.pos,
         Reader'.pos = n + 1, InStep(Reader)',
         n \in PkgAt(CommandLine) => Direct' = Direct \cup {RealName[CommandLine[n]]},
         n \notin PkgAt(CommandLine) => Direct' = Direct,
         ~job.ignoreVersions /\ VersionAt(CommandLine, n) => SatisfiedAt(CommandLine, n)',
         DOMAIN CommandLine \subseteq Nat
  PROVE  LineInv'
<1>1. PICK l : l = CommandLine
  OBVIOUS
<1>2. CommandLine' = l
  BY <1>1, LineFixed
<1>3. \A i : SatisfiedAt(l, i) => SatisfiedAt(l, i)'
  BY DEF SatisfiedAt, Grows, ValidCompare
<1>4. \A i \in DOMAIN l : i < n + 1 <=> i < n \/ i = n
  BY <1>1
<1>5. {i \in PkgAt(l) : i < n + 1} = {i \in PkgAt(l) : i < n} \cup (PkgAt(l) \cap {n})
  BY <1>4 DEF PkgAt
<1>6. Direct' = NamedUpTo(l, n + 1)
  <2>1. Direct = NamedUpTo(l, n)
    BY <1>1 DEF LineInv
  <2> QED  BY <1>1, <1>5, <2>1 DEF NamedUpTo
<1>7. (Direct = NamedUpTo(CommandLine, Reader.pos))'
  BY <1>2, <1>6 DEF NamedUpTo, PkgAt, VersionAt, OpToken
<1>8. ASSUME ~job.ignoreVersions, NEW i \in DOMAIN l, i < n + 1, VersionAt(l, i)
      PROVE  SatisfiedAt(l, i)'
  <2>1. CASE i < n
    <3>1. SatisfiedAt(l, i)
      BY <1>1, <1>8, <2>1 DEF LineInv, CheckedUpTo
    <3> QED  BY <1>3, <3>1
  <2>2. CASE i = n
    <3>1. (CommandLine = l)'
      BY <1>2
    <3>2. SatisfiedAt(CommandLine, n)'
      BY <1>1, <1>8, <2>2
    <3> QED  BY <2>2, <3>1, <3>2
  <2> QED  BY <1>4, <1>8, <2>1, <2>2
<1>9. (~job.ignoreVersions => CheckedUpTo(CommandLine, Reader.pos))'
  BY <1>2, <1>8 DEF CheckedUpTo, VersionAt, OpToken
<1> QED  BY <1>7, <1>9 DEF LineInv

(* The bottom frame consumes a token of the line.                          *)
LEMMA LineConsume ==
  ASSUME WalkInv, InArgs, LineInv, Consume, status' = "running", Len(stack) = 1
  PROVE  LineInv'
<1>0. PICK n, l : n = Reader.pos /\ l = CommandLine
  OBVIOUS
<1>t. TypeOK /\ Public \cup Direct \subseteq Loaded
  BY DEF WalkInv
<1>g. Grows
  BY <1>t, StepGrows DEF Next, Consume
<1>1. StackAfter
  BY <1>t, ConsumeStack
<1>2. UNCHANGED <<job, args>>
  BY Zenon DEF Consume, CheckVersion, TakeOperator, Revisit, Load, Fail
<1>3. HasToken /\ stack # <<>> /\ Top = stack[1] /\ stack' # <<>> /\ stack'[1] = MovedOn
  BY <1>1, EmptyLen DEF StackAfter, HasToken, Top
<1>4. /\ Reader.list = l /\ Reader.op = Top.op /\ Reader.last = Top.last
      /\ n \in DOMAIN l /\ n \in Nat \ {0} /\ l[n] = Tok
      /\ n = Len(Given[Used - 1]) + Top.pos
  BY <1>0, <1>t, <1>3, ReaderAt
<1>5. Top \in SoundFrame /\ Top \in FrameType /\ Tok \in Token
  BY <1>t, <1>3, TopType DEF SoundFrame
<1>6. Given' = Given /\ CommandLine' = l /\ Used' = Used
  BY <1>0, <1>2, LineFixed DEF Used
<1>7. /\ Used \in 1..Len(job.args) /\ ArgType /\ DOMAIN l \subseteq Nat
  BY <1>0, <1>t, <1>3, UsedType
<1>8. /\ Reader'.list = l /\ Reader'.op = MovedOn.op /\ Reader'.last = MovedOn.last
      /\ Reader'.pos = Len(Given[Used - 1]) + MovedOn.pos
  BY <1>3, <1>6 DEF Reader
<1>9. Reader'.pos = n + 1
  <2>1. MovedOn.pos = Top.pos + 1 /\ Top.pos \in Nat
    BY <1>5 DEF MovedOn, Consumed, AtTok, FrameType
  <2>2. Len(Given[Used - 1]) \in Nat
    BY <1>7, CommandLineAt
  <2> QED  BY <1>4, <1>8, <2>1, <2>2
<1>10. InStep(Reader)
  BY DEF LineInv
<1>i. /\ MovedOn.op # NoOp => /\ VersionAt(l, n + 1)
                              /\ MovedOn.op = l[n]
                              /\ MovedOn.last = RealName[l[n - 1]]
      /\ MovedOn.op = NoOp => ~VersionAt(l, n + 1)
      /\ MovedOn.op = NoOp /\ MovedOn.last # Null =>
            /\ n + 1 >= 2 /\ l[n] \notin OpToken /\ MovedOn.last = RealName[l[n]]
      => InStep(Reader)'
  <2>1. n + 1 - 1 = n /\ n + 1 - 2 = n - 1
    BY <1>4
  <2>2. PICK r : r = Reader'
    OBVIOUS
  <2> SUFFICES ASSUME /\ MovedOn.op # NoOp => /\ VersionAt(l, n + 1)
                                              /\ MovedOn.op = l[n]
                                              /\ MovedOn.last = RealName[l[n - 1]]
                      /\ MovedOn.op = NoOp => ~VersionAt(l, n + 1)
                      /\ MovedOn.op = NoOp /\ MovedOn.last # Null =>
                            /\ n + 1 >= 2 /\ l[n] \notin OpToken
                            /\ MovedOn.last = RealName[l[n]]
               PROVE  InStep(Reader)'
    OBVIOUS
  <2>3. r.list = l /\ r.pos = n + 1 /\ r.op = MovedOn.op /\ r.last = MovedOn.last
    BY <1>8, <1>9, <2>2, Zenon
  <2>4. r.pos - 1 = n /\ r.pos - 2 = n - 1
    <3>1. PICK m : m = r.pos
      OBVIOUS
    <3>2. m = n + 1
      BY <2>3, <3>1, Zenon
    <3>3. m - 1 = n /\ m - 2 = n - 1
      BY <1>4, <3>2
    <3> QED  BY <3>1, <3>3, Zenon
  <2>5. InStep(r)
    BY <2>3, <2>4, Zenon DEF InStep
  <2> QED  BY <2>2, <2>5, Zenon DEF InStep, VersionAt, OpToken, NoOp
<1>11. CASE CheckVersion
  <2>1. /\ Top.op # NoOp
        /\ job.ignoreVersions \/ ValidCompare(Top.op, contents[Top.last].version, Tok)
        /\ UNCHANGED <<contents, flags>>
    BY <1>t, <1>11, ConsumeCheck DEF CheckVersion
  <2>2. /\ VersionAt(l, n) /\ Top.op = l[n - 1] /\ Top.last = RealName[l[n - 2]]
    BY <1>0, <1>4, <1>10, <2>1 DEF InStep
  <2>3. MovedOn.op = NoOp /\ MovedOn.last = Null
    BY <1>5, <2>1 DEF MovedOn, Consumed, FrameType
  <2>4. ~VersionAt(l, n + 1) /\ n \notin PkgAt(l)
    BY <1>4, <2>2, VersionFollowsOperator DEF PkgAt
  <2>5. InStep(Reader)'
    BY <1>i, <2>3, <2>4
  <2>6. Direct' = Direct
    BY <2>1 DEF Direct
  <2>7. ~job.ignoreVersions => SatisfiedAt(l, n)'
    <3>1. Top.last \in Loaded
      BY <1>5, <2>1 DEF SoundFrame
    <3>2. Top.last \in Loaded' /\ contents'[Top.last] = contents[Top.last]
      BY <2>1, <3>1 DEF Loaded
    <3>3. RealName[l[n - 2]] \in Loaded' /\ contents'[RealName[l[n - 2]]] = contents[Top.last]
      BY <2>2, <3>2
    <3>4. ~job.ignoreVersions => ValidCompare(l[n - 1], contents[Top.last].version, l[n])
      BY <1>4, <2>1, <2>2
    <3>5. ~job.ignoreVersions =>
             ValidCompare(l[n - 1], contents'[RealName[l[n - 2]]].version, l[n])
      BY <3>3, <3>4
    <3>6. ~job.ignoreVersions => SatisfiedAt(l, n)'
      BY <3>3, <3>5, Zenon DEF SatisfiedAt, ValidCompare
    <3> QED  BY <3>6
  <2>8. ~job.ignoreVersions => SatisfiedAt(CommandLine, n)'
    <3>1. (CommandLine = l)'
      BY <1>6
    <3> QED  BY <2>7, <3>1
  <2> QED  BY <1>0, <1>2, <1>4, <1>7, <1>9, <1>g, <2>4, <2>5, <2>6, <2>8, LineMoves
<1>12. CASE TakeOperator
  <2>1. /\ Top.op = NoOp /\ Tok \in OpToken /\ Top.last # Null
        /\ UNCHANGED <<contents, flags>>
    BY <1>t, <1>12, ConsumeOperator DEF TakeOperator
  <2>2. /\ ~VersionAt(l, n) /\ n >= 2 /\ l[n - 1] \notin OpToken
        /\ Top.last = RealName[l[n - 1]]
    BY <1>0, <1>4, <1>10, <2>1 DEF InStep
  <2>3. MovedOn.op = Tok /\ MovedOn.last = Top.last
    BY <1>5, <2>1 DEF MovedOn, Consumed, FrameType
  <2>4. VersionAt(l, n + 1) /\ n \notin PkgAt(l)
    BY <1>4, <2>1, <2>2, VersionFollowsOperator DEF PkgAt
  <2>5. Tok # NoOp
    BY <2>1 DEF OpToken, NoOp
  <2>6. InStep(Reader)'
    BY <1>4, <1>i, <2>2, <2>3, <2>4, <2>5
  <2>7. Direct' = Direct
    BY <2>1 DEF Direct
  <2> QED  BY <1>0, <1>2, <1>4, <1>7, <1>9, <1>g, <2>2, <2>4, <2>6, <2>7, LineMoves
<1>13. CASE Revisit \/ Load
  <2>1. /\ Top.op = NoOp /\ Tok \notin OpToken
        /\ \E m : /\ flags' = [flags EXCEPT ![RealName[Tok]] = m] /\ Top.flags \subseteq m
    <3>1. CASE Revisit
      BY <1>t, <1>13, <3>1, ConsumeRevisit
    <3>2. CASE Load
      BY <1>t, <1>13, <3>2, ConsumeLoad
    <3> QED  BY <1>13, <3>1, <3>2
  <2>2. ~VersionAt(l, n)
    BY <1>0, <1>4, <1>10, <2>1 DEF InStep
  <2>3. MovedOn.op = NoOp /\ MovedOn.last = RealName[Tok]
    BY <1>5, <2>1 DEF MovedOn, AtTok, Consumed, FrameType
  <2>4. ~VersionAt(l, n + 1) /\ n \in PkgAt(l)
    BY <1>4, <2>1, <2>2, VersionFollowsOperator DEF PkgAt
  <2>5. n + 1 >= 2
    BY <1>4
  <2>6. InStep(Reader)'
    BY <1>4, <1>i, <2>1, <2>3, <2>4, <2>5
  <2>7. Direct' = Direct \cup {RealName[l[n]]}
    <3>1. "DIRECT" \in Top.flags
      BY <1>3 DEF WalkInv, Flag
    <3>2. RealName[Tok] \in Name /\ flags \in [Name -> SUBSET Flag]
      BY <1>t, <1>3, TopType DEF TypeOK
    <3> QED  BY <1>4, <2>1, <3>1, <3>2 DEF Direct
  <2> QED  BY <1>0, <1>2, <1>4, <1>7, <1>9, <1>g, <2>2, <2>4, <2>6, <2>7, LineMoves
<1> QED  BY <1>11, <1>12, <1>13 DEF Consume

LEMMA InArgsStep ==
  ASSUME WalkInv, InArgs, [Next]_vars
  PROVE  InArgs'
<1>t. TypeOK /\ TypeOK'
  BY TypeStep DEF WalkInv
<1>j. job' = job
  BY Zenon DEF Next, BeginArg, EndArg, EndField, CheckVersion, TakeOperator, Revisit,
               Load, Finish, Fail, vars
<1>d. DOMAIN stack = 1..Len(stack) /\ DOMAIN stack' = 1..Len(stack')
      /\ Len(stack) \in Nat /\ Len(stack') \in Nat
  BY <1>t, LenProperties DEF TypeOK
<1>a. ASSUME UNCHANGED <<job, args>>, status' # "done",
             stack' # <<>> => stack # <<>> /\ stack'[1].list = stack[1].list,
             \A k \in 1..Len(stack') : k > 1 => "DIRECT" \notin stack'[k].flags
      PROVE  InArgs'
  BY <1>a, <1>d DEF InArgs, Used
<1>u. ASSUME UNCHANGED <<job, args, stack>>, status' = "done" => args = <<>>
      PROVE  InArgs'
  BY <1>u, <1>d DEF InArgs, Used
<1>1. CASE BeginArg
  <2>1. /\ args # <<>> /\ args' = Tail(args) /\ status' = "running"
        /\ stack' = <<Frame(Head(args), procLast, 0, Flag, procOp)>>
    BY <1>1 DEF BeginArg
  <2>2. /\ Len(args) \in Nat \ {0} /\ Len(args') = Len(args) - 1
        /\ \A i \in 1..Len(args') : args'[i] = args[i + 1]
        /\ Head(args) = args[1]
    <3>1. args \in Seq(TokenList)
      BY <1>t DEF TypeOK
    <3> QED  BY <2>1, <3>1, HeadTailProperties, EmptySeq
  <2>3. /\ Len(job.args) \in Nat /\ Len(args) <= Len(job.args)
        /\ \A i \in 1..Len(args) : args[i] = job.args[Used + i]
    BY <1>t, UsedType DEF InArgs
  <2>4. Used' = Used + 1 /\ Used \in Nat
    BY <1>j, <2>2, <2>3 DEF Used
  <2>5. \A i \in 1..Len(args') : args'[i] = job'.args[Used' + i]
    <3> SUFFICES ASSUME NEW i \in 1..Len(args') PROVE args'[i] = job'.args[Used' + i]
      OBVIOUS
    <3>1. i + 1 \in 1..Len(args) /\ args'[i] = args[i + 1] /\ Used' + i = Used + (i + 1)
      BY <2>2, <2>4
    <3> QED  BY <1>j, <2>3, <3>1
  <2>6. Len(stack') = 1 /\ stack'[1].list = args[1]
    BY <2>1, <2>2 DEF Frame
  <2>7. args[1] = job.args[Used + 1]
    BY <2>2, <2>3
  <2> QED  BY <1>j, <1>d, <2>1, <2>2, <2>3, <2>4, <2>5, <2>6, <2>7 DEF InArgs
<1>2. CASE EndArg
  BY <1>2, <1>a, EmptyLen DEF EndArg
<1>3. CASE EndField /\ stack' # stack
  <2>1. stack' = Below /\ Len(stack) > 1 /\ UNCHANGED <<job, args, status>> /\ status = "running"
    BY <1>3, Zenon DEF EndField, Fail
  <2>2. stack # <<>>
    BY <2>1, EmptyLen
  <2>3. Len(stack') = Len(stack) - 1 /\ \A k \in 1..Len(stack') : stack'[k] = stack[k]
    BY <1>t, <2>1, <2>2, StackType
  <2> QED  BY <1>a, <1>d, <2>1, <2>2, <2>3 DEF InArgs
<1>4. CASE Consume /\ status' = "running"
  <2>1. StackAfter /\ UNCHANGED <<job, args>>
    BY <1>4, <1>t, ConsumeStack, Zenon DEF Consume, CheckVersion, TakeOperator, Revisit, Load, Fail
  <2>2. /\ stack # <<>> /\ Len(stack) \in Nat \ {0} /\ Top = stack[Len(stack)]
        /\ Top \in FrameType
    BY <1>t, <2>1, TopType DEF StackAfter, Top, SoundFrame
  <2>3. MovedOn.list = Top.list /\ MovedOn.flags = Top.flags
    BY <2>2 DEF MovedOn, AtTok, Consumed, FrameType
  <2>4. stack'[1].list = stack[1].list
    <3>1. CASE Len(stack) = 1
      BY <2>1, <2>2, <2>3, <3>1 DEF StackAfter
    <3>2. CASE Len(stack) # 1
      <4>1. Len(stack) \in Nat \ {0}
        BY <2>2
      <4>2. 1 \in 1..Len(stack) - 1
        BY <3>2, <4>1
      <4> QED  BY <2>1, <4>2 DEF StackAfter
    <3> QED  BY <3>1, <3>2
  <2>5. ASSUME NEW k \in 1..Len(stack'), k > 1
        PROVE  "DIRECT" \notin stack'[k].flags
    <3>1. CASE k < Len(stack)
      <4>1. k \in 1..Len(stack) - 1 /\ k \in DOMAIN stack
        BY <1>d, <2>2, <3>1
      <4> QED  BY <2>1, <2>5, <4>1 DEF StackAfter, InArgs
    <3>2. CASE k = Len(stack)
      BY <1>d, <2>1, <2>2, <2>3, <2>5, <3>2 DEF StackAfter, InArgs
    <3>3. CASE k > Len(stack)
      BY <2>1, <2>2, <3>3 DEF StackAfter, Entered
    <3> QED  BY <2>2, <3>1, <3>2, <3>3
  <2> QED  BY <1>4, <1>a, <2>1, <2>2, <2>4, <2>5
<1>5. CASE UNCHANGED <<args, stack>> /\ ~Finish
  <2>1. status' = "done" => status = "done"
    BY <1>5, Zenon DEF Next, BeginArg, EndArg, EndField, CheckVersion, TakeOperator, Revisit,
                       Load, Fail, vars
  <2> QED  BY <1>5, <1>j, <1>u, <2>1 DEF InArgs
<1>6. CASE Finish
  BY <1>6, <1>u DEF Finish, Fail
<1>7. CASE Consume /\ status' # "running"
  <2>1. UNCHANGED <<args, stack>>
    BY <1>7, Zenon DEF Consume, CheckVersion, TakeOperator, Revisit, Load, AtPackage, Fail
  <2> QED  BY <1>7, <1>5, <1>6, <2>1
<1>8. CASE EndField /\ stack' = stack
  <2>1. UNCHANGED <<args, stack>>
    BY <1>8, Zenon DEF EndField, Fail
  <2> QED  BY <1>5, <1>6, <2>1
<1> QED
  BY <1>1, <1>2, <1>3, <1>4, <1>5, <1>6, <1>7, <1>8, Zenon DEF Next, Consume, vars

LEMMA LineStep ==
  ASSUME WalkInv, InArgs, LineInv, [Next]_vars
  PROVE  LineInv'
<1>t. TypeOK /\ TypeOK' /\ Public \cup Direct \subseteq Loaded
  BY TypeStep DEF WalkInv
<1>g. Grows
  BY <1>t, StepGrows
<1>j. job' = job
  BY Zenon DEF Next, BeginArg, EndArg, EndField, CheckVersion, TakeOperator, Revisit,
               Load, Finish, Fail, vars
<1>s. Given' = Given /\ CommandLine' = CommandLine
  BY <1>j, LineFixed
<1>b. ASSUME args' = args, flags' = flags, stack # <<>>, stack' # <<>>, stack'[1] = stack[1]
      PROVE  LineInv'
  <2>1. Reader' = Reader /\ Direct' = Direct
    BY <1>b, <1>j, <1>s DEF Reader, Used, Direct
  <2> QED  BY <1>g, <1>j, <2>1, LineStays
<1>u. ASSUME UNCHANGED <<args, stack, procLast, procOp, flags>>
      PROVE  LineInv'
  <2>1. Reader' = Reader /\ Direct' = Direct
    BY <1>u, <1>j, <1>s DEF Reader, Used, Direct
  <2> QED  BY <1>g, <1>j, <2>1, LineStays
<1>1. CASE BeginArg
  <2>1. /\ args # <<>> /\ args' = Tail(args) /\ stack = <<>> /\ flags' = flags
        /\ stack' = <<Frame(Head(args), procLast, 0, Flag, procOp)>>
    BY <1>1 DEF BeginArg
  <2>2. Len(args) \in Nat \ {0} /\ Len(args') = Len(args) - 1 /\ Len(job.args) \in Nat
    <3>1. args \in Seq(TokenList)
      BY <1>t DEF TypeOK
    <3> QED  BY <1>t, <2>1, <3>1, UsedType, HeadTailProperties, EmptySeq
  <2>3. Used' - 1 = Used
    BY <1>j, <2>2 DEF Used
  <2>4. stack' # <<>> /\ stack'[1].pos = 1 /\ stack'[1].last = procLast /\ stack'[1].op = procOp
    BY <2>1 DEF Frame
  <2>5. Reader' = Reader
    BY <1>s, <2>1, <2>3, <2>4 DEF Reader
  <2>6. Direct' = Direct
    BY <2>1 DEF Direct
  <2> QED  BY <1>g, <1>j, <2>5, <2>6, LineStays
<1>2. CASE EndArg
  <2>1. /\ Len(stack) = 1 /\ ~HasToken /\ procLast' = Top.last /\ procOp' = Top.op
        /\ stack' = <<>> /\ UNCHANGED <<args, flags>>
    BY <1>2 DEF EndArg
  <2>2. stack # <<>> /\ Top = stack[1]
    BY <2>1, EmptyLen DEF Top
  <2>3. Used \in 1..Len(job.args) /\ ArgType /\ Top.list = job.args[Used] /\ Used' = Used
    BY <1>t, <1>j, <2>1, <2>2, UsedType DEF InArgs, Used
  <2>4. Top.pos = Len(Top.list) + 1
    <3>1. Top \in SoundFrame
      BY <1>t, <2>2, StackType
    <3>2. Top.pos \in Nat /\ Top.pos <= Len(Top.list) + 1 /\ ~(Top.pos <= Len(Top.list))
          /\ Len(Top.list) \in Nat
      BY <2>1, <2>2, <3>1, LenProperties DEF SoundFrame, FrameType, HasToken, TokenList
    <3> QED  BY <3>2
  <2>5. Len(Given[Used]) + 1 = Len(Given[Used - 1]) + Top.pos
    <3>1. /\ Len(Given[Used]) = Len(Given[Used - 1]) + Len(Top.list)
          /\ Len(Given[Used - 1]) \in Nat /\ Len(Top.list) \in Nat
      BY <2>3, CommandLineAt
    <3>2. PICK a, b, c : a = Len(Given[Used]) /\ b = Len(Given[Used - 1]) /\ c = Len(Top.list)
      OBVIOUS
    <3>3. a = b + c /\ b \in Nat /\ c \in Nat /\ Top.pos = c + 1
      BY <2>4, <3>1, <3>2
    <3>4. a + 1 = b + (c + 1)
      BY <3>3
    <3> QED  BY <3>2, <3>3, <3>4
  <2>6. Reader' = Reader
    BY <1>s, <2>1, <2>2, <2>3, <2>5 DEF Reader
  <2>7. Direct' = Direct
    BY <2>1 DEF Direct
  <2> QED  BY <1>g, <1>j, <2>6, <2>7, LineStays
<1>3. CASE EndField /\ stack' # stack
  <2>1. stack' = Below /\ Len(stack) > 1 /\ UNCHANGED <<args, flags>>
    BY <1>3, Zenon DEF EndField, Fail
  <2>2. stack # <<>> /\ Len(stack) \in Nat
    BY <1>t, <2>1, EmptyLen, StackType
  <2>3. Len(stack') = Len(stack) - 1 /\ \A k \in 1..Len(stack) - 1 : stack'[k] = stack[k]
    BY <1>t, <2>1, <2>2, StackType
  <2>4. stack' # <<>> /\ stack'[1] = stack[1]
    BY <2>1, <2>2, <2>3, EmptyLen
  <2> QED  BY <1>b, <2>1, <2>2, <2>4
<1>4. CASE Consume /\ status' = "running" /\ Len(stack) = 1
  BY <1>4, LineConsume
<1>5. CASE Consume /\ status' = "running" /\ Len(stack) # 1
  <2>1. StackAfter /\ UNCHANGED <<job, args>>
    BY <1>5, <1>t, ConsumeStack, Zenon DEF Consume, CheckVersion, TakeOperator, Revisit, Load, Fail
  <2>2. /\ stack # <<>> /\ Len(stack) \in Nat \ {0} /\ Len(stack) > 1
        /\ Top = stack[Len(stack)]
    <3>1. stack # <<>> /\ Len(stack) \in Nat \ {0} /\ Top = stack[Len(stack)]
      BY <1>t, <2>1, TopType DEF StackAfter, Top
    <3> QED  BY <1>5, <3>1
  <2>3. stack' # <<>> /\ stack'[1] = stack[1]
    BY <2>1, <2>2, EmptyLen DEF StackAfter
  <2>4. "DIRECT" \notin Top.flags
    <3>1. Len(stack) \in DOMAIN stack
      BY <1>t, <2>2, LenProperties DEF TypeOK
    <3> QED  BY <2>2, <3>1 DEF InArgs
  <2>5. Direct' = Direct
    <3>1. CASE CheckVersion \/ TakeOperator
      BY <1>5, <1>t, <3>1, ConsumeCheck, ConsumeOperator DEF Direct
    <3>2. CASE Revisit
      <4>1. flags' = [flags EXCEPT ![RealName[Tok]] = @ \cup Top.flags]
        BY <1>5, <1>t, <3>2, ConsumeRevisit
      <4> QED  BY <1>t, <2>4, <4>1 DEF Direct, TypeOK
    <3>3. CASE Load
      <4>1. /\ flags' = [flags EXCEPT ![RealName[Tok]] = Top.flags]
            /\ RealName[Tok] \in Name \ Loaded
        BY <1>5, <1>t, <3>3, ConsumeLoad
      <4>2. RealName[Tok] \notin Direct
        BY <1>t, <4>1
      <4> QED  BY <1>t, <2>4, <4>1, <4>2 DEF Direct, TypeOK
    <3> QED  BY <1>5, <3>1, <3>2, <3>3 DEF Consume
  <2>6. Reader' = Reader
    BY <1>s, <2>1, <2>2, <2>3 DEF Reader, Used
  <2> QED  BY <1>g, <1>j, <2>5, <2>6, LineStays
<1>6. CASE UNCHANGED <<args, stack, procLast, procOp, flags>>
  BY <1>6, <1>u
<1>7. CASE Consume /\ status' # "running"
  <2>1. UNCHANGED <<args, stack, procLast, procOp, flags>>
    BY <1>7, Zenon DEF Consume, CheckVersion, TakeOperator, Revisit, Load, AtPackage, Fail
  <2> QED  BY <1>u, <2>1
<1>8. CASE Finish \/ (EndField /\ stack' = stack)
  <2>1. UNCHANGED <<args, stack, procLast, procOp, flags>>
    BY <1>8, Zenon DEF Finish, EndField, Fail
  <2> QED  BY <1>u, <2>1
<1> QED
  BY <1>1, <1>2, <1>3, <1>4, <1>5, <1>6, <1>7, <1>8, Zenon DEF Next, Consume, vars

(* At the end all of the line was read.                                    *)
LEMMA LineDone ==
  ASSUME TypeOK, InArgs, LineInv, stack = <<>>, status = "done"
  PROVE  DirectExact /\ CommandLineChecked
<1>1. Used = Len(job.args)
  BY UsedType, EmptyLen DEF InArgs, Used
<1>2. Reader.pos = Len(CommandLine) + 1
  BY <1>1 DEF Reader, CommandLine
<1>3. \A i \in DOMAIN CommandLine : i < Reader.pos
  BY <1>2, UsedType
<1>4. NamedUpTo(CommandLine, Reader.pos) = Named(CommandLine)
  BY <1>3 DEF NamedUpTo, Named, PkgAt
<1>5. CheckedUpTo(CommandLine, Reader.pos) => Satisfied(CommandLine)
  BY <1>3 DEF CheckedUpTo, Satisfied
<1> QED  BY <1>4, <1>5 DEF LineInv, DirectExact, CommandLineChecked

LEMMA LineInit == Init => InArgs /\ LineInv
<1> SUFFICES ASSUME Init PROVE InArgs /\ LineInv
  OBVIOUS
<1>1. TypeOK
  BY TypeInit
<1>2. Used = 0 /\ Len(job.args) \in Nat /\ ArgType
  <2>1. job.args \in Seq(TokenList)
    BY <1>1, JobType
  <2>2. Len(job.args) \in Nat /\ args = job.args
    BY <2>1, LenProperties DEF Init
  <2> QED  BY <2>1, <2>2 DEF Used, ArgType
<1>3. InArgs
  <2>1. DOMAIN stack = {}
    BY DEF Init
  <2>2. \A i \in 1..Len(args) : args[i] = job.args[Used + i]
    BY <1>2 DEF Init
  <2> QED  BY <1>2, <2>1, <2>2 DEF InArgs, Init
<1>4. Reader = [list |-> CommandLine, pos |-> 1, last |-> Null, op |-> NoOp]
  <2>1. Len(Given[Used]) + 1 = 1
    BY <1>2, GivenRuns, EmptyLen
  <2> QED  BY <2>1 DEF Reader, Init
<1>5. InStep(Reader)
  BY <1>4 DEF InStep, VersionAt, NoOp
<1>6. \A i \in DOMAIN CommandLine : ~(i < 1)
  BY <1>1, <1>3, UsedType
<1>7. Direct = {} /\ NamedUpTo(CommandLine, 1) = {}
  BY <1>6 DEF Direct, NamedUpTo, PkgAt, Init
<1>8. CheckedUpTo(CommandLine, 1)
  BY <1>6 DEF CheckedUpTo
<1> QED  BY <1>3, <1>4, <1>5, <1>7, <1>8 DEF LineInv

LEMMA LineInvariant == Spec => [](InArgs /\ LineInv)
<1>1. WalkInv /\ InArgs /\ LineInv /\ [Next]_vars => (InArgs /\ LineInv)'
  BY InArgsStep, LineStep
<1> QED  BY <1>1, LineInit, WalkInvariant, PTL DEF Spec

LEMMA LineMeans == WalkInv /\ InArgs /\ LineInv => DirectExact /\ CommandLineChecked
<1>1. CASE status = "done"
  BY <1>1, LineDone DEF WalkInv
<1>2. CASE status # "done"
  BY <1>2 DEF DirectExact, CommandLineChecked
<1> QED  BY <1>1, <1>2

(* The packages marked DIRECT are those the command line names, read as    *)
(* one list: what process() keeps in proc->last and proc->op from one      *)
(* argument to the next makes the cuts between them immaterial.            *)
THEOREM DirectIsExact == Spec => []DirectExact
BY LineMeans, LineInvariant, WalkInvariant, PTL

(* A run that succeeds has compared every version on the command line with *)
(* that of the package in front of its operator, in whichever of the       *)
(* arguments they stand.                                                   *)
THEOREM CommandLineIsChecked == Spec => []CommandLineChecked
BY LineMeans, LineInvariant, WalkInvariant, PTL

-----------------------------------------------------------------------------
(* How far the walk goes from the command line.                            *)

NextLevel(S) ==
  UNION {Named(contents[p].requires) \cup Named(contents[p].requiresprivate) : p \in S \cap Loaded}

LevelsRun(w) ==
  /\ w \in [Nat -> SUBSET Name]
  /\ w[0] = Named(CommandLine) /\ w[1] = Named(CommandLine)
  /\ \A d \in Nat \ {0} : w[d + 1] = w[d] \cup NextLevel(w[d])

LEMMA NamedType ==
  ASSUME NEW l \in Seq(Token)
  PROVE  Named(l) \subseteq Name
<1>1. \A i \in DOMAIN l : l[i] \in Token
  BY LenProperties, ElementOfSeq
<1> QED  BY <1>1, TraverseAssumption DEF Named, PkgAt, Name

LEMMA WithinRuns == TypeOK => LevelsRun(Within)
<1> SUFFICES ASSUME TypeOK PROVE LevelsRun(Within)
  OBVIOUS
<1> DEFINE S == SUBSET Name
           Value(f, d) == IF d <= 1 THEN Named(CommandLine)
                          ELSE f[d - 1] \cup NextLevel(f[d - 1])
<1>1. PICK base : base = Named(CommandLine) /\ base \in S
  <2>1. ArgType /\ Len(job.args) \in 0..Len(job.args)
    BY JobType, LenProperties DEF ArgType
  <2>2. CommandLine \in Seq(Token)
    BY <2>1, GivenRuns DEF CommandLine
  <2> QED  BY <2>2, NamedType
<1>2. \A s \in S : NextLevel(s) \in S
  <2>1. \A p \in Loaded : Named(contents[p].requires) \cup Named(contents[p].requiresprivate) \subseteq Name
    BY FieldType, NamedType DEF TokenList
  <2> QED  BY <2>1 DEF NextLevel
<1>3. PICK next : /\ next \in [Nat -> [S -> S]]
                  /\ \A s \in S : next[0][s] = s
                  /\ \A d \in Nat \ {0} : \A s \in S : next[d][s] = s \cup NextLevel(s)
  <2> DEFINE step == [d \in Nat |-> [s \in S |-> IF d = 0 THEN s ELSE s \cup NextLevel(s)]]
  <2>1. step \in [Nat -> [S -> S]]
    BY <1>2
  <2>2. \A s \in S : step[0][s] = s
    OBVIOUS
  <2>3. \A d \in Nat \ {0} : \A s \in S : step[d][s] = s \cup NextLevel(s)
    OBVIOUS
  <2> HIDE DEF step, S
  <2> QED  BY <2>1, <2>2, <2>3
<1>4. PICK f : Runs(f, S, base, next)
  <2> HIDE DEF S
  <2> QED  BY <1>1, <1>3, RunExists
<1>5. f \in [Nat -> S] /\ f[0] = base /\ \A n \in Nat : f[n + 1] = next[n][f[n]]
  <2> HIDE DEF S
  <2> QED  BY <1>4, Zenon DEF Runs
<1>6. f[1] = base
  <2>1. 0 + 1 = 1 /\ f[0 + 1] = next[0][f[0]]
    BY <1>5
  <2> HIDE DEF S
  <2> QED  BY <1>1, <1>3, <1>5, <2>1
<1>7. \A d \in Nat \ {0} : f[d + 1] = f[d] \cup NextLevel(f[d])
  <2> HIDE DEF S
  <2> QED  BY <1>3, <1>5
<1>8. f = [d \in Nat |-> Value(f, d)]
  <2> SUFFICES ASSUME NEW d \in Nat PROVE f[d] = Value(f, d)
    BY <1>5
  <2>1. CASE d <= 1
    <3>1. d = 0 \/ d = 1
      BY <2>1
    <3> QED  BY <1>1, <1>5, <1>6, <2>1, <3>1
  <2>2. CASE ~(d <= 1)
    <3>1. d - 1 \in Nat \ {0} /\ d - 1 + 1 = d
      BY <2>2
    <3> HIDE DEF S
    <3> QED  BY <1>7, <2>2, <3>1
  <2> QED  BY <2>1, <2>2
<1> DEFINE h == CHOOSE h : h = [d \in Nat |-> Value(h, d)]
<1>9. Within = h
  BY DEF Within, NextLevel
<1>10. h = [d \in Nat |-> Value(h, d)]
  <2> HIDE DEF Value
  <2> QED  BY <1>8
<1> HIDE DEF h
<1>11. \A d \in Nat : h[d] = Value(h, d)
  <2> HIDE DEF Value
  <2> QED  BY <1>10, Zenon
<1>12. h[0] = base /\ h[1] = base /\ \A d \in Nat \ {0} : h[d + 1] = h[d] \cup NextLevel(h[d])
  <2>1. 0 <= 1 /\ 1 <= 1 /\ 0 \in Nat /\ 1 \in Nat
    OBVIOUS
  <2>2. \A d \in Nat \ {0} : d + 1 \in Nat /\ ~(d + 1 <= 1) /\ d + 1 - 1 = d
    OBVIOUS
  <2>3. h[0] = Value(h, 0) /\ h[1] = Value(h, 1)
    BY <1>11, <2>1
  <2>4. h[0] = base /\ h[1] = base
    BY <1>1, <2>1, <2>3
  <2>5. ASSUME NEW d \in Nat \ {0} PROVE h[d + 1] = h[d] \cup NextLevel(h[d])
    <3>1. h[d + 1] = Value(h, d + 1)
      <4> HIDE DEF Value
      <4> QED  BY <1>11, <2>2
    <3> QED  BY <2>2, <3>1
  <2> QED  BY <2>4, <2>5
<1>13. \A d \in Nat : h[d] \in S
  <2> DEFINE P == {d \in Nat : h[d] \in S /\ h[d + 1] \in S}
  <2>1. 0 \in P
    <3>1. h[0] \in S /\ h[0 + 1] \in S
      BY <1>1, <1>12
    <3> HIDE DEF S
    <3> QED  BY <3>1
  <2>2. ASSUME NEW d \in Nat, d \in P PROVE d + 1 \in P
    <3>1. d + 1 \in Nat \ {0} /\ h[d + 1] \in S
      BY <2>2
    <3>2. h[d + 1 + 1] = h[d + 1] \cup NextLevel(h[d + 1])
      BY <1>12, <3>1
    <3>3. h[d + 1 + 1] \in S
      BY <1>2, <3>1, <3>2
    <3> HIDE DEF S
    <3> QED  BY <3>1, <3>3
  <2>3. \A d \in Nat : d \in P
    <3> HIDE DEF P
    <3> QED  BY <2>1, <2>2, InductionNat
  <2> QED  BY <2>3
<1>14. h \in [Nat -> S]
  <2> HIDE DEF S, Value
  <2> QED  BY <1>10, <1>13
<1> QED  BY <1>1, <1>9, <1>12, <1>14, Zenon DEF LevelsRun

LEMMA WithinRunsOn == TypeOK' => LevelsRun(Within)'
BY WithinRuns, PTL

(* Further levels have more.                                               *)
LEMMA LevelsGrow ==
  ASSUME NEW w, LevelsRun(w), NEW d \in Nat, NEW e \in Nat, d <= e
  PROVE  w[d] \subseteq w[e]
<1> DEFINE P == {k \in Nat : w[d] \subseteq w[d + k]}
<1>1. \A k \in Nat : w[k] \subseteq w[k + 1]
  <2> SUFFICES ASSUME NEW k \in Nat PROVE w[k] \subseteq w[k + 1]
    OBVIOUS
  <2>1. CASE k = 0
    <3>1. w[0] = w[0 + 1]
      BY DEF LevelsRun
    <3> QED  BY <2>1, <3>1
  <2>2. CASE k # 0
    BY <2>2 DEF LevelsRun
  <2> QED  BY <2>1, <2>2
<1>2. 0 \in P
  OBVIOUS
<1>3. ASSUME NEW k \in Nat, k \in P PROVE k + 1 \in P
  <2>1. d + k \in Nat /\ d + (k + 1) = d + k + 1
    OBVIOUS
  <2>2. w[d + k] \subseteq w[d + k + 1]
    BY <1>1, <2>1
  <2> QED  BY <1>3, <2>1, <2>2
<1>4. \A k \in Nat : k \in P
  <2> HIDE DEF P
  <2> QED  BY <1>2, <1>3, InductionNat
<1>5. e - d \in P /\ d + (e - d) = e
  <2>1. e - d \in Nat
    OBVIOUS
  <2> HIDE DEF P
  <2> QED  BY <1>4, <2>1
<1> QED  BY <1>5

(* A step of the walk takes nothing away from a level.                     *)
LEMMA LevelsKept ==
  ASSUME TypeOK, TypeOK', job' = job, Grows
  PROVE  \A d \in Nat : Within[d] \subseteq Within'[d]
<1>1. PICK w, v : w = Within /\ v = Within'
  OBVIOUS
<1>2. LevelsRun(w)
  BY <1>1, WithinRuns
<1>3. /\ v \in [Nat -> SUBSET Name]
      /\ v[0] = Named(CommandLine) /\ v[1] = Named(CommandLine)
      /\ \A d \in Nat \ {0} : v[d + 1] = v[d] \cup NextLevel(v[d])'
  <2>1. LevelsRun(Within)'
    BY WithinRunsOn
  <2>2. CommandLine' = CommandLine
    BY LineFixed
  <2>3. Named(CommandLine)' = Named(CommandLine)
    BY <2>2 DEF Named, PkgAt, VersionAt, OpToken
  <2> QED  BY <1>1, <2>1, <2>3 DEF LevelsRun, Name
<1>4. ASSUME NEW S, NEW T, S \subseteq T PROVE NextLevel(S) \subseteq NextLevel(T)'
  BY <1>4 DEF NextLevel, Grows, Named, PkgAt, VersionAt, OpToken
<1> DEFINE P == {d \in Nat : w[d] \subseteq v[d] /\ w[d + 1] \subseteq v[d + 1]}
<1>5. 0 \in P
  <2>1. w[0] = v[0] /\ w[0 + 1] = v[0 + 1]
    BY <1>2, <1>3 DEF LevelsRun
  <2> QED  BY <2>1
<1>6. ASSUME NEW d \in Nat, d \in P PROVE d + 1 \in P
  <2>1. d + 1 \in Nat \ {0} /\ w[d + 1] \subseteq v[d + 1]
    BY <1>6
  <2>2. /\ w[d + 1 + 1] = w[d + 1] \cup NextLevel(w[d + 1])
        /\ v[d + 1 + 1] = v[d + 1] \cup NextLevel(v[d + 1])'
    BY <1>2, <1>3, <2>1 DEF LevelsRun
  <2>3. NextLevel(w[d + 1]) \subseteq NextLevel(v[d + 1])'
    BY <1>4, <2>1
  <2> QED  BY <2>1, <2>2, <2>3
<1>7. \A d \in Nat : d \in P
  <2> HIDE DEF P
  <2> QED  BY <1>5, <1>6, InductionNat
<1> QED  BY <1>1, <1>7

(* Every frame reads a list whose packages are a level below its own, and  *)
(* no frame is deeper than the options allow.                              *)
LevelInv ==
  /\ stack # <<>> => stack[1].depth = 0
  /\ \A k \in DOMAIN stack : k > 1 =>
       /\ Named(stack[k].list) \subseteq Within[stack[k].depth + 1]
       /\ Descends(stack[k].depth)
  /\ Loaded \subseteq Within[Levels]

(* A package that is read from a frame is as near as the frame says.       *)
LEMMA TokenLevel ==
  ASSUME WalkInv, InArgs, LineInv, LevelInv, HasToken, Top.op = NoOp, Tok \notin OpToken
  PROVE  /\ RealName[Tok] \in Within[Top.depth + 1]
         /\ Within[Top.depth + 1] \subseteq Within[Levels]
         /\ Top.depth \in Nat
<1>t. TypeOK /\ StackInv /\ LevelsRun(Within)
  BY WithinRuns DEF WalkInv, StackInv
<1>1. /\ stack # <<>> /\ Top = stack[Len(stack)] /\ Len(stack) \in DOMAIN stack
      /\ Len(stack) \in Nat \ {0}
  BY <1>t, TopType, LenProperties DEF Top, TypeOK
<1>2. Len(stack) <= Cap /\ Cap \in Nat /\ Cap >= 2 /\ job.maxdepth \in Nat
  BY <1>t, TraverseAssumption, JobType DEF TypeOK
<1>3. Top.depth \in Nat
  BY <1>t, TopType DEF SoundFrame, FrameType
<1>4. Levels \in Nat
  BY <1>2 DEF Levels
<1>5. CASE Len(stack) = 1
  <2>1. Top.depth + 1 = 1
    BY <1>1, <1>5 DEF LevelInv
  <2>2. /\ Reader.list = CommandLine /\ Reader.op = Top.op
        /\ Reader.pos \in DOMAIN CommandLine /\ CommandLine[Reader.pos] = Tok
    BY <1>t, <1>5, ReaderAt
  <2>3. Reader.pos \in PkgAt(CommandLine)
    BY <2>2 DEF LineInv, InStep, PkgAt
  <2>4. RealName[Tok] \in Named(CommandLine)
    BY <2>2, <2>3 DEF Named
  <2>5. Within[1] = Named(CommandLine) /\ Within[0] = Named(CommandLine)
    BY <1>t DEF LevelsRun
  <2>6. Within[0] \subseteq Within[Levels]
    BY <1>t, <1>4, LevelsGrow
  <2> QED  BY <1>3, <2>1, <2>4, <2>5, <2>6
<1>6. CASE Len(stack) # 1
  <2>1. Len(stack) > 1
    <3>1. PICK m : m = Len(stack)
      OBVIOUS
    <3>2. m \in Nat \ {0} /\ m # 1
      BY <1>1, <1>6, <3>1
    <3>3. m > 1
      BY <3>2
    <3> QED  BY <3>1, <3>3
  <2>2. /\ "DIRECT" \notin Top.flags /\ Descends(Top.depth)
        /\ Named(Top.list) \subseteq Within[Top.depth + 1]
    BY <1>1, <2>1 DEF InArgs, LevelInv
  <2>3. RealName[Tok] \in Within[Top.depth + 1]
    BY <1>t, <2>2, TopNamed
  <2>4. Top.depth < Len(stack)
    BY <1>1 DEF WalkInv
  <2>5. Top.depth + 1 <= Levels
    <3>1. job.recursive /\ Top.depth < job.maxdepth
      BY <2>2 DEF Descends
    <3>2. Top.depth + 1 <= Cap /\ Top.depth + 1 <= job.maxdepth
      <4>1. PICK d, m : d = Top.depth /\ m = Len(stack)
        OBVIOUS
      <4>2. d \in Nat /\ m \in Nat \ {0} /\ d < m /\ m <= Cap /\ d < job.maxdepth
        BY <1>1, <1>2, <1>3, <2>4, <3>1, <4>1
      <4>3. d + 1 <= Cap /\ d + 1 <= job.maxdepth
        BY <1>2, <4>2
      <4> QED  BY <4>1, <4>3
    <3> QED  BY <3>1, <3>2 DEF Levels
  <2>6. Within[Top.depth + 1] \subseteq Within[Levels]
    <3>1. PICK d : d = Top.depth + 1
      OBVIOUS
    <3>2. d \in Nat /\ d <= Levels
      BY <1>3, <2>5, <3>1
    <3>3. Within[d] \subseteq Within[Levels]
      BY <1>t, <1>4, <3>2, LevelsGrow
    <3> QED  BY <3>1, <3>3
  <2> QED  BY <1>3, <2>3, <2>6
<1> QED  BY <1>5, <1>6

LEMMA LevelStep ==
  ASSUME WalkInv, InArgs, LineInv, LevelInv, [Next]_vars
  PROVE  LevelInv'
<1>t. /\ TypeOK /\ TypeOK' /\ Public \cup Direct \subseteq Loaded
      /\ LevelsRun(Within)' /\ LevelsRun(Within)
  BY TypeStep, WithinRuns, WithinRunsOn DEF WalkInv
<1>g. Grows
  BY <1>t, StepGrows
<1>j. job' = job /\ Levels' = Levels
  <2>1. job' = job
    BY Zenon DEF Next, BeginArg, EndArg, EndField, CheckVersion, TakeOperator, Revisit,
                 Load, Finish, Fail, vars
  <2> QED  BY <2>1 DEF Levels, Unlimited
<1>w. \A d \in Nat : Within[d] \subseteq Within'[d]
  BY <1>t, <1>g, <1>j, LevelsKept
<1>l. Levels \in Nat
  BY <1>t, TraverseAssumption, JobType DEF Levels
<1>k. ASSUME Loaded' = Loaded,
             stack' # <<>> => stack'[1].depth = 0,
             \A k \in 1..Len(stack') : k > 1 => k \in DOMAIN stack /\ stack'[k] = stack[k]
      PROVE  LevelInv'
  <2>1. Loaded' \subseteq Within'[Levels']
    BY <1>j, <1>k, <1>l, <1>w DEF LevelInv
  <2>2. ASSUME NEW k \in DOMAIN stack', k > 1
        PROVE  Named(stack'[k].list) \subseteq Within'[stack'[k].depth + 1]
               /\ Descends(stack'[k].depth)
    <3>1. k \in DOMAIN stack /\ stack'[k] = stack[k]
      BY <1>k, <1>t, <2>2, LenProperties DEF TypeOK
    <3>2. stack[k].depth \in Nat
      BY <1>t, <3>1, LenProperties, ElementOfSeq DEF TypeOK, SoundFrame, FrameType
    <3>3. stack[k].depth + 1 \in Nat
      BY <3>2
    <3>4. Named(stack[k].list) \subseteq Within[stack[k].depth + 1] /\ Descends(stack[k].depth)
      BY <2>2, <3>1 DEF LevelInv
    <3>5. Within[stack[k].depth + 1] \subseteq Within'[stack[k].depth + 1]
      BY <1>w, <3>3
    <3> QED  BY <3>1, <3>4, <3>5
  <2>3. ASSUME NEW k \in DOMAIN stack', k > 1
        PROVE  (Named(stack[k].list) \subseteq Within[stack[k].depth + 1] /\ Descends(stack[k].depth))'
    BY <1>j, <2>2, <2>3 DEF Named, PkgAt, VersionAt, OpToken, Descends
  <2> QED  BY <1>k, <2>1, <2>2, <2>3 DEF LevelInv
<1>1. CASE BeginArg
  <2>1. /\ stack' = <<Frame(Head(args), procLast, 0, Flag, procOp)>> /\ contents' = contents
    BY <1>1 DEF BeginArg
  <2>2. Len(stack') = 1 /\ stack'[1].depth = 0 /\ Loaded' = Loaded
    BY <2>1 DEF Frame, Loaded
  <2> QED  BY <1>k, <2>2
<1>2. CASE EndArg
  BY <1>2, <1>k, EmptyLen DEF EndArg, Loaded
<1>3. CASE EndField /\ stack' # stack
  <2>1. stack' = Below /\ Len(stack) > 1 /\ contents' = contents
    BY <1>3, Zenon DEF EndField, Fail
  <2>2. stack # <<>> /\ Len(stack) \in Nat
    BY <1>t, <2>1, EmptyLen, StackType
  <2>3. Len(stack') = Len(stack) - 1 /\ \A k \in 1..Len(stack) - 1 : stack'[k] = stack[k]
    BY <1>t, <2>1, <2>2, StackType
  <2>4. stack'[1].depth = 0
    BY <2>1, <2>2, <2>3 DEF LevelInv
  <2>5. \A k \in 1..Len(stack') : k \in DOMAIN stack /\ stack'[k] = stack[k]
    BY <1>t, <2>2, <2>3, LenProperties DEF TypeOK
  <2> QED  BY <1>k, <2>1, <2>4, <2>5 DEF Loaded
<1>4. CASE Consume /\ status' = "running"
  <2> DEFINE p == RealName[Tok]
  <2>1. StackAfter
    BY <1>4, <1>t, ConsumeStack
  <2>2. /\ stack # <<>> /\ Top = stack[Len(stack)] /\ Top \in FrameType
        /\ Len(stack) \in Nat /\ Len(stack) >= 1
        /\ DOMAIN stack = 1..Len(stack) /\ DOMAIN stack' = 1..Len(stack')
    BY <1>t, <2>1, TopType, LenProperties DEF StackAfter, Top, SoundFrame, TypeOK
  <2>3. MovedOn.list = Top.list /\ MovedOn.depth = Top.depth /\ Top.depth \in Nat
    BY <2>2 DEF MovedOn, AtTok, Consumed, FrameType
  <2>4. ASSUME Top.op = NoOp, Tok \notin OpToken
        PROVE  p \in Within'[Top.depth + 1] /\ p \in Within'[Levels]
    <3>1. p \in Within[Top.depth + 1] /\ Within[Top.depth + 1] \subseteq Within[Levels]
      BY <2>1, <2>4, TokenLevel DEF StackAfter
    <3>2. Top.depth + 1 \in Nat
      BY <2>3
    <3> QED  BY <1>l, <1>w, <3>1, <3>2
  <2>5. Loaded' \subseteq Within'[Levels']
    <3>1. \/ Loaded' = Loaded
          \/ Loaded' = Loaded \cup {p} /\ Top.op = NoOp /\ Tok \notin OpToken
      BY <1>4, <1>t, OnlyLoadLoads, ConsumeLoad
    <3> QED  BY <1>j, <1>l, <1>w, <2>4, <3>1 DEF LevelInv
  <2>6. ASSUME NEW k \in 1..Len(stack'), k > 1
        PROVE  Named(stack'[k].list) \subseteq Within'[stack'[k].depth + 1]
               /\ Descends(stack'[k].depth)
    <3>1. CASE k <= Len(stack)
      <4>1. k \in DOMAIN stack /\ stack'[k].list = stack[k].list /\ stack'[k].depth = stack[k].depth
        <5>1. CASE k = Len(stack)
          BY <2>1, <2>2, <2>3, <5>1 DEF StackAfter
        <5>2. CASE k # Len(stack)
          <6>1. k \in 1..Len(stack) - 1 /\ k \in DOMAIN stack
            <7>1. PICK m, n : m = Len(stack) /\ n = Len(stack')
              OBVIOUS
            <7>2. m \in Nat /\ k \in 1..n /\ k <= m /\ k # m
              BY <2>2, <2>6, <3>1, <5>2, <7>1
            <7>3. k \in Int /\ k >= 1
              BY <2>6
            <7>4. k \in 1..m - 1 /\ k \in 1..m
              BY <7>2, <7>3
            <7> QED  BY <2>2, <7>1, <7>4
          <6> QED  BY <2>1, <6>1 DEF StackAfter
        <5> QED  BY <5>1, <5>2
      <4>2. stack[k].depth \in Nat
        BY <1>t, <4>1, <2>2, ElementOfSeq DEF TypeOK, SoundFrame, FrameType
      <4>3. stack[k].depth + 1 \in Nat
        BY <4>2
      <4> QED  BY <1>w, <2>6, <4>1, <4>3 DEF LevelInv
    <3>2. CASE k > Len(stack)
      <4>1. Top.op = NoOp /\ Tok \notin OpToken /\ Entered(stack'[k])
        BY <2>1, <2>2, <3>2 DEF StackAfter
      <4>4. PICK d : d = Top.depth + 1 /\ d \in Nat \ {0}
        BY <2>3
      <4>2. p \in Within'[d] /\ p \in Loaded'
        <5>1. p \in Loaded'
          <6>1. CASE Load
            BY <1>4, <1>t, <6>1, ConsumeLoad
          <6>2. CASE Revisit
            BY <1>4, <1>t, <1>g, <6>2, ConsumeRevisit DEF Grows
          <6>3. CASE CheckVersion
            BY <1>4, <4>1, <6>3 DEF CheckVersion
          <6>4. CASE TakeOperator
            BY <1>4, <4>1, <6>4 DEF TakeOperator
          <6> QED  BY <1>4, <6>1, <6>2, <6>3, <6>4 DEF Consume
        <5> QED  BY <2>4, <4>1, <4>4, <5>1
      <4>3. Named(stack'[k].list) \subseteq NextLevel(Within[d])'
        BY <4>1, <4>2 DEF Entered, NextLevel, Named, PkgAt, VersionAt, OpToken
      <4>5. Named(stack'[k].list) \subseteq Within'[d + 1]
        <5>1. Within'[d + 1] = Within'[d] \cup NextLevel(Within[d])'
          BY <1>t, <4>4 DEF LevelsRun
        <5> QED  BY <4>3, <5>1
      <4> QED  BY <4>1, <4>4, <4>5 DEF Entered
    <3> QED  BY <2>2, <3>1, <3>2
  <2>7. stack'[1].depth = 0
    <3>1. CASE Len(stack) = 1
      BY <2>1, <2>2, <2>3, <3>1 DEF StackAfter, LevelInv
    <3>2. CASE Len(stack) # 1
      <4>0. PICK m : m = Len(stack)
        OBVIOUS
      <4>2. m \in Nat /\ m >= 1 /\ m # 1
        BY <2>2, <3>2, <4>0
      <4>3. 1 \in 1..m - 1
        BY <4>2
      <4>1. 1 \in 1..Len(stack) - 1
        BY <4>0, <4>3
      <4> QED  BY <2>1, <2>2, <4>1 DEF StackAfter, LevelInv
    <3> QED  BY <3>1, <3>2
  <2>8. ASSUME NEW k \in DOMAIN stack', k > 1
        PROVE  (Named(stack[k].list) \subseteq Within[stack[k].depth + 1] /\ Descends(stack[k].depth))'
    BY <1>j, <2>2, <2>6, <2>8 DEF Named, PkgAt, VersionAt, OpToken, Descends
  <2> QED  BY <2>5, <2>7, <2>8 DEF LevelInv
<1>5. CASE UNCHANGED <<stack, contents>>
  <2>1. \A k \in 1..Len(stack') : k \in DOMAIN stack /\ stack'[k] = stack[k]
    BY <1>5, <1>t, LenProperties DEF TypeOK
  <2> QED  BY <1>5, <1>k, <2>1 DEF LevelInv, Loaded
<1>6. CASE Consume /\ status' # "running"
  <2>1. UNCHANGED <<stack, contents>>
    BY <1>6, Zenon DEF Consume, CheckVersion, TakeOperator, Revisit, Load, AtPackage, Fail
  <2> QED  BY <1>5, <2>1
<1>7. CASE Finish \/ (EndField /\ stack' = stack)
  <2>1. UNCHANGED <<stack, contents>>
    BY <1>7, Zenon DEF Finish, EndField, Fail
  <2> QED  BY <1>5, <2>1
<1> QED
  BY <1>1, <1>2, <1>3, <1>4, <1>5, <1>6, <1>7, Zenon DEF Next, Consume, vars

LEMMA LevelInit == Init => LevelInv
BY DEF Init, LevelInv, Loaded

(* No package is loaded that is further from the command line than         *)
(* --maximum-traverse-depth allows, however many ways lead to it.          *)
THEOREM DepthIsBounded == Spec => []DepthBounded
<1>1. WalkInv /\ InArgs /\ LineInv /\ LevelInv /\ [Next]_vars => LevelInv'
  BY LevelStep
<1>2. LevelInv => DepthBounded
  BY DEF LevelInv, DepthBounded
<1> QED  BY <1>1, <1>2, LevelInit, LineInvariant, WalkInvariant, PTL DEF Spec

-----------------------------------------------------------------------------
(* The walk implements Resolution.                                         *)

(* Every DIRECT package is PUBLIC, and there is one as soon as any package *)
(* is loaded.                                                              *)
RootInv ==
  /\ Direct \subseteq Public
  /\ Loaded # {} \/ order # <<>> => Direct # {}

-----------------------------------------------------------------------------
(* What marking a package does to the sets of marked packages.             *)

LEMMA Marked ==
  ASSUME TypeOK, NEW CONSTANT p \in Name, NEW CONSTANT fl \in SUBSET Flag,
         flags' = [flags EXCEPT ![p] = @ \cup fl]
  PROVE  /\ Public' = IF "PUBLIC" \in fl THEN Public \cup {p} ELSE Public
         /\ Direct' = IF "DIRECT" \in fl THEN Direct \cup {p} ELSE Direct
BY DEF TypeOK, Public, Direct

(* A step of the walk that marks p with the flags fl of the top frame: p   *)
(* is named on the command line, or what the frame reads requires it.      *)
Justified(p, fl) ==
  \/ fl = Flag
  \/ fl = {"PUBLIC"} /\ \E q \in Public : contents[q] # Null /\ p \in Named(contents[q].requires)
  \/ fl = {} /\ \E q \in Loaded : p \in Named(contents[q].requires)
                                          \cup Named(contents[q].requiresprivate)

LEMMA FrameJustifies ==
  ASSUME TypeOK, StackInv, AtPackage
  PROVE  Justified(RealName[Tok], Top.flags)
<1>1. HasToken /\ Top.op = NoOp /\ Tok \notin OpToken
  BY DEF AtPackage
<1>2. /\ Top \in WalkFrame
      /\ "DIRECT" \notin Top.flags => RealName[Tok] \in Named(Top.list)
  BY <1>1, TopNamed
<1>3. Top.flags \in SUBSET Flag
  BY <1>1, TopType DEF SoundFrame, FrameType
<1>4. CASE Top.flags = Flag
  BY <1>4 DEF Justified
<1>5. CASE "DIRECT" \notin Top.flags
  <2>1. Top.flags = {} \/ Top.flags = {"PUBLIC"}
    BY <1>3, <1>5 DEF Flag
  <2>2. ReadsField(Top)
    BY <1>2, <1>5 DEF WalkFrame, Flag
  <2>3. PICK q \in Loaded :
          \/ Top.list = contents[q].requires /\ ("PUBLIC" \in Top.flags => q \in Public)
          \/ Top.list = contents[q].requiresprivate /\ Top.flags = {}
    BY <2>2 DEF ReadsField
  <2>4. contents[q] # Null
    BY DEF Loaded
  <2> QED  BY <1>2, <1>5, <2>1, <2>3, <2>4 DEF Justified
<1> QED  BY <1>2, <1>4, <1>5 DEF WalkFrame, Flag

-----------------------------------------------------------------------------
(* RootInv is invariant.                                                   *)

LEMMA RootInit == Init => RootInv
BY DEF Init, RootInv, Direct, Public, Loaded

LEMMA RootStep ==
  ASSUME WalkInv, RootInv, [Next]_vars
  PROVE  RootInv'
<1>0. TypeOK /\ StackInv /\ FlagsInv
  BY WalkInvSplit DEF WalkInv
<1>u. ASSUME UNCHANGED <<order, contents, flags>>
      PROVE  RootInv'
  BY <1>u DEF RootInv, Direct, Public, Loaded
<1>1. CASE Revisit /\ status' = "running"
  <2> SUFFICES ASSUME NEW CONSTANT p, p = RealName[Tok],
                      NEW CONSTANT fl, fl = Top.flags
               PROVE  RootInv'
    OBVIOUS
  <2>1. p \in Name /\ fl \in SUBSET Flag /\ AtPackage
    BY <1>0, <1>1, TopType DEF Revisit, AtPackage, SoundFrame, FrameType
  <2>2. flags' = [flags EXCEPT ![p] = @ \cup fl] /\ UNCHANGED <<order, contents>>
    BY <1>1, Zenon DEF Revisit, Fail, Mark
  <2>3. Justified(p, fl)
    BY <1>0, <2>1, FrameJustifies
  <2>4. Loaded' = Loaded
    BY <2>2 DEF Loaded
  <2>5. "DIRECT" \in fl => "PUBLIC" \in fl
    BY <2>3 DEF Justified, Flag
  <2> QED  BY <1>0, <2>1, <2>2, <2>4, <2>5, Marked DEF RootInv
<1>2. CASE Load /\ status' = "running"
  <2> SUFFICES ASSUME NEW CONSTANT p, p = RealName[Tok],
                      NEW CONSTANT fl, fl = Top.flags
               PROVE  RootInv'
    OBVIOUS
  <2>1. p \in Name /\ fl \in SUBSET Flag /\ AtPackage /\ p \notin Loaded
    BY <1>0, <1>2, TopType DEF Load, AtPackage, SoundFrame, FrameType, Loaded
  <2>2. flags' = [flags EXCEPT ![p] = fl]
    BY <1>2, Zenon DEF Load, Fail
  <2>3. Justified(p, fl)
    BY <1>0, <2>1, FrameJustifies
  <2>4. flags[p] = {}
    BY <1>0, <2>1 DEF FlagsInv, TypeOK, Public, Direct, Flag
  <2>5. flags' = [flags EXCEPT ![p] = @ \cup fl]
    BY <1>0, <2>1, <2>2, <2>4 DEF TypeOK
  <2>6. "DIRECT" \in fl => "PUBLIC" \in fl
    BY <2>3 DEF Justified, Flag
  <2>7. fl = Flag \/ Loaded # {}
    BY <1>0, <2>3 DEF Justified, FlagsInv
  <2>8. Direct \subseteq Direct' /\ (fl = Flag => p \in Direct') /\ Direct' \subseteq Public'
    <3>1. /\ Public' = IF "PUBLIC" \in fl THEN Public \cup {p} ELSE Public
          /\ Direct' = IF "DIRECT" \in fl THEN Direct \cup {p} ELSE Direct
      BY <1>0, <2>1, <2>5, Marked
    <3> QED  BY <2>6, <3>1 DEF RootInv, Flag
  <2> QED  BY <2>7, <2>8 DEF RootInv
<1>3. CASE BeginArg \/ EndArg \/ EndField
  BY <1>3, <1>u, Zenon DEF BeginArg, EndArg, EndField, Fail
<1>4. CASE CheckVersion \/ TakeOperator \/ Finish
  BY <1>4, <1>u, Zenon DEF CheckVersion, TakeOperator, Finish, Fail
<1>5. CASE Revisit /\ status' # "running"
  BY <1>5, <1>u, Zenon DEF Revisit, AtPackage, Fail
<1>6. CASE Load /\ status' # "running"
  BY <1>6, <1>u, Zenon DEF Load, AtPackage, Fail
<1>7. CASE UNCHANGED vars
  BY <1>7, <1>u DEF vars
<1> QED  BY <1>1, <1>2, <1>3, <1>4, <1>5, <1>6, <1>7, Zenon DEF Next

-----------------------------------------------------------------------------
(* The steps of the walk as steps of Resolution.                           *)

LEMMA StutterRefines ==
  ASSUME UNCHANGED <<job, contents, flags, status>>
  PROVE  UNCHANGED R!vars
BY DEF R!vars, KnownRequires, KnownPrivate, Verdict, Loaded, Direct, Public, Limited, Unlimited

(* A step that ends the program with an error.                             *)
LEMMA FailRefines ==
  ASSUME status = "running", status' \notin {"running", "done"},
         UNCHANGED <<job, contents, flags>>
  PROVE  R!Refuse
<1>1. Verdict = "open" /\ Verdict' = "refused"
  BY DEF Verdict
<1> QED  BY <1>1 DEF R!Refuse, KnownRequires, KnownPrivate, Loaded, Direct, Public, Limited,
                     Unlimited

(* A loaded package is marked.                                             *)
LEMMA MarkRefines ==
  ASSUME TypeOK, RootInv, status = "running", UNCHANGED <<job, contents, status>>,
         NEW CONSTANT p \in Loaded, NEW CONSTANT fl \in SUBSET Flag, Justified(p, fl),
         flags' = [flags EXCEPT ![p] = @ \cup fl]
  PROVE  R!Next \/ UNCHANGED R!vars
<1>1. p \in Name /\ Verdict = "open"
  BY DEF Loaded, Verdict
<1>2. /\ Public' = IF "PUBLIC" \in fl THEN Public \cup {p} ELSE Public
      /\ Direct' = IF "DIRECT" \in fl THEN Direct \cup {p} ELSE Direct
  BY <1>1, Marked
<1>3. UNCHANGED <<KnownRequires, KnownPrivate, Loaded, Limited, Verdict>>
  BY DEF KnownRequires, KnownPrivate, Loaded, Limited, Unlimited, Verdict
<1>4. CASE Public' = Public /\ Direct' = Direct
  BY <1>3, <1>4 DEF R!vars
<1>5. CASE fl = Flag /\ p \notin Direct
  <2>1. Public' = Public \cup {p} /\ Direct' = Direct \cup {p}
    BY <1>2, <1>5 DEF Flag
  <2>2. R!MakeRoot(p)
    BY <1>1, <1>3, <1>5, <2>1 DEF R!MakeRoot
  <2> QED  BY <1>1, <2>2 DEF R!Next
<1>6. CASE fl = {"PUBLIC"} /\ p \notin Public
  <2>1. Public' = Public \cup {p} /\ Direct' = Direct
    BY <1>2, <1>6
  <2>2. PICK q \in Public : contents[q] # Null /\ p \in Named(contents[q].requires)
    BY <1>6 DEF Justified, Flag
  <2>3. R!NeededPublicly(p)
    BY <2>2 DEF R!NeededPublicly, KnownRequires, Public
  <2>4. R!MakePublic(p)
    BY <1>1, <1>3, <1>6, <2>1, <2>3 DEF R!MakePublic
  <2> QED  BY <1>1, <2>4 DEF R!Next
<1>7. fl = Flag /\ p \in Direct => Public' = Public /\ Direct' = Direct
  BY <1>2 DEF RootInv
<1>8. fl = {} \/ (fl = {"PUBLIC"} /\ p \in Public) => Public' = Public /\ Direct' = Direct
  BY <1>2
<1> QED  BY <1>4, <1>5, <1>6, <1>7, <1>8 DEF Justified

(* A package is loaded, and marked.                                        *)
LEMMA LoadRefines ==
  ASSUME WalkInv, RootInv, status = "running", UNCHANGED <<job, status>>,
         NEW CONSTANT p \in Name \ Loaded, NEW CONSTANT fl \in SUBSET Flag, Justified(p, fl),
         NEW CONSTANT file \in File,
         contents' = [contents EXCEPT ![p] = file],
         flags' = [flags EXCEPT ![p] = fl]
  PROVE  R!Next
<1>0. TypeOK /\ FlagsInv
  BY WalkInvSplit DEF WalkInv
<1>1. flags[p] = {} /\ contents[p] = Null
  BY <1>0 DEF FlagsInv, TypeOK, Public, Direct, Loaded, Flag
<1>2. flags' = [flags EXCEPT ![p] = @ \cup fl]
  BY <1>0, <1>1 DEF TypeOK
<1>3. /\ Public' = IF "PUBLIC" \in fl THEN Public \cup {p} ELSE Public
      /\ Direct' = IF "DIRECT" \in fl THEN Direct \cup {p} ELSE Direct
  BY <1>0, <1>2, Marked
<1>4. Loaded' = Loaded \cup {p}
  BY <1>0, TraverseAssumption DEF TypeOK, Loaded
<1>5. Verdict = "open" /\ Verdict' = Verdict /\ Limited' = Limited
  BY DEF Verdict, Limited, Unlimited
<1>6. /\ KnownRequires' = [KnownRequires EXCEPT ![p] = Named(file.requires)]
      /\ KnownPrivate' = [KnownPrivate EXCEPT ![p] = Named(file.requiresprivate)]
  <2>1. file # Null
    BY TraverseAssumption
  <2>2. \A q \in Name : contents'[q] = IF q = p THEN file ELSE contents[q]
    BY <1>0 DEF TypeOK
  <2>3. ASSUME NEW q \in Name
        PROVE  /\ (IF contents'[q] = Null THEN {} ELSE Named(contents'[q].requires))
                    = IF q = p THEN Named(file.requires) ELSE KnownRequires[q]
               /\ (IF contents'[q] = Null THEN {} ELSE Named(contents'[q].requiresprivate))
                    = IF q = p THEN Named(file.requiresprivate) ELSE KnownPrivate[q]
    BY <2>1, <2>2 DEF KnownRequires, KnownPrivate
  <2>4. /\ KnownRequires' = [q \in Name |-> IF q = p THEN Named(file.requires)
                                            ELSE KnownRequires[q]]
        /\ KnownPrivate' = [q \in Name |-> IF q = p THEN Named(file.requiresprivate)
                                           ELSE KnownPrivate[q]]
    BY <2>3 DEF KnownRequires, KnownPrivate, Name, Named, PkgAt, VersionAt, OpToken
  <2>5. DOMAIN KnownRequires = Name /\ DOMAIN KnownPrivate = Name
    BY DEF KnownRequires, KnownPrivate
  <2> HIDE DEF KnownRequires, KnownPrivate
  <2> QED  BY <2>4, <2>5
<1>7. Named(file.requires) \subseteq Name /\ Named(file.requiresprivate) \subseteq Name
  <2>1. file.requires \in Seq(Token) /\ file.requiresprivate \in Seq(Token)
    BY DEF File, TokenList
  <2>2. ASSUME NEW l \in Seq(Token)
        PROVE  Named(l) \subseteq Name
    BY ElementOfSeq, LenProperties DEF Named, PkgAt, Name
  <2> QED  BY <2>1, <2>2
<1>8. R!Learn(p)
  BY <1>4, <1>5, <1>6, <1>7 DEF R!Learn
<1>9. CASE fl = Flag
  <2>1. Public' = Public \cup {p} /\ Direct' = Direct \cup {p}
    BY <1>3, <1>9 DEF Flag
  <2>2. R!LoadRoot(p)
    BY <1>5, <1>8, <2>1 DEF R!LoadRoot
  <2> QED  BY <2>2 DEF R!Next
<1>10. CASE fl = {"PUBLIC"}
  <2>1. Public' = Public \cup {p} /\ Direct' = Direct
    BY <1>3, <1>10
  <2>2. PICK q \in Public : contents[q] # Null /\ p \in Named(contents[q].requires)
    BY <1>10 DEF Justified, Flag
  <2>3. R!NeededPublicly(p)
    BY <2>2 DEF R!NeededPublicly, KnownRequires, Public
  <2>4. R!LoadPublic(p)
    BY <1>5, <1>8, <2>1, <2>3 DEF R!LoadPublic
  <2> QED  BY <2>4 DEF R!Next
<1>11. CASE fl = {}
  <2>1. Public' = Public /\ Direct' = Direct
    BY <1>3, <1>11
  <2>2. PICK q \in Loaded : p \in Named(contents[q].requires)
                                    \cup Named(contents[q].requiresprivate)
    BY <1>11 DEF Justified, Flag
  <2>3. R!Needed(p)
    BY <2>2 DEF R!Needed, KnownRequires, KnownPrivate, Loaded
  <2>4. R!LoadPrivate(p)
    BY <1>5, <1>8, <2>1, <2>3 DEF R!LoadPrivate
  <2> QED  BY <2>4 DEF R!Next
<1> QED  BY <1>9, <1>10, <1>11 DEF Justified

(* A complete walk, as an implication of states.                           *)
LEMMA CompleteWalk ==
  WalkInv /\ status = "done" /\ Unlimited =>
    \A q \in Loaded :
      /\ Named(contents[q].requires) \subseteq Loaded
      /\ Named(contents[q].requiresprivate) \subseteq Loaded
      /\ q \in Public => Named(contents[q].requires) \subseteq Public
BY DoneCovers

(* The walk ends without an error.                                         *)
LEMMA AcceptRefines ==
  ASSUME WalkInv', RootInv, status = "running", status' = "done", order # <<>>,
         UNCHANGED <<job, contents, flags>>
  PROVE  R!Accept
<1>1. Verdict = "open" /\ Verdict' = "accepted"
  BY DEF Verdict
<1>2. UNCHANGED <<KnownRequires, KnownPrivate, Loaded, Direct, Public, Limited>>
  BY DEF KnownRequires, KnownPrivate, Loaded, Direct, Public, Limited, Unlimited
<1>3. Direct # {}
  BY DEF RootInv
<1>4. ASSUME Unlimited
      PROVE  \A q \in Loaded :
               /\ Named(contents[q].requires) \subseteq Loaded
               /\ Named(contents[q].requiresprivate) \subseteq Loaded
               /\ q \in Public => Named(contents[q].requires) \subseteq Public
  <2>1. (WalkInv /\ status = "done" /\ Unlimited =>
          \A q \in Loaded :
            /\ Named(contents[q].requires) \subseteq Loaded
            /\ Named(contents[q].requiresprivate) \subseteq Loaded
            /\ q \in Public => Named(contents[q].requires) \subseteq Public)'
    BY CompleteWalk, PTL
  <2> QED  BY <1>4, <2>1 DEF Unlimited, Loaded, Public, Named, PkgAt, VersionAt
<1>5. ASSUME Unlimited, NEW q \in Name
      PROVE  (R!Needed(q) => q \in Loaded) /\ (R!NeededPublicly(q) => q \in Public)
  BY <1>4, <1>5 DEF R!Needed, R!NeededPublicly, KnownRequires, KnownPrivate, Loaded, Public
<1>6. Limited \/ Unlimited
  BY DEF Limited
<1> QED  BY <1>1, <1>2, <1>3, <1>5, <1>6 DEF R!Accept

-----------------------------------------------------------------------------
LEMMA InitRefines == Init => R!Init
<1> SUFFICES ASSUME Init PROVE R!Init
  OBVIOUS
<1>1. Loaded = {} /\ Direct = {} /\ Public = {} /\ Verdict = "open"
  BY DEF Init, Loaded, Direct, Public, Verdict
<1>2. \A p \in Name : contents[p] = Null
  BY DEF Init
<1>3. KnownRequires = [p \in Name |-> {}] /\ KnownPrivate = [p \in Name |-> {}]
  BY <1>2 DEF KnownRequires, KnownPrivate
<1>4. Limited \in BOOLEAN
  BY DEF Limited
<1> QED  BY <1>1, <1>3, <1>4 DEF R!Init

LEMMA StepRefines ==
  ASSUME WalkInv, WalkInv', RootInv, [Next]_vars
  PROVE  [R!Next]_R!vars
<1>0. TypeOK /\ StackInv /\ FlagsInv
  BY WalkInvSplit DEF WalkInv
<1>f. ASSUME status = "running", status' \notin {"running", "done"},
             UNCHANGED <<job, contents, flags>>
      PROVE  [R!Next]_R!vars
  BY <1>f, FailRefines DEF R!Next
<1>1. CASE BeginArg \/ EndArg
  BY <1>1, StutterRefines DEF BeginArg, EndArg
<1>2. CASE (EndField \/ CheckVersion \/ TakeOperator) /\ status' = status
  <2>1. UNCHANGED <<job, contents, flags>>
    BY <1>2, Zenon DEF EndField, CheckVersion, TakeOperator, Fail
  <2> QED  BY <1>2, <2>1, StutterRefines
<1>3. CASE (EndField \/ CheckVersion \/ TakeOperator \/ Revisit \/ Load) /\ status' # status
  <2>1. /\ status = "running" /\ UNCHANGED <<job, contents, flags>>
        /\ status' \in {"expected version", "version conflict", "unexpected operator",
                        "max recursion", "could not find package"}
    BY <1>3, Zenon DEF EndField, CheckVersion, TakeOperator, Revisit, Load, AtPackage, Fail
  <2> QED  BY <2>1, <1>f
<1>4. CASE Revisit /\ status' = status
  <2> SUFFICES ASSUME NEW CONSTANT p, p = RealName[Tok],
                      NEW CONSTANT fl, fl = Top.flags
               PROVE  [R!Next]_R!vars
    OBVIOUS
  <2>1. p \in Loaded /\ fl \in SUBSET Flag /\ AtPackage /\ status = "running"
    BY <1>0, <1>4, TopType DEF Revisit, AtPackage, SoundFrame, FrameType, Loaded
  <2>2. flags' = [flags EXCEPT ![p] = @ \cup fl] /\ UNCHANGED <<job, contents, status>>
    BY <1>4, <2>1, Zenon DEF Revisit, Fail, Mark
  <2>3. Justified(p, fl)
    BY <1>0, <2>1, FrameJustifies
  <2> QED  BY <1>0, <2>1, <2>2, <2>3, MarkRefines
<1>5. CASE Load /\ status' = status
  <2> SUFFICES ASSUME NEW CONSTANT p, p = RealName[Tok],
                      NEW CONSTANT fl, fl = Top.flags,
                      NEW CONSTANT file, file = job.files[Tok]
               PROVE  [R!Next]_R!vars
    OBVIOUS
  <2>1. /\ p \in Name \ Loaded /\ fl \in SUBSET Flag /\ AtPackage /\ status = "running"
        /\ HasToken
    BY <1>0, <1>5, TopType DEF Load, AtPackage, SoundFrame, FrameType, Loaded
  <2>2. /\ flags' = [flags EXCEPT ![p] = fl]
        /\ contents' = [contents EXCEPT ![p] = file]
        /\ file # NoPackage
        /\ UNCHANGED <<job, status>>
    BY <1>5, <2>1, Zenon DEF Load, Fail
  <2>3. file \in File
    BY <1>0, <2>1, <2>2, TopType, JobType
  <2>4. Justified(p, fl)
    BY <1>0, <2>1, FrameJustifies
  <2> QED  BY <2>1, <2>2, <2>3, <2>4, LoadRefines
<1>6. CASE Finish
  <2>1. status = "running" /\ UNCHANGED <<job, contents, flags, order>>
    BY <1>6 DEF Finish, Fail
  <2>2. \/ status' \in {"expected version", "no package name"}
        \/ status' = "done" /\ order # <<>>
    BY <1>6 DEF Finish, Fail
  <2>3. CASE status' = "done" /\ order # <<>>
    BY <2>1, <2>3, AcceptRefines DEF R!Next
  <2> QED  BY <2>1, <2>2, <2>3, <1>f
<1>7. CASE UNCHANGED vars
  BY <1>7, StutterRefines DEF vars
<1> QED  BY <1>1, <1>2, <1>3, <1>4, <1>5, <1>6, <1>7, Zenon DEF Next

(* The walk with an explicit stack implements dependency resolution.       *)
THEOREM WalkResolves == Spec => Resolves
<1>1. RootInv /\ WalkInv /\ WalkInv' /\ [Next]_vars => RootInv'
  BY RootStep
<1>2. WalkInv /\ WalkInv' /\ RootInv /\ [Next]_vars => [R!Next]_R!vars
  BY StepRefines
<1> QED  BY <1>1, <1>2, RootInit, InitRefines, WalkInvariant, PTL DEF Spec, Resolves, R!Spec
=============================================================================
